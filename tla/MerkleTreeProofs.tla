---------------------------- MODULE MerkleTreeProofs ----------------------------
(***************************************************************************)
(* What the path of a receipt proves, for any tree, event and path.        *)
(*                                                                         *)
(* A recursive function is the choice of a function that satisfies its     *)
(* equation: that there is one, and whatever is then proved by induction,  *)
(* comes from a smallest counterexample that cannot be.                    *)
(***************************************************************************)
EXTENDS MerkleTree, SequenceTheorems, WellFoundedInduction, TLAPS

LEMMA LeastExists ==
  ASSUME NEW S \in SUBSET Nat, S # {}
  PROVE  \E z \in S : \A y \in S : z <= y
<1> DEFINE R == {ss \in Nat \X Nat : ss[1] < ss[2]}
<1>1. IsWellFoundedOn(R, Nat)
  BY NatLessThanWellFounded, Zenon DEF OpToRel
<1>2. \A u, t \in Nat : ~(<<u, t>> \in R) => t <= u
  OBVIOUS
<1> HIDE DEF R
<1>3. PICK t \in S : \A u \in S : ~(<<u, t>> \in R)
  BY <1>1, WFMin
<1> QED
  BY <1>2, <1>3

-----------------------------------------------------------------------------
(* Powers of two.                                                          *)

PowerAfter(g) == [i \in 0..MaxSize |-> IF i = 0 THEN 1 ELSE 2 * g[i - 1]]

LEMMA PowerIsDefined == Power = PowerAfter(Power)
<1> DEFINE Good(n) == \E g : \A i \in 0..n : g[i] = PowerAfter(g)[i]
           Bad == {n \in 0..MaxSize : ~Good(n)}
<1>1. ASSUME Bad # {} PROVE FALSE
  <2>1. PICK n \in Bad : \A m \in Bad : n <= m
    <3>1. Bad \in SUBSET Nat
      BY SizeAssumption
    <3> HIDE DEF Bad
    <3> QED
      BY <1>1, <3>1, LeastExists
  <2>2. n \in 0..MaxSize /\ ~Good(n)
    BY <2>1
  <2>3. CASE n = 0
    <3> DEFINE g == [i \in 0..MaxSize |-> 1]
    <3>1. \A i \in 0..n : g[i] = PowerAfter(g)[i]
      BY <2>3, SizeAssumption DEF PowerAfter
    <3> QED
      BY <2>2, <3>1
  <2>4. CASE n # 0
    <3>1. Good(n - 1)
      BY <2>1, <2>4, SizeAssumption
    <3>2. PICK g : \A i \in 0..(n - 1) : g[i] = PowerAfter(g)[i]
      BY <3>1
    <3> DEFINE h == PowerAfter(g)
    <3>3. ASSUME NEW i \in 0..n PROVE h[i] = PowerAfter(h)[i]
      <4>1. CASE i = 0
        BY <4>1, SizeAssumption DEF PowerAfter
      <4>2. CASE i # 0
        <5>1. i \in 0..MaxSize /\ i - 1 \in 0..(n - 1) /\ i - 1 \in 0..MaxSize
          BY <2>2, <4>2, SizeAssumption
        <5>2. h[i] = 2 * g[i - 1] /\ PowerAfter(h)[i] = 2 * h[i - 1]
          BY <4>2, <5>1 DEF PowerAfter
        <5>3. g[i - 1] = h[i - 1]
          BY <3>2, <5>1
        <5> QED
          BY <5>2, <5>3
      <4> QED
        BY <4>1, <4>2
    <3> QED
      BY <2>2, <3>3
  <2> QED
    BY <2>3, <2>4
<1>2. PICK g : \A i \in 0..MaxSize : g[i] = PowerAfter(g)[i]
  BY <1>1, SizeAssumption
<1> DEFINE h == PowerAfter(g)
<1>3. \A i \in 0..MaxSize : h[i] = g[i]
  BY <1>2
<1>4. h = PowerAfter(h)
  BY <1>3, SizeAssumption DEF PowerAfter
<1>5. \E f : f = PowerAfter(f)
  BY <1>4
<1> QED
  BY <1>5, Zenon DEF Power, PowerAfter

LEMMA PowerValues ==
  /\ Power[0] = 1
  /\ \A i \in 1..MaxSize : Power[i] = 2 * Power[i - 1]
<1>1. \A i \in 0..MaxSize : Power[i] = IF i = 0 THEN 1 ELSE 2 * Power[i - 1]
  BY PowerIsDefined DEF PowerAfter
<1> QED
  BY <1>1, SizeAssumption

\* Each is a number, and larger than its index.
LEMMA PowerType == \A i \in 0..MaxSize : Power[i] \in Nat /\ Power[i] > i
<1> DEFINE Bad == {n \in 0..MaxSize : ~(Power[n] \in Nat /\ Power[n] > n)}
<1>1. ASSUME Bad # {} PROVE FALSE
  <2>1. PICK n \in Bad : \A m \in Bad : n <= m
    <3>1. Bad \in SUBSET Nat
      BY SizeAssumption
    <3> HIDE DEF Bad
    <3> QED
      BY <1>1, <3>1, LeastExists
  <2>2. n # 0
    BY <2>1, PowerValues
  <2>3. n \in 1..MaxSize /\ n - 1 \in 0..MaxSize /\ n - 1 \notin Bad
    BY <2>1, <2>2, SizeAssumption
  <2>4. Power[n] = 2 * Power[n - 1] /\ Power[n - 1] \in Nat /\ Power[n - 1] > n - 1
    BY <2>3, PowerValues
  <2> QED
    BY <2>1, <2>3, <2>4
<1> QED
  BY <1>1

\* A smaller one divides half of a larger one.
LEMMA PowerDivides ==
  ASSUME NEW i \in 0..MaxSize, NEW j \in 0..MaxSize, i < j
  PROVE  \E c \in Nat \ {0} : Power[j] = 2 * (c * Power[i])
<1> DEFINE Good(n) == \E c \in Nat \ {0} : Power[n] = 2 * (c * Power[i])
           Bad == {n \in 0..MaxSize : i < n /\ ~Good(n)}
<1>1. ASSUME Bad # {} PROVE FALSE
  <2>1. PICK n \in Bad : \A m \in Bad : n <= m
    <3>1. Bad \in SUBSET Nat
      BY SizeAssumption
    <3> HIDE DEF Bad
    <3> QED
      BY <1>1, <3>1, LeastExists
  <2>2. n \in 1..MaxSize /\ Power[n] = 2 * Power[n - 1] /\ n - 1 \in 0..MaxSize
    BY <2>1, PowerValues, SizeAssumption
  <2>3. Power[i] \in Nat /\ Power[n - 1] \in Nat
    BY <2>2, PowerType
  <2>4. CASE n - 1 = i
    <3>1. Power[n] = 2 * (1 * Power[i])
      BY <2>2, <2>3, <2>4
    <3> QED
      BY <2>1, <3>1
  <2>5. CASE n - 1 # i
    <3>1. Good(n - 1)
      BY <2>1, <2>2, <2>5
    <3>2. PICK c \in Nat \ {0} : Power[n - 1] = 2 * (c * Power[i])
      BY <3>1
    <3>3. 2 * c \in Nat \ {0} /\ 2 * (c * Power[i]) = (2 * c) * Power[i]
      BY <2>3, <3>2
    <3> QED
      BY <2>1, <2>2, <3>2, <3>3
  <2> QED
    BY <2>4, <2>5
<1> QED
  BY <1>1

LEMMA SplitIs ==
  ASSUME NEW m \in 2..MaxSize, NEW i \in 0..MaxSize, Power[i] < m, m <= 2 * Power[i]
  PROVE  Split(m) = Power[i]
<1>1. Power[i] \in Nat /\ Power[i] > i /\ i \in 0..m
  BY PowerType, SizeAssumption
<1>2. ASSUME NEW k \in {Power[j] : j \in 0..m}, k < m, 2 * k >= m PROVE k = Power[i]
  <2>1. PICK j \in 0..m : k = Power[j]
    BY <1>2
  <2>2. j \in 0..MaxSize /\ k \in Nat
    BY <2>1, PowerType, SizeAssumption
  <2>3. ASSUME i < j PROVE FALSE
    <3>1. PICK c \in Nat \ {0} : k = 2 * (c * Power[i])
      BY <2>1, <2>2, <2>3, PowerDivides
    <3>2. c * Power[i] >= Power[i]
      BY <1>1, <3>1
    <3> QED
      BY <1>1, <1>2, <3>1, <3>2
  <2>4. ASSUME j < i PROVE FALSE
    <3>1. PICK c \in Nat \ {0} : Power[i] = 2 * (c * k)
      BY <2>1, <2>2, <2>4, PowerDivides
    <3>2. c * k >= k
      BY <2>2, <3>1
    <3> QED
      BY <1>1, <1>2, <2>2, <3>1, <3>2
  <2> QED
    BY <2>1, <2>2, <2>3, <2>4
<1>3. Power[i] \in {Power[j] : j \in 0..m} /\ 2 * Power[i] >= m
  BY <1>1
<1> QED
  BY <1>2, <1>3 DEF Split

LEMMA SplitExists ==
  ASSUME NEW m \in 2..MaxSize
  PROVE  Split(m) \in 1..(m - 1)
<1> DEFINE Enough == {i \in 0..MaxSize : m <= 2 * Power[i]}
<1>1. m \in 0..MaxSize /\ Enough \in SUBSET Nat
  BY SizeAssumption
<1>2. Enough # {}
  BY <1>1, PowerType
<1>3. PICK i \in Enough : \A j \in Enough : i <= j
  <2> HIDE DEF Enough
  <2> QED
    BY <1>1, <1>2, LeastExists
<1>4. i \in 0..MaxSize /\ Power[i] \in Nat /\ Power[i] > i
  BY <1>3, PowerType
<1>5. Power[i] < m
  <2>1. CASE i = 0
    BY <2>1, PowerValues
  <2>2. CASE i # 0
    <3>1. i \in 1..MaxSize /\ i - 1 \in 0..MaxSize /\ i - 1 \notin Enough
      BY <1>3, <1>4, <2>2, SizeAssumption
    <3>2. Power[i] = 2 * Power[i - 1] /\ Power[i - 1] \in Nat
      BY <3>1, PowerValues, PowerType
    <3> QED
      BY <1>4, <3>1, <3>2
  <2> QED
    BY <2>1, <2>2
<1>6. Split(m) = Power[i]
  BY <1>3, <1>5, SplitIs
<1> QED
  BY <1>4, <1>5, <1>6

-----------------------------------------------------------------------------
(* Carrying up the last node of a level.                                   *)

ClimbAfter(g) ==
  [at \in Levels |->
     IF at.fn % 2 = 0 /\ at.fn # 0 THEN g[[fn |-> at.fn \div 2, sn |-> at.sn \div 2]]
     ELSE at]

LEMMA HalfOfLevel ==
  ASSUME NEW at \in Levels, at.fn % 2 = 0, at.fn # 0
  PROVE  LET up == [fn |-> at.fn \div 2, sn |-> at.sn \div 2]
         IN  up \in Levels /\ up.fn < at.fn
  BY SizeAssumption DEF Levels

LEMMA ClimbIsDefined == Climb = ClimbAfter(Climb)
<1> DEFINE Good(n) == \E g : \A at \in Levels : at.fn <= n => g[at] = ClimbAfter(g)[at]
           Bad == {n \in 0..MaxSize : ~Good(n)}
<1>1. ASSUME Bad # {} PROVE FALSE
  <2>1. PICK n \in Bad : \A m \in Bad : n <= m
    <3>1. Bad \in SUBSET Nat
      BY SizeAssumption
    <3> HIDE DEF Bad
    <3> QED
      BY <1>1, <3>1, LeastExists
  <2>2. n \in 0..MaxSize /\ ~Good(n)
    BY <2>1
  <2>3. CASE n = 0
    <3> DEFINE g == [at \in Levels |-> at]
    <3>1. \A at \in Levels : at.fn <= n => g[at] = ClimbAfter(g)[at]
      BY <2>3, SizeAssumption DEF ClimbAfter, Levels
    <3> QED
      BY <2>2, <3>1
  <2>4. CASE n # 0
    <3>1. Good(n - 1)
      BY <2>1, <2>4, SizeAssumption
    <3>2. PICK g : \A at \in Levels : at.fn <= n - 1 => g[at] = ClimbAfter(g)[at]
      BY <3>1
    <3> DEFINE h == ClimbAfter(g)
    <3>3. ASSUME NEW at \in Levels, at.fn <= n PROVE h[at] = ClimbAfter(h)[at]
      <4> DEFINE up == [fn |-> at.fn \div 2, sn |-> at.sn \div 2]
      <4>1. CASE at.fn % 2 = 0 /\ at.fn # 0
        <5>1. up \in Levels /\ up.fn <= n - 1
          BY <2>2, <3>3, <4>1, HalfOfLevel, SizeAssumption DEF Levels
        <5>2. h[at] = g[up] /\ ClimbAfter(h)[at] = h[up]
          BY <4>1 DEF ClimbAfter
        <5>3. g[up] = h[up]
          BY <3>2, <5>1
        <5> QED
          BY <5>2, <5>3
      <4>2. CASE ~(at.fn % 2 = 0 /\ at.fn # 0)
        BY <4>2 DEF ClimbAfter
      <4> QED
        BY <4>1, <4>2
    <3> QED
      BY <2>2, <3>3
  <2> QED
    BY <2>3, <2>4
<1>2. PICK g : \A at \in Levels : at.fn <= MaxSize => g[at] = ClimbAfter(g)[at]
  BY <1>1, SizeAssumption
<1> DEFINE h == ClimbAfter(g)
<1>3. \A at \in Levels : h[at] = g[at]
  BY <1>2, SizeAssumption DEF Levels
<1>4. h = ClimbAfter(h)
  <2>1. ASSUME NEW at \in Levels PROVE h[at] = ClimbAfter(h)[at]
    BY <1>3, HalfOfLevel DEF ClimbAfter
  <2> QED
    BY <2>1 DEF ClimbAfter
<1>5. \E f : f = ClimbAfter(f)
  BY <1>4
<1> QED
  BY <1>5, Zenon DEF Climb, ClimbAfter, Levels

LEMMA ClimbStep ==
  ASSUME NEW at \in Levels
  PROVE  Climb[at] = IF at.fn % 2 = 0 /\ at.fn # 0
                     THEN Climb[[fn |-> at.fn \div 2, sn |-> at.sn \div 2]] ELSE at
<1>1. Climb[at] = ClimbAfter(Climb)[at]
  BY ClimbIsDefined
<1> QED
  BY <1>1 DEF ClimbAfter

LEMMA Products ==
  ASSUME NEW j \in Nat, NEW w \in Nat
  PROVE  /\ j * w \in Nat /\ (j + 1) * w = j * w + w
         /\ (2 * j) * w = 2 * (j * w) /\ j * (2 * w) = 2 * (j * w)
         /\ (2 * j + 1) * w = 2 * (j * w) + w
         /\ (2 * j + 1 + 1) * w = 2 * (j * w) + 2 * w
         /\ (j + 1) * (2 * w) = 2 * (j * w) + 2 * w
         /\ (j >= 1 => j * w >= w) /\ (w >= 1 => j * w >= j)
  OBVIOUS

\* The width of a level that is within the sizes doubles.
LEMMA WidthDoubles ==
  ASSUME NEW i \in 0..MaxSize, Power[i] <= MaxSize
  PROVE  i + 1 \in 1..MaxSize /\ Power[i + 1] = 2 * Power[i] /\ Power[i] \in Nat \ {0}
<1>1. Power[i] \in Nat /\ Power[i] > i
  BY PowerType
<1>2. i + 1 \in 1..MaxSize /\ (i + 1) - 1 = i
  BY <1>1, SizeAssumption
<1> QED
  BY <1>1, <1>2, PowerValues

\* The last node of a level, at place m where a node is Power[k] wide, is carried up
\* to place f of a level where it is a right one, and starts and ends where it did.
CarriedTo(n, m, k, f, j) ==
  /\ f \in 1..MaxSize /\ j \in 0..MaxSize
  /\ Climb[[fn |-> m, sn |-> m]] = [fn |-> f, sn |-> f]
  /\ f % 2 = 1 /\ f * Power[j] = m * Power[k] /\ n <= (f + 1) * Power[j]

AtEnd(n, m, k) == m * Power[k] < n /\ n <= (m + 1) * Power[k]

LEMMA ClimbUp ==
  ASSUME NEW n \in 1..MaxSize, NEW fn \in 1..MaxSize, NEW i \in 0..MaxSize, AtEnd(n, fn, i)
  PROVE  \E f, j : CarriedTo(n, fn, i, f, j)
<1> DEFINE Good(m, k) == \E f, j : CarriedTo(n, m, k, f, j)
           Bad == {m \in 1..MaxSize : \E k \in 0..MaxSize : AtEnd(n, m, k) /\ ~Good(m, k)}
<1>1. ASSUME Bad # {} PROVE FALSE
  <2>1. PICK m \in Bad : \A x \in Bad : m <= x
    <3>1. Bad \in SUBSET Nat
      BY SizeAssumption
    <3> HIDE DEF Bad
    <3> QED
      BY <1>1, <3>1, LeastExists
  <2>2. PICK k \in 0..MaxSize : AtEnd(n, m, k) /\ ~Good(m, k)
    BY <2>1
  <2> DEFINE at == [fn |-> m, sn |-> m]
  <2>3. m \in 1..MaxSize /\ at \in Levels /\ Power[k] \in Nat
    BY <2>1, PowerType, SizeAssumption DEF Levels
  <2>4. CASE m % 2 = 1
    <3>1. Climb[at] = at
      <4>1. at \in Levels /\ at.fn % 2 # 0
        BY <2>3, <2>4
      <4> HIDE DEF at
      <4> QED
        BY <4>1, ClimbStep
    <3>2. CarriedTo(n, m, k, m, k)
      BY <2>2, <2>3, <2>4, <3>1 DEF CarriedTo, AtEnd
    <3> QED
      BY <2>2, <3>2
  <2>5. CASE m % 2 = 0
    <3> DEFINE half == m \div 2
               w == Power[k]
    <3>1. half \in 1..MaxSize /\ half < m /\ m = 2 * half
      BY <2>3, <2>5, SizeAssumption
    <3>2. Climb[at] = Climb[[fn |-> half, sn |-> half]]
      BY <2>3, <2>5, <3>1, ClimbStep, SizeAssumption
    <3> HIDE DEF half, w
    <3>3. m \in Nat /\ m >= 1 /\ half \in Nat /\ w \in Nat
      BY <2>3, <3>1, SizeAssumption DEF w
    <3>4. /\ m * w \in Nat /\ m * w >= w /\ (m + 1) * w = m * w + w
          /\ half * (2 * w) = 2 * (half * w) /\ (2 * half) * w = 2 * (half * w)
          /\ (half + 1) * (2 * w) = 2 * (half * w) + 2 * w
      BY ONLY <3>3, Products
    <3>5. m * w < n /\ n <= (m + 1) * w /\ n \in Nat /\ n <= MaxSize /\ MaxSize \in Nat
      BY <2>2, SizeAssumption DEF AtEnd, w
    <3>6. k + 1 \in 0..MaxSize /\ Power[k + 1] = 2 * w
      <4>1. Power[k] <= MaxSize
        BY <3>3, <3>4, <3>5 DEF w
      <4> QED
        BY <2>2, <3>5, <4>1, WidthDoubles DEF w
    <3>7. half * Power[k + 1] = m * w /\ (half + 1) * Power[k + 1] = m * w + 2 * w
      BY <3>1, <3>4, <3>6
    <3>8. AtEnd(n, half, k + 1)
      BY <3>3, <3>4, <3>5, <3>7 DEF AtEnd
    <3>9. PICK f, j : CarriedTo(n, half, k + 1, f, j)
      BY <2>1, <3>1, <3>6, <3>8
    <3>10. CarriedTo(n, m, k, f, j)
      BY <3>2, <3>7, <3>9 DEF CarriedTo, w
    <3> QED
      BY <2>2, <3>10
  <2> QED
    BY <2>3, <2>4, <2>5, SizeAssumption
<1> QED
  BY <1>1

-----------------------------------------------------------------------------
(* The nodes of a tree.                                                    *)

\* The span of a node: which one it is where a node is Power[i] wide.
Node(n, j, i) ==
  <<j * Power[i], IF (j + 1) * Power[i] <= n THEN (j + 1) * Power[i] ELSE n>>

Within(n) == (0..n) \X (0..n)

LEMMA NodeSplits ==
  ASSUME NEW n \in 1..MaxSize, NEW i \in 0..MaxSize, NEW j \in Nat,
         (2 * j + 1) * Power[i] < n
  PROVE  LET span == Node(n, j, i + 1)
         IN  /\ i + 1 \in 0..MaxSize /\ Power[i + 1] = 2 * Power[i]
             /\ span \in Within(n) /\ span[2] - span[1] > 1
             /\ Middle(span) = (2 * j + 1) * Power[i]
             /\ LeftOf(span) = Node(n, 2 * j, i) /\ LeftOf(span) \in Within(n)
             /\ RightOf(span) = Node(n, 2 * j + 1, i) /\ RightOf(span) \in Within(n)
<1> DEFINE a == j * Power[i]
           W == Power[i]
           span == Node(n, j, i + 1)
<1>1. W \in Nat /\ W > i
  BY PowerType
<1>2. /\ a \in Nat /\ (2 * j) * W = 2 * a /\ (2 * j + 1) * W = 2 * a + W
      /\ (2 * j + 1 + 1) * W = 2 * a + 2 * W /\ j * (2 * W) = 2 * a
      /\ (j + 1) * (2 * W) = 2 * a + 2 * W
  BY <1>1, Products
<1> HIDE DEF a, W
<1>3. 2 * a + W < n /\ W >= 1 /\ n \in Nat /\ n <= MaxSize /\ MaxSize \in Nat
  BY <1>1, <1>2, SizeAssumption DEF W
<1>4. i + 1 \in 0..MaxSize /\ Power[i + 1] = 2 * W
  <2>1. Power[i] <= MaxSize
    BY <1>1, <1>2, <1>3 DEF W
  <2> QED
    BY <1>3, <2>1, WidthDoubles DEF W
<1> DEFINE hi == IF 2 * a + 2 * W <= n THEN 2 * a + 2 * W ELSE n
<1>5. hi \in 0..n /\ hi - 2 * a \in 2..MaxSize /\ W < hi - 2 * a /\ hi - 2 * a <= 2 * W
      /\ 2 * a \in 0..n /\ 2 * a + W \in 0..n
  BY <1>1, <1>2, <1>3
<1>6. span = <<2 * a, hi>>
  BY <1>2, <1>4 DEF Node
<1>7. Node(n, 2 * j, i) = <<2 * a, 2 * a + W>>
  <2>1. Node(n, 2 * j, i)
          = <<(2 * j) * W, IF (2 * j + 1) * W <= n THEN (2 * j + 1) * W ELSE n>>
    BY DEF Node, W
  <2> QED
    BY <1>1, <1>2, <1>3, <2>1
<1>8. Node(n, 2 * j + 1, i) = <<2 * a + W, hi>>
  <2>1. Node(n, 2 * j + 1, i)
          = <<(2 * j + 1) * W, IF (2 * j + 1 + 1) * W <= n THEN (2 * j + 1 + 1) * W ELSE n>>
    BY DEF Node, W
  <2> QED
    BY <1>2, <2>1
<1> HIDE DEF hi, span
<1>9. Split(hi - 2 * a) = W
  BY <1>5, SplitIs DEF W
<1>10. span[1] = 2 * a /\ span[2] = hi /\ Middle(span) = 2 * a + W
  BY <1>6, <1>9 DEF Middle
<1>11. LeftOf(span) = <<2 * a, 2 * a + W>> /\ RightOf(span) = <<2 * a + W, hi>>
  BY <1>10 DEF LeftOf, RightOf
<1>12. span \in Within(n) /\ LeftOf(span) \in Within(n) /\ RightOf(span) \in Within(n)
  BY <1>5, <1>6, <1>11 DEF Within
<1>13. span[2] - span[1] > 1
  BY <1>3, <1>5, <1>10
<1> QED
  BY <1>2, <1>4, <1>7, <1>8, <1>10, <1>11, <1>12, <1>13 DEF span, W

LEMMA Halves ==
  ASSUME NEW n \in 0..MaxSize, NEW s \in Within(n), s[2] - s[1] > 1
  PROVE  /\ LeftOf(s) \in Within(n) /\ LeftOf(s)[2] - LeftOf(s)[1] < s[2] - s[1]
         /\ RightOf(s) \in Within(n) /\ RightOf(s)[2] - RightOf(s)[1] < s[2] - s[1]
<1>1. s[1] \in 0..n /\ s[2] \in 0..n /\ n \in Nat /\ n <= MaxSize /\ MaxSize \in Nat
  BY SizeAssumption DEF Within
<1>2. s[2] - s[1] \in 2..MaxSize
  BY <1>1
<1>3. Split(s[2] - s[1]) \in 1..(s[2] - s[1] - 1)
  BY <1>2, SplitExists
<1>4. Middle(s) \in 0..n /\ s[1] < Middle(s) /\ Middle(s) < s[2]
  BY <1>1, <1>3 DEF Middle
<1> QED
  BY <1>1, <1>4 DEF LeftOf, RightOf, Within

HashAfter(t, g) ==
  [span \in Spans(t) |->
     IF span[2] - span[1] <= 1 THEN ComputeLeafHash(t[span[2]])
     ELSE ComputeNodeHash(g[LeftOf(span)], g[RightOf(span)])]

LEMMA TreeHashIsDefined ==
  ASSUME NEW t, Len(t) \in 0..MaxSize
  PROVE  TreeHash(t) = HashAfter(t, TreeHash(t))
<1> DEFINE n == Len(t)
           S == Within(n)
           After(g) == HashAfter(t, g)
           Good(m) == \E g : \A s \in S : s[2] - s[1] <= m => g[s] = After(g)[s]
           Bad == {m \in 0..n : ~Good(m)}
<1>1. /\ n \in Nat /\ n <= MaxSize /\ S = Spans(t)
      /\ \A s \in S : s[1] \in 0..n /\ s[2] \in 0..n
  BY SizeAssumption DEF Spans, Within
<1>2. \A g : \A s \in S : s[2] - s[1] <= 1 => After(g)[s] = ComputeLeafHash(t[s[2]])
  BY <1>1 DEF HashAfter
<1>3. \A g : \A s \in S : s[2] - s[1] > 1 =>
        After(g)[s] = ComputeNodeHash(g[LeftOf(s)], g[RightOf(s)])
  BY <1>1 DEF HashAfter
<1>4. \A s \in S : s[2] - s[1] > 1 =>
        /\ LeftOf(s) \in S /\ LeftOf(s)[2] - LeftOf(s)[1] < s[2] - s[1]
        /\ RightOf(s) \in S /\ RightOf(s)[2] - RightOf(s)[1] < s[2] - s[1]
  BY Halves
<1> HIDE DEF n, S, After
<1>5. \A s \in S : /\ s[2] - s[1] \in Int
                  /\ s[2] - s[1] <= n /\ (s[2] - s[1] <= 1 \/ s[2] - s[1] > 1)
  BY <1>1
<1>6. ASSUME Bad # {} PROVE FALSE
  <2>1. PICK m \in Bad : \A x \in Bad : m <= x
    <3>1. Bad \in SUBSET Nat
      BY <1>1
    <3> HIDE DEF Bad
    <3> QED
      BY <1>6, <3>1, LeastExists
  <2>2. m \in Nat /\ m <= n /\ ~Good(m)
    BY <1>1, <2>1
  <2>3. PICK g : \A s \in S : s[2] - s[1] <= m - 1 => g[s] = After(g)[s]
    <3>1. CASE m = 0
      <4> DEFINE g == After(1)
      <4>1. \A s \in S : s[2] - s[1] <= m - 1 => g[s] = After(g)[s]
        BY <1>2, <1>5, <3>1
      <4> QED
        BY <4>1
    <3>2. CASE m # 0
      <4>1. m - 1 \in 0..n /\ m - 1 \notin Bad
        <5>1. m - 1 \in 0..n /\ ~(m <= m - 1)
          BY <1>1, <2>2, <3>2
        <5> HIDE DEF Bad
        <5> QED
          BY <2>1, <5>1
      <4> QED
        BY <4>1
    <3> QED
      BY <3>1, <3>2
  <2> DEFINE h == After(g)
  <2>4. ASSUME NEW s \in S, s[2] - s[1] <= m PROVE h[s] = After(h)[s]
    <3>1. CASE s[2] - s[1] <= 1
      BY <1>2, <3>1
    <3>2. CASE s[2] - s[1] > 1
      <4>1. g[LeftOf(s)] = h[LeftOf(s)] /\ g[RightOf(s)] = h[RightOf(s)]
        BY <1>4, <1>5, <2>2, <2>3, <2>4, <3>2
      <4> QED
        BY <1>3, <3>2, <4>1
    <3> QED
      BY <1>5, <3>1, <3>2
  <2> QED
    BY <2>2, <2>4
<1>7. PICK g : \A s \in S : s[2] - s[1] <= n => g[s] = After(g)[s]
  <2>1. n \in 0..n
    BY <1>1
  <2>2. Good(n)
    <3> HIDE DEF Good
    <3> QED
      BY <1>6, <2>1
  <2> QED
    BY <2>2
<1> DEFINE h == After(g)
<1>8. \A s \in S : h[s] = g[s]
  BY <1>5, <1>7
<1>9. \A s \in S : h[s] = After(h)[s]
  <2>1. ASSUME NEW s \in S PROVE h[s] = After(h)[s]
    <3>1. CASE s[2] - s[1] <= 1
      BY <1>2, <3>1
    <3>2. CASE s[2] - s[1] > 1
      BY <1>3, <1>4, <1>8, <3>2
    <3> QED
      BY <1>5, <3>1, <3>2
  <2> QED
    BY <2>1
<1>10. h = After(h)
  BY <1>1, <1>9 DEF After, HashAfter
<1>11. \E f : f = HashAfter(t, f)
  BY <1>10 DEF After
<1> QED
  BY <1>11, Zenon DEF TreeHash, HashAfter

PathsAfter(t, index, g) ==
  [span \in Spans(t) |->
     IF span[2] - span[1] <= 1 THEN <<>>
     ELSE IF index < Middle(span)
     THEN Append(g[LeftOf(span)], TreeHash(t)[RightOf(span)])
     ELSE Append(g[RightOf(span)], TreeHash(t)[LeftOf(span)])]

LEMMA PathsIsDefined ==
  ASSUME NEW t, Len(t) \in 0..MaxSize, NEW index
  PROVE  PathsFrom(t, index) = PathsAfter(t, index, PathsFrom(t, index))
<1> DEFINE n == Len(t)
           S == Within(n)
           After(g) == PathsAfter(t, index, g)
           Good(m) == \E g : \A s \in S : s[2] - s[1] <= m => g[s] = After(g)[s]
           Bad == {m \in 0..n : ~Good(m)}
<1>1. /\ n \in Nat /\ n <= MaxSize /\ S = Spans(t)
      /\ \A s \in S : s[1] \in 0..n /\ s[2] \in 0..n
  BY SizeAssumption DEF Spans, Within
<1>2. \A g : \A s \in S : s[2] - s[1] <= 1 => After(g)[s] = <<>>
  BY <1>1 DEF PathsAfter
<1>3. \A g : \A s \in S : s[2] - s[1] > 1 =>
        After(g)[s] = (IF index < Middle(s)
                        THEN Append(g[LeftOf(s)], TreeHash(t)[RightOf(s)])
                        ELSE Append(g[RightOf(s)], TreeHash(t)[LeftOf(s)]))
  BY <1>1 DEF PathsAfter
<1>4. \A s \in S : s[2] - s[1] > 1 =>
        /\ LeftOf(s) \in S /\ LeftOf(s)[2] - LeftOf(s)[1] < s[2] - s[1]
        /\ RightOf(s) \in S /\ RightOf(s)[2] - RightOf(s)[1] < s[2] - s[1]
  BY Halves
<1> HIDE DEF n, S, After
<1>5. \A s \in S : /\ s[2] - s[1] \in Int
                  /\ s[2] - s[1] <= n /\ (s[2] - s[1] <= 1 \/ s[2] - s[1] > 1)
  BY <1>1
<1>6. ASSUME Bad # {} PROVE FALSE
  <2>1. PICK m \in Bad : \A x \in Bad : m <= x
    <3>1. Bad \in SUBSET Nat
      BY <1>1
    <3> HIDE DEF Bad
    <3> QED
      BY <1>6, <3>1, LeastExists
  <2>2. m \in Nat /\ m <= n /\ ~Good(m)
    BY <1>1, <2>1
  <2>3. PICK g : \A s \in S : s[2] - s[1] <= m - 1 => g[s] = After(g)[s]
    <3>1. CASE m = 0
      <4> DEFINE g == After(1)
      <4>1. \A s \in S : s[2] - s[1] <= m - 1 => g[s] = After(g)[s]
        BY <1>2, <1>5, <3>1
      <4> QED
        BY <4>1
    <3>2. CASE m # 0
      <4>1. m - 1 \in 0..n /\ m - 1 \notin Bad
        <5>1. m - 1 \in 0..n /\ ~(m <= m - 1)
          BY <1>1, <2>2, <3>2
        <5> HIDE DEF Bad
        <5> QED
          BY <2>1, <5>1
      <4> QED
        BY <4>1
    <3> QED
      BY <3>1, <3>2
  <2> DEFINE h == After(g)
  <2>4. ASSUME NEW s \in S, s[2] - s[1] <= m PROVE h[s] = After(h)[s]
    <3>1. CASE s[2] - s[1] <= 1
      BY <1>2, <3>1
    <3>2. CASE s[2] - s[1] > 1
      <4>1. g[LeftOf(s)] = h[LeftOf(s)] /\ g[RightOf(s)] = h[RightOf(s)]
        BY <1>4, <1>5, <2>2, <2>3, <2>4, <3>2
      <4> QED
        BY <1>3, <3>2, <4>1
    <3> QED
      BY <1>5, <3>1, <3>2
  <2> QED
    BY <2>2, <2>4
<1>7. PICK g : \A s \in S : s[2] - s[1] <= n => g[s] = After(g)[s]
  <2>1. n \in 0..n
    BY <1>1
  <2>2. Good(n)
    <3> HIDE DEF Good
    <3> QED
      BY <1>6, <2>1
  <2> QED
    BY <2>2
<1> DEFINE h == After(g)
<1>8. \A s \in S : h[s] = g[s]
  BY <1>5, <1>7
<1>9. \A s \in S : h[s] = After(h)[s]
  <2>1. ASSUME NEW s \in S PROVE h[s] = After(h)[s]
    <3>1. CASE s[2] - s[1] <= 1
      BY <1>2, <3>1
    <3>2. CASE s[2] - s[1] > 1
      BY <1>3, <1>4, <1>8, <3>2
    <3> QED
      BY <1>5, <3>1, <3>2
  <2> QED
    BY <2>1
<1>10. h = After(h)
  BY <1>1, <1>9 DEF After, PathsAfter
<1>11. \E f : f = PathsAfter(t, index, f)
  BY <1>10 DEF After
<1> QED
  BY <1>11, Zenon DEF PathsFrom, PathsAfter

-----------------------------------------------------------------------------
(* The walk.                                                               *)

WalkStart(event, leafIndex, treeSize) ==
  [fn |-> leafIndex, sn |-> treeSize - 1, excess |-> FALSE, r |-> ComputeLeafHash(event)]

WalkAfter(event, leafIndex, treeSize, path, g) ==
  [k \in 0..Len(path) |-> IF k = 0 THEN WalkStart(event, leafIndex, treeSize)
                          ELSE WalkStep(g[k - 1], path[k])]

LEMMA WalkIsDefined ==
  ASSUME NEW event, NEW leafIndex, NEW treeSize, NEW path, Len(path) \in Nat
  PROVE  Walk(event, leafIndex, treeSize, path) = WalkAfter(event, leafIndex, treeSize, path, Walk(event, leafIndex, treeSize, path))
<1> DEFINE n == Len(path)
           After(g) == WalkAfter(event, leafIndex, treeSize, path, g)
           Good(m) == \E g : \A k \in 0..m : g[k] = After(g)[k]
           Bad == {m \in 0..n : ~Good(m)}
<1>1. n \in Nat
  OBVIOUS
<1>2. \A g : After(g)[0] = WalkStart(event, leafIndex, treeSize)
  BY <1>1 DEF WalkAfter
<1>3. \A g : \A k \in 1..n : After(g)[k] = WalkStep(g[k - 1], path[k])
  BY <1>1 DEF WalkAfter
<1> HIDE DEF n, After
<1>4. ASSUME Bad # {} PROVE FALSE
  <2>1. PICK m \in Bad : \A x \in Bad : m <= x
    <3>1. Bad \in SUBSET Nat
      BY <1>1
    <3> HIDE DEF Bad
    <3> QED
      BY <1>4, <3>1, LeastExists
  <2>2. m \in Nat /\ m <= n /\ ~Good(m)
    BY <1>1, <2>1
  <2>3. PICK g : \A k \in 0..(m - 1) : g[k] = After(g)[k]
    <3>1. CASE m = 0
      BY <3>1
    <3>2. CASE m # 0
      <4>1. m - 1 \in 0..n /\ m - 1 \notin Bad
        <5>1. m - 1 \in 0..n /\ ~(m <= m - 1)
          BY <1>1, <2>2, <3>2
        <5> HIDE DEF Bad
        <5> QED
          BY <2>1, <5>1
      <4> QED
        BY <4>1
    <3> QED
      BY <3>1, <3>2
  <2> DEFINE h == After(g)
  <2>4. ASSUME NEW k \in 0..m PROVE h[k] = After(h)[k]
    <3>1. CASE k = 0
      BY <1>2, <3>1
    <3>2. CASE k # 0
      <4>1. k \in 1..n /\ k - 1 \in 0..(m - 1)
        BY <1>1, <2>2, <2>4, <3>2
      <4>2. g[k - 1] = h[k - 1]
        BY <2>3, <4>1
      <4> QED
        BY <1>3, <4>1, <4>2
    <3> QED
      BY <3>1, <3>2
  <2> QED
    BY <2>2, <2>4
<1>5. PICK g : \A k \in 0..n : g[k] = After(g)[k]
  <2>1. n \in 0..n
    BY <1>1
  <2>2. Good(n)
    <3> HIDE DEF Good
    <3> QED
      BY <1>4, <2>1
  <2> QED
    BY <2>2
<1> DEFINE h == After(g)
<1>6. \A k \in 0..n : h[k] = After(h)[k]
  <2>1. ASSUME NEW k \in 0..n PROVE h[k] = After(h)[k]
    <3>1. CASE k = 0
      BY <1>2, <3>1
    <3>2. CASE k # 0
      <4>1. k \in 1..n /\ k - 1 \in 0..n
        BY <1>1, <3>2
      <4> QED
        BY <1>3, <1>5, <4>1
    <3> QED
      BY <3>1, <3>2
  <2> QED
    BY <2>1
<1>7. h = After(h)
  BY <1>6 DEF After, WalkAfter, n
<1>8. \E f : f = WalkAfter(event, leafIndex, treeSize, path, f)
  BY <1>7 DEF After
<1> QED
  BY <1>8, Zenon DEF Walk, WalkAfter, WalkStart

LEMMA WalkSteps ==
  ASSUME NEW event, NEW leafIndex, NEW treeSize, NEW path, Len(path) \in Nat
  PROVE  LET f == Walk(event, leafIndex, treeSize, path)
         IN  /\ f[0] = WalkStart(event, leafIndex, treeSize)
             /\ \A k \in 1..Len(path) :
                  f[k] = WalkStep(f[k - 1], path[k])
<1> DEFINE f == Walk(event, leafIndex, treeSize, path)
<1>1. f = WalkAfter(event, leafIndex, treeSize, path, f)
  BY WalkIsDefined
<1> HIDE DEF f
<1>2. \A k \in 0..Len(path) : f[k] = WalkAfter(event, leafIndex, treeSize, path, f)[k]
  BY <1>1
<1>3. f[0] = WalkStart(event, leafIndex, treeSize) /\ \A k \in 1..Len(path) : f[k] = WalkStep(f[k - 1], path[k])
  BY <1>2 DEF WalkAfter
<1> QED
  BY <1>3 DEF f

LEMMA ProductsInOrder ==
  ASSUME NEW a \in Nat, NEW b \in Nat, NEW w \in Nat, a <= b
  PROVE  a * w \in Nat /\ b * w \in Nat /\ a * w <= b * w
<1> DEFINE d == b - a
<1>1. d \in Nat /\ b = a + d
  OBVIOUS
<1> HIDE DEF d
<1>2. d * w \in Nat /\ a * w \in Nat
  BY <1>1
<1>3. (a + d) * w = a * w + d * w
  BY <1>1
<1> QED
  BY <1>1, <1>2, <1>3

\* The last node of a level is within the last of the next.
LEMMA LastOfNext ==
  ASSUME NEW n \in Nat, NEW w \in Nat, NEW sn \in Nat, sn * w < n, n <= (sn + 1) * w
  PROVE  /\ (sn \div 2) \in Nat
         /\ (sn \div 2) * (2 * w) < n /\ n <= (sn \div 2 + 1) * (2 * w)
<1> DEFINE q == sn \div 2
<1>1. q \in Nat /\ (sn = 2 * q \/ sn = 2 * q + 1)
  OBVIOUS
<1> HIDE DEF q
<1>2. /\ (2 * q) * w = 2 * (q * w) /\ q * (2 * w) = 2 * (q * w)
      /\ (2 * q + 1) * w = 2 * (q * w) + w /\ (2 * q + 1 + 1) * w = 2 * (q * w) + 2 * w
      /\ (q + 1) * (2 * w) = 2 * (q * w) + 2 * w /\ q * w \in Nat
  BY <1>1, Products
<1>3. CASE sn = 2 * q
  BY <1>1, <1>2, <1>3 DEF q
<1>4. CASE sn = 2 * q + 1
  BY <1>1, <1>2, <1>4 DEF q
<1> QED
  BY <1>1, <1>3, <1>4

\* The walk is at a node of the level that is Power[i] wide.
At(w, n, i) ==
  /\ w = [fn |-> w.fn, sn |-> w.sn, excess |-> w.excess, r |-> w.r]
  /\ i \in 0..MaxSize /\ w.fn \in 0..MaxSize /\ w.sn \in 0..MaxSize
  /\ w.fn <= w.sn
  /\ w.sn * Power[i] < n /\ n <= (w.sn + 1) * Power[i]

\* A step from a left node leads to the node above, whose left half it is.
LEMMA StepFromLeft ==
  ASSUME NEW n \in 1..MaxSize, NEW w, NEW p, NEW i \in 0..MaxSize, At(w, n, i),
         w.sn # 0, w.fn % 2 = 0, w.fn # w.sn
  PROVE  LET v == WalkStep(w, p)
             above == Node(n, v.fn, i + 1)
         IN  /\ At(v, n, i + 1) /\ v.excess = w.excess
             /\ v.r = ComputeNodeHash(w.r, p)
             /\ w.fn = 2 * v.fn
             /\ above \in Within(n) /\ above[2] - above[1] > 1
             /\ LeftOf(above) = Node(n, w.fn, i)
<1> DEFINE v == WalkStep(w, p)
           j == w.fn \div 2
           W == Power[i]
<1>1. /\ i \in 0..MaxSize /\ w.fn \in Nat /\ w.sn \in Nat /\ w.fn <= MaxSize /\ w.sn <= MaxSize
      /\ w.fn <= w.sn /\ n \in Nat /\ n <= MaxSize /\ MaxSize \in Nat
  BY SizeAssumption DEF At
<1>2. j \in Nat /\ w.fn = 2 * j /\ 2 * j + 1 <= w.sn /\ j <= MaxSize
  BY <1>1
<1>3. W \in Nat
  BY <1>1, PowerType
<1>4. (2 * j + 1) * W <= w.sn * W
  BY <1>1, <1>2, <1>3, ProductsInOrder
<1>5. (2 * j + 1) * Power[i] < n
  <2>1. (2 * j + 1) * W \in Nat /\ w.sn * W \in Nat /\ w.sn * W < n
    BY <1>1, <1>2, <1>3, ProductsInOrder DEF At
  <2> QED
    BY <1>1, <1>4, <2>1
<1>6. /\ i + 1 \in 0..MaxSize /\ Power[i + 1] = 2 * W
      /\ Node(n, j, i + 1) \in Within(n) /\ Node(n, j, i + 1)[2] - Node(n, j, i + 1)[1] > 1
      /\ LeftOf(Node(n, j, i + 1)) = Node(n, 2 * j, i)
  BY <1>1, <1>2, <1>5, NodeSplits
<1>7. v = [fn |-> j, sn |-> w.sn \div 2, excess |-> w.excess, r |-> ComputeNodeHash(w.r, p)]
  <2>1. w.fn % 2 # 1 /\ ~(w.fn % 2 = 1 \/ w.fn = w.sn)
    OBVIOUS
  <2>2. v = [w EXCEPT !.fn = j, !.sn = w.sn \div 2, !.r = ComputeNodeHash(w.r, p)]
    BY <2>1 DEF WalkStep
  <2> QED
    BY <2>2 DEF At
<1>8. /\ w.sn \div 2 \in Nat /\ w.sn \div 2 <= MaxSize /\ j <= w.sn \div 2
      /\ (w.sn \div 2) * (2 * W) < n /\ n <= (w.sn \div 2 + 1) * (2 * W)
  <2>1. w.sn * W < n /\ n <= (w.sn + 1) * W
    BY DEF At
  <2>2. w.sn \div 2 \in Nat /\ w.sn \div 2 <= MaxSize /\ j <= w.sn \div 2
    BY <1>1
  <2> QED
    BY <1>1, <1>3, <2>1, <2>2, LastOfNext
<1> HIDE DEF v, j
<1>9. v.fn = j /\ v.sn = w.sn \div 2 /\ v.excess = w.excess /\ v.r = ComputeNodeHash(w.r, p)
      /\ v = [fn |-> v.fn, sn |-> v.sn, excess |-> v.excess, r |-> v.r]
  BY <1>7
<1>10. At(v, n, i + 1)
  <2>1. v.fn \in 0..MaxSize /\ v.sn \in 0..MaxSize /\ v.fn <= v.sn
    BY <1>1, <1>2, <1>8, <1>9
  <2>2. v.sn * Power[i + 1] < n /\ n <= (v.sn + 1) * Power[i + 1]
    BY <1>6, <1>8, <1>9
  <2> QED
    BY <1>6, <1>9, <2>1, <2>2 DEF At
<1> QED
  BY <1>2, <1>6, <1>9, <1>10 DEF v

\* A node that has no sibling is the same node where it is a right one: there it is at
\* place f, and sn is the last.
Climbed(n, w, i, f, sn, j) ==
  /\ j \in 0..MaxSize /\ f \in 1..MaxSize /\ sn \in 1..MaxSize
  /\ Climb[[fn |-> w.fn, sn |-> w.sn]] = [fn |-> f, sn |-> sn]
  /\ f % 2 = 1 /\ f <= sn /\ sn * Power[j] < n /\ n <= (sn + 1) * Power[j]
  /\ Node(n, f, j) = Node(n, w.fn, i)

LEMMA ClimbFrom ==
  ASSUME NEW n \in 1..MaxSize, NEW w, NEW i \in 0..MaxSize, At(w, n, i),
         w.sn # 0, w.fn % 2 = 1 \/ w.fn = w.sn
  PROVE  \E f, sn, j : Climbed(n, w, i, f, sn, j)
<1>1. /\ i \in 0..MaxSize /\ w.fn \in Nat /\ w.sn \in Nat /\ w.fn <= MaxSize /\ w.sn <= MaxSize
      /\ w.fn <= w.sn /\ n \in Nat /\ n <= MaxSize /\ MaxSize \in Nat /\ w.sn \in 1..MaxSize
      /\ w.sn * Power[i] < n /\ n <= (w.sn + 1) * Power[i]
  BY SizeAssumption DEF At
<1>2. CASE w.fn % 2 = 1
  <2> DEFINE at == [fn |-> w.fn, sn |-> w.sn]
  <2>1. w.fn \in 1..MaxSize /\ at \in Levels /\ at.fn % 2 # 0
    BY <1>1, <1>2 DEF Levels
  <2>2. Climb[at] = at
    <3> HIDE DEF at
    <3> QED
      BY <2>1, ClimbStep
  <2>3. Climbed(n, w, i, w.fn, w.sn, i)
    BY <1>1, <1>2, <2>1, <2>2 DEF Climbed
  <2> QED
    BY <2>3
<1>3. CASE w.fn = w.sn
  <2>1. PICK f, j : CarriedTo(n, w.sn, i, f, j)
    BY <1>1, ClimbUp DEF AtEnd
  <2>2. /\ f \in Nat /\ j \in 0..MaxSize /\ Power[j] \in Nat /\ Power[i] \in Nat
        /\ f * Power[j] = w.sn * Power[i] /\ n <= (f + 1) * Power[j]
    BY <1>1, <2>1, PowerType DEF CarriedTo
  <2>3. (f + 1) * Power[j] \in Nat /\ (w.sn + 1) * Power[i] \in Nat
    <3>1. f * Power[j] \in Nat /\ (f + 1) * Power[j] = f * Power[j] + Power[j]
      BY <2>2, Products
    <3>2. w.sn * Power[i] \in Nat /\ (w.sn + 1) * Power[i] = w.sn * Power[i] + Power[i]
      BY <1>1, <2>2, Products
    <3> QED
      BY <2>2, <3>1, <3>2
  <2>4. /\ (IF (f + 1) * Power[j] <= n THEN (f + 1) * Power[j] ELSE n) = n
        /\ (IF (w.sn + 1) * Power[i] <= n THEN (w.sn + 1) * Power[i] ELSE n) = n
    BY <1>1, <2>2, <2>3
  <2>5. Node(n, f, j) = Node(n, w.fn, i)
    BY <1>3, <2>2, <2>4 DEF Node
  <2>6. Climbed(n, w, i, f, f, j)
    BY <1>1, <1>3, <2>1, <2>5 DEF Climbed, CarriedTo
  <2> QED
    BY <2>6
<1> QED
  BY <1>2, <1>3

\* A step from there leads to the node above, whose right half it is.
LEMMA StepFromRight ==
  ASSUME NEW n \in 1..MaxSize, NEW w, NEW p, NEW i \in 0..MaxSize, At(w, n, i),
         w.sn # 0, w.fn % 2 = 1 \/ w.fn = w.sn
  PROVE  \E j \in 0..MaxSize :
           LET v == WalkStep(w, p)
               above == Node(n, v.fn, j + 1)
           IN  /\ At(v, n, j + 1) /\ v.excess = w.excess
               /\ v.r = ComputeNodeHash(p, w.r)
               /\ above \in Within(n) /\ above[2] - above[1] > 1
               /\ RightOf(above) = Node(n, w.fn, i)
               /\ Node(n, w.fn, i)[1] = (2 * v.fn + 1) * Power[j]
<1>0. PICK f, sn, j : Climbed(n, w, i, f, sn, j)
  BY ClimbFrom
<1>1. /\ j \in 0..MaxSize /\ f \in 1..MaxSize /\ sn \in 1..MaxSize
      /\ Climb[[fn |-> w.fn, sn |-> w.sn]] = [fn |-> f, sn |-> sn]
      /\ f % 2 = 1 /\ f <= sn /\ sn * Power[j] < n /\ n <= (sn + 1) * Power[j]
      /\ Node(n, f, j) = Node(n, w.fn, i)
  BY <1>0 DEF Climbed
<1> DEFINE v == WalkStep(w, p)
           q == f \div 2
           W == Power[j]
<1>2. /\ n \in Nat /\ n <= MaxSize /\ MaxSize \in Nat /\ f \in Nat /\ sn \in Nat
      /\ sn <= MaxSize /\ f <= MaxSize
  BY <1>1, SizeAssumption
<1>3. q \in Nat /\ f = 2 * q + 1 /\ q <= MaxSize
  BY <1>1, <1>2
<1>4. W \in Nat
  BY <1>1, PowerType
<1>5. (2 * q + 1) * Power[j] < n
  <2>1. f * W <= sn * W /\ f * W \in Nat /\ sn * W \in Nat
    BY <1>1, <1>2, <1>4, ProductsInOrder
  <2> QED
    BY <1>1, <1>2, <1>3, <2>1
<1>6. /\ j + 1 \in 0..MaxSize /\ Power[j + 1] = 2 * W
      /\ Node(n, q, j + 1) \in Within(n) /\ Node(n, q, j + 1)[2] - Node(n, q, j + 1)[1] > 1
      /\ RightOf(Node(n, q, j + 1)) = Node(n, 2 * q + 1, j)
  BY <1>1, <1>2, <1>3, <1>5, NodeSplits
<1>7. v = [fn |-> q, sn |-> sn \div 2, excess |-> w.excess, r |-> ComputeNodeHash(p, w.r)]
  <2> DEFINE at == Climb[[fn |-> w.fn, sn |-> w.sn]]
  <2>1. at.fn = f /\ at.sn = sn
    BY <1>1
  <2> HIDE DEF at
  <2>2. v = [w EXCEPT !.fn = at.fn \div 2, !.sn = at.sn \div 2, !.r = ComputeNodeHash(p, w.r)]
    BY DEF WalkStep, at
  <2> QED
    BY <2>1, <2>2 DEF At
<1>8. /\ sn \div 2 \in Nat /\ sn \div 2 <= MaxSize /\ q <= sn \div 2
      /\ (sn \div 2) * (2 * W) < n /\ n <= (sn \div 2 + 1) * (2 * W)
  <2>1. sn \div 2 \in Nat /\ sn \div 2 <= MaxSize /\ q <= sn \div 2
    BY <1>1, <1>2
  <2> QED
    BY <1>1, <1>2, <1>4, <2>1, LastOfNext
<1>9. Node(n, w.fn, i)[1] = (2 * q + 1) * Power[j]
  BY <1>1, <1>3 DEF Node
<1> HIDE DEF v, q
<1>10. v.fn = q /\ v.sn = sn \div 2 /\ v.excess = w.excess /\ v.r = ComputeNodeHash(p, w.r)
       /\ v = [fn |-> v.fn, sn |-> v.sn, excess |-> v.excess, r |-> v.r]
  BY <1>7
<1>11. At(v, n, j + 1)
  <2>1. v.fn \in 0..MaxSize /\ v.sn \in 0..MaxSize /\ v.fn <= v.sn
    BY <1>2, <1>3, <1>8, <1>10
  <2>2. v.sn * Power[j + 1] < n /\ n <= (v.sn + 1) * Power[j + 1]
    BY <1>6, <1>8, <1>10
  <2> QED
    BY <1>6, <1>10, <2>1, <2>2 DEF At
<1> QED
  BY <1>1, <1>3, <1>6, <1>9, <1>10, <1>11 DEF v

LEMMA HashOfSpan ==
  ASSUME NEW t, Len(t) \in 0..MaxSize, NEW span \in Within(Len(t))
  PROVE  /\ span[2] - span[1] <= 1 => TreeHash(t)[span] = ComputeLeafHash(t[span[2]])
         /\ span[2] - span[1] > 1 =>
              TreeHash(t)[span]
                = ComputeNodeHash(TreeHash(t)[LeftOf(span)], TreeHash(t)[RightOf(span)])
<1> DEFINE H == TreeHash(t)
<1>1. H = HashAfter(t, H)
  BY TreeHashIsDefined
<1> HIDE DEF H
<1>2. span \in Spans(t) /\ span[2] - span[1] \in Int
  BY SizeAssumption DEF Spans, Within
<1>3. H[span] = HashAfter(t, H)[span]
  BY <1>1
<1>4. H[span] = IF span[2] - span[1] <= 1 THEN ComputeLeafHash(t[span[2]])
                ELSE ComputeNodeHash(H[LeftOf(span)], H[RightOf(span)])
  BY <1>2, <1>3 DEF HashAfter
<1> QED
  BY <1>2, <1>4 DEF H

LEMMA HashesApart ==
  /\ \A a, b : ComputeLeafHash(a) = ComputeLeafHash(b) => a = b
  /\ \A a, b, c, d : ComputeNodeHash(a, b) = ComputeNodeHash(c, d) => a = c /\ b = d
  /\ \A a : ComputeLeafHash(a) # NoRoot
  /\ \A a, b : ComputeNodeHash(a, b) # NoRoot
  BY DEF ComputeLeafHash, ComputeNodeHash, NoRoot

LEMMA RootIsOne ==
  ASSUME NEW t, Len(t) \in 1..MaxSize
  PROVE  Root(t) # NoRoot
<1>1. /\ Whole(t) \in Within(Len(t))
      /\ Whole(t)[2] - Whole(t)[1] <= 1 \/ Whole(t)[2] - Whole(t)[1] > 1
  BY SizeAssumption DEF Whole, Within
<1> QED
  BY <1>1, HashOfSpan, HashesApart, SizeAssumption DEF Root

\* Where a walk starts, and where it ends.
LEMMA AtLeaf ==
  ASSUME NEW n \in 1..MaxSize, NEW index \in 0..(n - 1), NEW event
  PROVE  At(WalkStart(event, index, n), n, 0) /\ Node(n, index, 0) = <<index, index + 1>>
<1>1. n \in Nat /\ index \in Nat /\ MaxSize \in Nat /\ n <= MaxSize /\ index + 1 <= n
  BY SizeAssumption
<1>2. /\ index * 1 = index /\ (index + 1) * 1 = index + 1
      /\ (n - 1) * 1 = n - 1 /\ (n - 1 + 1) * 1 = n
  BY <1>1
<1>3. Power[0] = 1
  BY PowerValues
<1> QED
  BY <1>1, <1>2, <1>3 DEF At, WalkStart, Node

LEMMA AtRoot ==
  ASSUME NEW n \in 1..MaxSize, NEW w, NEW i \in 0..MaxSize, At(w, n, i), w.sn = 0
  PROVE  Node(n, w.fn, i) = <<0, n>>
<1>1. /\ w.fn = 0 /\ i \in 0..MaxSize /\ n <= (0 + 1) * Power[i]
      /\ n \in Nat
  BY SizeAssumption DEF At
<1>2. Power[i] \in Nat
  BY <1>1, PowerType
<1>3. 0 * Power[i] = 0 /\ (0 + 1) * Power[i] = Power[i]
  BY <1>2
<1>4. (IF (0 + 1) * Power[i] <= n THEN (0 + 1) * Power[i] ELSE n) = n
  BY <1>1, <1>2, <1>3
<1> QED
  BY <1>1, <1>3, <1>4 DEF Node

\* A step that would go beyond the root stays there.
LEMMA StepBeyond ==
  ASSUME NEW n, NEW w, NEW p, NEW i \in 0..MaxSize, At(w, n, i), w.sn = 0
  PROVE  At(WalkStep(w, p), n, i) /\ WalkStep(w, p).r = w.r /\ WalkStep(w, p).fn = w.fn
<1>1. WalkStep(w, p) = [fn |-> w.fn, sn |-> w.sn, excess |-> TRUE, r |-> w.r]
  BY DEF WalkStep, At
<1> QED
  BY <1>1 DEF At

\* If a step leads to the hash of a node of the tree, it came from one.
LEMMA StepCameFromNode ==
  ASSUME NEW t, Len(t) \in 1..MaxSize, NEW w, NEW p, NEW i \in 0..MaxSize, At(w, Len(t), i)
  PROVE  \E j : LET v == WalkStep(w, p)
                IN  /\ At(v, Len(t), j)
                    /\ v.r = TreeHash(t)[Node(Len(t), v.fn, j)] =>
                         w.r = TreeHash(t)[Node(Len(t), w.fn, i)]
<1> DEFINE n == Len(t)
           v == WalkStep(w, p)
           H == TreeHash(t)
<1>1. n \in 1..MaxSize /\ n \in 0..MaxSize
  BY SizeAssumption
<1>2. \A s \in Within(n) : s[2] - s[1] > 1 =>
        H[s] = ComputeNodeHash(H[LeftOf(s)], H[RightOf(s)])
  BY <1>1, HashOfSpan
<1> HIDE DEF n, v, H
<1>3. At(w, n, i)
  BY DEF n
<1>4. CASE w.sn = 0
  <2>1. At(v, n, i) /\ v.r = w.r /\ v.fn = w.fn
    BY <1>3, <1>4, StepBeyond DEF v
  <2> QED
    BY <2>1 DEF n, v, H
<1>5. CASE w.sn # 0 /\ w.fn % 2 = 0 /\ w.fn # w.sn
  <2> DEFINE above == Node(n, v.fn, i + 1)
  <2>1. /\ At(v, n, i + 1) /\ v.r = ComputeNodeHash(w.r, p)
        /\ above \in Within(n) /\ above[2] - above[1] > 1
        /\ LeftOf(above) = Node(n, w.fn, i)
    BY <1>1, <1>3, <1>5, StepFromLeft DEF v
  <2> HIDE DEF above
  <2>2. H[above] = ComputeNodeHash(H[Node(n, w.fn, i)], H[RightOf(above)])
    BY <1>2, <2>1
  <2>3. v.r = H[above] => w.r = H[Node(n, w.fn, i)]
    BY <2>1, <2>2 DEF ComputeNodeHash
  <2> QED
    BY <2>1, <2>3 DEF n, v, H, above
<1>6. CASE w.sn # 0 /\ (w.fn % 2 = 1 \/ w.fn = w.sn)
  <2>1. PICK j \in 0..MaxSize :
          LET above == Node(n, v.fn, j + 1)
          IN  /\ At(v, n, j + 1) /\ v.r = ComputeNodeHash(p, w.r)
              /\ above \in Within(n) /\ above[2] - above[1] > 1
              /\ RightOf(above) = Node(n, w.fn, i)
    BY <1>1, <1>3, <1>6, StepFromRight DEF v
  <2> DEFINE above == Node(n, v.fn, j + 1)
  <2>2. /\ At(v, n, j + 1) /\ v.r = ComputeNodeHash(p, w.r)
        /\ above \in Within(n) /\ above[2] - above[1] > 1
        /\ RightOf(above) = Node(n, w.fn, i)
    BY <2>1
  <2> HIDE DEF above
  <2>3. H[above] = ComputeNodeHash(H[LeftOf(above)], H[Node(n, w.fn, i)])
    BY <1>2, <2>2
  <2>4. v.r = H[above] => w.r = H[Node(n, w.fn, i)]
    BY <2>2, <2>3 DEF ComputeNodeHash
  <2> QED
    BY <2>2, <2>4 DEF n, v, H, above
<1>7. w.fn % 2 = 0 \/ w.fn % 2 = 1
  BY <1>3, SizeAssumption DEF At
<1> QED
  BY <1>4, <1>5, <1>6, <1>7

\* merkle.go:34-79: a path that leads from an event and an index to the root of a
\* tree shows that the event has that index in the tree, whatever the path.
THEOREM WalkIsSound ==
  ASSUME NEW t, Len(t) \in 1..MaxSize, NEW event, NEW index \in 0..(Len(t) - 1),
         NEW path, Len(path) \in Nat,
         WalkInclusionPath(event, index, Len(t), path) = Root(t)
  PROVE  event = t[index + 1]
<1> DEFINE n == Len(t)
           m == Len(path)
           H == TreeHash(t)
           W == Walk(event, index, n, path)
           FromLeaf(k) == \E i \in 0..MaxSize :
                            /\ At(W[k], n, i)
                            /\ W[k].r = H[Node(n, W[k].fn, i)] => event = t[index + 1]
           Bad == {k \in 0..m : ~FromLeaf(k)}
<1>1. /\ n \in 1..MaxSize /\ n \in 0..MaxSize /\ n \in Nat /\ m \in Nat
      /\ index \in Nat /\ index < n
  BY SizeAssumption
<1>2. W[0] = WalkStart(event, index, n) /\ \A k \in 1..m : W[k] = WalkStep(W[k - 1], path[k])
  BY WalkSteps
<1>3. \A w, p : \A i \in 0..MaxSize : At(w, n, i) =>
        \E j : LET v == WalkStep(w, p)
              IN  At(v, n, j) /\ (v.r = H[Node(n, v.fn, j)] => w.r = H[Node(n, w.fn, i)])
  BY <1>1, StepCameFromNode
<1> HIDE DEF W
<1>4. FromLeaf(0)
  <2>1. At(W[0], n, 0) /\ Node(n, index, 0) = <<index, index + 1>>
    BY <1>1, <1>2, AtLeaf
  <2>2. W[0].fn = index /\ W[0].r = ComputeLeafHash(event)
    BY <1>2 DEF WalkStart
  <2>3. <<index, index + 1>> \in Within(n)
    BY <1>1 DEF Within
  <2>4. H[<<index, index + 1>>] = ComputeLeafHash(t[index + 1])
    BY <1>1, <2>3, HashOfSpan
  <2>5. 0 \in 0..MaxSize
    BY SizeAssumption
  <2> QED
    BY <2>1, <2>2, <2>4, <2>5, HashesApart
<1> HIDE DEF n, m, H
<1>5. ASSUME Bad # {} PROVE FALSE
  <2>1. PICK k \in Bad : \A x \in Bad : k <= x
    <3>1. Bad \in SUBSET Nat
      BY <1>1
    <3> HIDE DEF Bad
    <3> QED
      BY <1>5, <3>1, LeastExists
  <2>2. k \in 1..m /\ k - 1 \in 0..m /\ ~FromLeaf(k) /\ ~(k <= k - 1)
    BY <1>1, <1>4, <2>1
  <2>3. k - 1 \notin Bad
    <3> HIDE DEF Bad
    <3> QED
      BY <2>1, <2>2
  <2>4. PICK i \in 0..MaxSize :
          /\ At(W[k - 1], n, i)
          /\ W[k - 1].r = H[Node(n, W[k - 1].fn, i)] => event = t[index + 1]
    BY <2>2, <2>3
  <2>5. W[k] = WalkStep(W[k - 1], path[k])
    BY <1>2, <2>2
  <2>6. PICK j : /\ At(W[k], n, j)
                 /\ W[k].r = H[Node(n, W[k].fn, j)]
                      => W[k - 1].r = H[Node(n, W[k - 1].fn, i)]
    BY <1>3, <2>4, <2>5
  <2>7. j \in 0..MaxSize
    BY <2>6 DEF At
  <2> QED
    BY <2>2, <2>4, <2>6, <2>7
<1>6. PICK i \in 0..MaxSize :
        At(W[m], n, i) /\ (W[m].r = H[Node(n, W[m].fn, i)] => event = t[index + 1])
  BY <1>1, <1>5
<1>7. W[m].sn = 0 /\ W[m].r = Root(t)
  BY RootIsOne DEF WalkInclusionPath, W, n, m
<1>8. Node(n, W[m].fn, i) = <<0, n>>
  BY <1>1, <1>6, <1>7, AtRoot
<1>9. H[Node(n, W[m].fn, i)] = Root(t)
  BY <1>8 DEF Root, Whole, H, n
<1> QED
  BY <1>6, <1>7, <1>9

LEMMA ProductsCancel ==
  ASSUME NEW a \in Nat, NEW b \in Nat, NEW w \in Nat \ {0}, a * w = b * w
  PROVE  a = b
<1>1. ASSUME NEW x \in Nat, NEW y \in Nat, x < y PROVE x * w # y * w
  <2>1. x + 1 \in Nat /\ x + 1 <= y /\ w \in Nat
    BY <1>1
  <2>2. (x + 1) * w <= y * w /\ y * w \in Nat
    BY <2>1, ProductsInOrder
  <2>3. (x + 1) * w = x * w + w /\ x * w \in Nat
    BY <2>1, Products
  <2> QED
    BY <2>2, <2>3
<1> QED
  BY <1>1

\* An odd number and a power of two are determined by their product.
LEMMA OddTimesPower ==
  ASSUME NEW a \in Nat, NEW b \in Nat, NEW i \in 0..MaxSize, NEW j \in 0..MaxSize,
         (2 * a + 1) * Power[i] = (2 * b + 1) * Power[j]
  PROVE  a = b /\ Power[i] = Power[j]
<1>1. \A k \in 0..MaxSize : Power[k] \in Nat \ {0}
  BY PowerType
<1>2. ASSUME NEW x \in Nat, NEW y \in Nat, NEW k \in 0..MaxSize, NEW l \in 0..MaxSize,
             k < l, (2 * x + 1) * Power[k] = (2 * y + 1) * Power[l]
      PROVE  FALSE
  <2>1. PICK c \in Nat \ {0} : Power[l] = 2 * (c * Power[k])
    BY <1>2, PowerDivides
  <2> DEFINE w == Power[k]
             d == (2 * y + 1) * c
  <2>2. w \in Nat \ {0} /\ 2 * x + 1 \in Nat /\ 2 * y + 1 \in Nat /\ c \in Nat
    BY <1>1
  <2> HIDE DEF w
  <2>3. d \in Nat /\ (2 * y + 1) * (2 * (c * w)) = (2 * d) * w
    BY <2>2
  <2>4. (2 * x + 1) * w = (2 * d) * w
    BY <1>2, <2>1, <2>3 DEF w
  <2> HIDE DEF d
  <2>5. 2 * d \in Nat
    BY <2>3
  <2>6. 2 * x + 1 = 2 * d
    BY <2>2, <2>4, <2>5, ProductsCancel
  <2> QED
    BY <2>3, <2>6
<1>3. i = j
  BY <1>2
<1>4. 2 * a + 1 \in Nat /\ 2 * b + 1 \in Nat /\ (2 * a + 1) * Power[i] = (2 * b + 1) * Power[i]
  BY <1>3
<1>5. 2 * a + 1 = 2 * b + 1
  BY <1>1, <1>4, ProductsCancel
<1> QED
  BY <1>3, <1>5

LEMMA PathOfSpan ==
  ASSUME NEW t, Len(t) \in 0..MaxSize, NEW index, NEW span \in Within(Len(t))
  PROVE  LET P == PathsFrom(t, index)
         IN  /\ span[2] - span[1] <= 1 => P[span] = <<>>
             /\ span[2] - span[1] > 1 /\ index < Middle(span) =>
                  P[span] = Append(P[LeftOf(span)], TreeHash(t)[RightOf(span)])
             /\ span[2] - span[1] > 1 /\ ~(index < Middle(span)) =>
                  P[span] = Append(P[RightOf(span)], TreeHash(t)[LeftOf(span)])
<1> DEFINE P == PathsFrom(t, index)
<1>1. P = PathsAfter(t, index, P)
  BY PathsIsDefined
<1> HIDE DEF P
<1>2. span \in Spans(t) /\ span[2] - span[1] \in Int
  BY SizeAssumption DEF Spans, Within
<1>3. P[span] = PathsAfter(t, index, P)[span]
  BY <1>1
<1>4. P[span] = IF span[2] - span[1] <= 1 THEN <<>>
                ELSE IF index < Middle(span)
                THEN Append(P[LeftOf(span)], TreeHash(t)[RightOf(span)])
                ELSE Append(P[RightOf(span)], TreeHash(t)[LeftOf(span)])
  BY <1>2, <1>3 DEF PathsAfter
<1> QED
  BY <1>2, <1>4 DEF P

\* A path is a sequence of hashes of the tree.
LEMMA PathType ==
  ASSUME NEW t, Len(t) \in 0..MaxSize, NEW index, NEW span \in Within(Len(t))
  PROVE  PathsFrom(t, index)[span] \in Seq({TreeHash(t)[s] : s \in Within(Len(t))})
<1> DEFINE n == Len(t)
           S == Within(n)
           P == PathsFrom(t, index)
           X == {TreeHash(t)[s] : s \in S}
           Size(s) == IF s[2] - s[1] >= 0 THEN s[2] - s[1] ELSE 0
           Bad == {m \in 0..n : \E s \in S : Size(s) = m /\ P[s] \notin Seq(X)}
<1>1. n \in Nat /\ \A s \in S : s[2] - s[1] \in Int /\ Size(s) \in 0..n
  BY SizeAssumption DEF Within
<1>2. /\ \A s \in S : s[2] - s[1] <= 1 => P[s] = <<>>
      /\ \A s \in S : s[2] - s[1] > 1 =>
           \/ P[s] = Append(P[LeftOf(s)], TreeHash(t)[RightOf(s)])
           \/ P[s] = Append(P[RightOf(s)], TreeHash(t)[LeftOf(s)])
  BY PathOfSpan
<1>3. \A s \in S : s[2] - s[1] > 1 =>
        /\ LeftOf(s) \in S /\ LeftOf(s)[2] - LeftOf(s)[1] < s[2] - s[1]
        /\ RightOf(s) \in S /\ RightOf(s)[2] - RightOf(s)[1] < s[2] - s[1]
  BY Halves
<1>4. \A s \in S : TreeHash(t)[s] \in X
  OBVIOUS
<1> HIDE DEF n, S, P, X
<1>0. <<>> \in Seq(X) /\ \A q \in Seq(X), x \in X : Append(q, x) \in Seq(X)
  OBVIOUS
<1>5. ASSUME Bad # {} PROVE FALSE
  <2>1. PICK m \in Bad : \A x \in Bad : m <= x
    <3>1. Bad \in SUBSET Nat
      BY <1>1
    <3> HIDE DEF Bad
    <3> QED
      BY <1>5, <3>1, LeastExists
  <2>2. PICK s \in S : Size(s) = m /\ P[s] \notin Seq(X)
    BY <2>1
  <2>3. s[2] - s[1] > 1
    <3>1. CASE s[2] - s[1] <= 1
      <4>1. P[s] = <<>>
        BY <1>2, <3>1
      <4> QED
        BY <1>0, <2>2, <4>1
    <3> QED
      BY <1>1, <3>1
  <2>4. ASSUME NEW u \in S, u[2] - u[1] < s[2] - s[1] PROVE P[u] \in Seq(X)
    <3>1. Size(u) \in 0..n /\ Size(s) \in 0..n /\ Size(u) < Size(s)
      BY <1>1, <2>3, <2>4
    <3> QED
      BY <2>1, <2>2, <3>1
  <2>5. P[LeftOf(s)] \in Seq(X) /\ P[RightOf(s)] \in Seq(X)
    BY <1>3, <2>3, <2>4
  <2>6. TreeHash(t)[LeftOf(s)] \in X /\ TreeHash(t)[RightOf(s)] \in X
    BY <1>3, <1>4, <2>3
  <2>7. \/ P[s] = Append(P[LeftOf(s)], TreeHash(t)[RightOf(s)])
        \/ P[s] = Append(P[RightOf(s)], TreeHash(t)[LeftOf(s)])
    BY <1>2, <2>3
  <2>8. P[s] \in Seq(X)
    BY <1>0, <2>5, <2>6, <2>7
  <2> QED
    BY <2>2, <2>8
<1> QED
  BY <1>1, <1>5 DEF n, S, P, X

\* A longer path is walked as far as the shorter one, and then one step more.
LEMMA WalkOfLonger ==
  ASSUME NEW event, NEW index, NEW n, NEW X, NEW q \in Seq(X), NEW x \in X
  PROVE  /\ Len(Append(q, x)) = Len(q) + 1
         /\ Walk(event, index, n, Append(q, x))[Len(q) + 1]
              = WalkStep(Walk(event, index, n, q)[Len(q)], x)
<1> DEFINE m == Len(q)
           p == Append(q, x)
           V == Walk(event, index, n, q)
           W == Walk(event, index, n, p)
           Bad == {k \in 0..m : V[k] # W[k]}
<1>1. m \in Nat /\ Len(p) = m + 1 /\ p[m + 1] = x /\ \A k \in 1..m : p[k] = q[k]
  OBVIOUS
<1> HIDE DEF p
<1>2. V[0] = WalkStart(event, index, n) /\ \A k \in 1..m : V[k] = WalkStep(V[k - 1], q[k])
  BY <1>1, WalkSteps
<1>3. /\ W[0] = WalkStart(event, index, n)
      /\ \A k \in 1..(m + 1) : W[k] = WalkStep(W[k - 1], p[k])
  <2>1. Len(p) \in Nat
    BY <1>1
  <2>2. W[0] = WalkStart(event, index, n) /\ \A k \in 1..Len(p) : W[k] = WalkStep(W[k - 1], p[k])
    BY <2>1, WalkSteps
  <2> QED
    BY <1>1, <2>2
<1> HIDE DEF m, V, W
<1>4. ASSUME Bad # {} PROVE FALSE
  <2>1. PICK k \in Bad : \A y \in Bad : k <= y
    <3>1. Bad \in SUBSET Nat
      BY <1>1
    <3> HIDE DEF Bad
    <3> QED
      BY <1>4, <3>1, LeastExists
  <2>2. k \in 0..m /\ V[k] # W[k] /\ k # 0
    BY <1>2, <1>3, <2>1
  <2>3. k \in 1..m /\ k \in 1..(m + 1) /\ k - 1 \in 0..m /\ ~(k <= k - 1)
    BY <1>1, <2>2
  <2>4. V[k - 1] = W[k - 1]
    BY <2>1, <2>3
  <2> QED
    BY <1>1, <1>2, <1>3, <2>2, <2>3, <2>4
<1>5. V[m] = W[m]
  BY <1>1, <1>4
<1>6. m + 1 \in 1..(m + 1) /\ (m + 1) - 1 = m
  BY <1>1
<1>7. W[m + 1] = WalkStep(W[m], p[m + 1])
  BY <1>3, <1>6
<1> QED
  BY <1>1, <1>5, <1>7 DEF m, p, V, W

\* The span of a node, at place j of its level.
Placed(n, s, j, i) ==
  j \in Nat /\ i \in 0..MaxSize /\ s = Node(n, j, i) /\ j * Power[i] < n

\* A node of more than one event has halves one level below its own.
LEMMA HalvesOfNode ==
  ASSUME NEW n \in 1..MaxSize, NEW s, NEW j, NEW i, Placed(n, s, j, i), s[2] - s[1] > 1
  PROVE  \E q \in Nat, d \in 0..MaxSize :
           s = Node(n, q, d + 1) /\ (2 * q + 1) * Power[d] < n /\ d + 1 <= i
<1> DEFINE Wide == {k \in 0..MaxSize : \E l \in Nat : Placed(n, s, l, k)}
<1>1. n \in Nat /\ Wide \in SUBSET Nat /\ MaxSize \in Nat
  BY SizeAssumption
<1>2. Wide # {}
  BY DEF Placed
<1>3. PICK k \in Wide : \A l \in Wide : k <= l
  <2> HIDE DEF Wide
  <2> QED
    BY <1>1, <1>2, LeastExists
<1>4. PICK l \in Nat : Placed(n, s, l, k)
  BY <1>3
<1>5. k # 0
  <2>1. ASSUME k = 0 PROVE FALSE
    <3>1. l * 1 = l /\ (l + 1) * 1 = l + 1
      OBVIOUS
    <3>2. s = <<l, l + 1>>
      BY <1>1, <1>4, <2>1, <3>1, PowerValues DEF Placed, Node
    <3> QED
      BY <3>2
  <2> QED
    BY <2>1
<1> DEFINE d == k - 1
           a == l * Power[d]
           w == Power[d]
<1>6. d \in 0..MaxSize /\ d + 1 = k /\ d \in Nat /\ k \in 1..MaxSize /\ d < k
  BY <1>1, <1>3, <1>5
<1>7. Power[k] = 2 * w /\ w \in Nat
  BY <1>6, PowerValues, PowerType
<1> HIDE DEF d
<1>8. /\ a \in Nat /\ (2 * l) * w = 2 * a /\ (2 * l + 1) * w = 2 * a + w
      /\ l * (2 * w) = 2 * a /\ (l + 1) * (2 * w) = 2 * a + 2 * w
  BY <1>7, Products
<1> HIDE DEF a, w
<1>9. 2 * a < n /\ s = <<2 * a, IF 2 * a + 2 * w <= n THEN 2 * a + 2 * w ELSE n>>
  BY <1>4, <1>7, <1>8 DEF Placed, Node
<1>10. ASSUME ~((2 * l + 1) * Power[d] < n) PROVE FALSE
  <2>1. n <= 2 * a + w
    BY <1>1, <1>7, <1>8, <1>10 DEF w
  <2>2. s = <<2 * a, n>>
    BY <1>1, <1>7, <1>8, <1>9, <2>1
  <2>3. Node(n, 2 * l, d) = <<2 * a, IF 2 * a + w <= n THEN 2 * a + w ELSE n>>
    BY <1>8 DEF Node, w
  <2>4. s = Node(n, 2 * l, d)
    BY <1>1, <1>7, <1>8, <2>1, <2>2, <2>3
  <2>5. (2 * l) * Power[d] < n /\ 2 * l \in Nat
    BY <1>8, <1>9 DEF w
  <2>6. Placed(n, s, 2 * l, d)
    BY <1>6, <2>4, <2>5 DEF Placed
  <2>7. d \in Wide
    BY <1>6, <2>5, <2>6
  <2> QED
    BY <1>3, <1>6, <2>7
<1>11. k <= i
  <2>1. i \in Wide
    BY DEF Placed
  <2> HIDE DEF Wide
  <2> QED
    BY <1>3, <2>1
<1> QED
  BY <1>4, <1>6, <1>10, <1>11 DEF Placed

\* The halves of a node are nodes, one level below it.
LEMMA HalvesPlaced ==
  ASSUME NEW n \in 1..MaxSize, NEW q \in Nat, NEW d \in 0..MaxSize, NEW s,
         s = Node(n, q, d + 1), (2 * q + 1) * Power[d] < n
  PROVE  Placed(n, LeftOf(s), 2 * q, d) /\ Placed(n, RightOf(s), 2 * q + 1, d)
<1>1. LeftOf(s) = Node(n, 2 * q, d) /\ RightOf(s) = Node(n, 2 * q + 1, d)
  BY NodeSplits
<1>2. 2 * q \in Nat /\ 2 * q + 1 \in Nat /\ Power[d] \in Nat /\ n \in Nat
  BY PowerType
<1>3. (2 * q) * Power[d] \in Nat /\ (2 * q + 1) * Power[d] = (2 * q) * Power[d] + Power[d]
  BY <1>2, Products
<1>4. (2 * q) * Power[d] < n
  BY <1>2, <1>3
<1> QED
  BY <1>1, <1>2, <1>4 DEF Placed

\* The walk has reached a span of the tree and holds its hash.
Holds(t, w, s, i) ==
  /\ i \in 0..MaxSize /\ At(w, Len(t), i) /\ w.excess = FALSE
  /\ w.r = TreeHash(t)[s] /\ Node(Len(t), w.fn, i) = s

\* From the left half of a node, the hash of the right half leads to the node.
LEMMA JoinsRight ==
  ASSUME NEW t, Len(t) \in 1..MaxSize, NEW q \in Nat, NEW d \in 0..MaxSize, NEW s,
         s = Node(Len(t), q, d + 1), (2 * q + 1) * Power[d] < Len(t),
         NEW w, NEW i \in 0..MaxSize, Holds(t, w, LeftOf(s), i)
  PROVE  Holds(t, WalkStep(w, TreeHash(t)[RightOf(s)]), s, i + 1)
<1> DEFINE n == Len(t)
           mid == (2 * q + 1) * Power[d]
           v == WalkStep(w, TreeHash(t)[RightOf(s)])
<1>1. n \in 1..MaxSize /\ n \in 0..MaxSize /\ n \in Nat /\ mid < n
  BY SizeAssumption
<1> HIDE DEF n
<1>2. /\ d + 1 \in 0..MaxSize /\ Power[d + 1] = 2 * Power[d] /\ s \in Within(n)
      /\ s[2] - s[1] > 1 /\ LeftOf(s) = Node(n, 2 * q, d)
  BY <1>1, NodeSplits DEF n
<1>3. At(w, n, i) /\ w.excess = FALSE /\ w.r = TreeHash(t)[LeftOf(s)] /\ Node(n, w.fn, i) = LeftOf(s)
  BY DEF Holds, n
<1>4. w.fn \in Nat /\ w.sn \in Nat /\ w.fn <= w.sn /\ n <= (w.sn + 1) * Power[i]
  BY <1>3, SizeAssumption DEF At
<1>5. Power[i] \in Nat /\ Power[d] \in Nat \ {0}
  BY PowerType
<1> DEFINE x == Power[i]
           y == Power[d]
<1>6. /\ w.fn * x \in Nat /\ (w.fn + 1) * x = w.fn * x + x
      /\ (2 * q) * y \in Nat /\ (2 * q + 1) * y = (2 * q) * y + y
  <2>1. 2 * q \in Nat /\ y \in Nat
    BY <1>5
  <2> HIDE DEF x, y
  <2>2. (2 * q) * y \in Nat /\ (2 * q + 1) * y = (2 * q) * y + y
    BY <2>1, Products
  <2>3. x \in Nat
    BY <1>5 DEF x
  <2>4. w.fn * x \in Nat /\ (w.fn + 1) * x = w.fn * x + x
    BY <1>4, <2>3, Products
  <2> QED
    BY <2>2, <2>4
<1>7. LeftOf(s) = <<(2 * q) * y, mid>> /\ mid \in Nat
  <2>1. Node(n, 2 * q, d) = <<(2 * q) * y, IF mid <= n THEN mid ELSE n>>
    BY DEF Node
  <2>2. mid \in Nat
    BY <1>5, <1>6
  <2> HIDE DEF mid
  <2> QED
    BY <1>1, <1>2, <2>1, <2>2
<1>8. LeftOf(s) = <<w.fn * x, IF (w.fn + 1) * x <= n THEN (w.fn + 1) * x ELSE n>>
  BY <1>3 DEF Node
<1> HIDE DEF x, y
<1>9. w.fn * x = (2 * q) * y /\ (w.fn + 1) * x = mid
  BY <1>1, <1>7, <1>8
<1>10. x = y
  BY <1>5, <1>6, <1>9 DEF x, y
<1>11. w.fn = 2 * q
  <2>1. y \in Nat \ {0} /\ 2 * q \in Nat /\ w.fn * y = (2 * q) * y
    BY <1>5, <1>9, <1>10 DEF y
  <2> QED
    BY <1>4, <2>1, ProductsCancel
<1>12. w.fn # w.sn
  <2>1. n <= (w.sn + 1) * x
    BY <1>4 DEF x
  <2> HIDE DEF mid
  <2> QED
    BY <1>1, <1>7, <1>9, <2>1
<1>13. w.sn # 0 /\ w.fn % 2 = 0
  BY <1>4, <1>11, <1>12
<1> DEFINE above == Node(n, v.fn, i + 1)
<1>14. /\ At(v, n, i + 1) /\ v.excess = w.excess
       /\ v.r = ComputeNodeHash(w.r, TreeHash(t)[RightOf(s)]) /\ w.fn = 2 * v.fn
  BY <1>1, <1>3, <1>12, <1>13, StepFromLeft
<1> HIDE DEF v
<1>15. v.fn = q /\ i + 1 \in 1..MaxSize
  BY <1>11, <1>14, SizeAssumption DEF At
<1>16. Power[i + 1] = Power[d + 1]
  <2>1. Power[i + 1] = 2 * Power[(i + 1) - 1] /\ (i + 1) - 1 = i
    BY <1>15, PowerValues
  <2> QED
    BY <1>2, <1>10, <2>1 DEF x, y
<1>17. Node(n, v.fn, i + 1) = s
  <2>1. s = Node(n, q, d + 1)
    BY DEF n
  <2> QED
    BY <1>15, <1>16, <2>1 DEF Node
<1>18. v.r = TreeHash(t)[s]
  BY <1>1, <1>2, <1>3, <1>14, HashOfSpan DEF n
<1>19. i + 1 \in 0..MaxSize
  BY <1>15, SizeAssumption
<1> QED
  BY <1>3, <1>14, <1>17, <1>18, <1>19 DEF Holds, v, n

\* From the right half of a node, the hash of the left half leads to the node.
LEMMA JoinsLeft ==
  ASSUME NEW t, Len(t) \in 1..MaxSize, NEW q \in Nat, NEW d \in 0..MaxSize, NEW s,
         s = Node(Len(t), q, d + 1), (2 * q + 1) * Power[d] < Len(t),
         NEW w, NEW i \in 0..MaxSize, Holds(t, w, RightOf(s), i)
  PROVE  \E j \in 0..MaxSize : Holds(t, WalkStep(w, TreeHash(t)[LeftOf(s)]), s, j)
<1> DEFINE n == Len(t)
           mid == (2 * q + 1) * Power[d]
           x == Power[i]
           y == Power[d]
           v == WalkStep(w, TreeHash(t)[LeftOf(s)])
<1>1. n \in 1..MaxSize /\ n \in 0..MaxSize /\ n \in Nat /\ mid < n
  BY SizeAssumption
<1> HIDE DEF n
<1>2. /\ d + 1 \in 0..MaxSize /\ Power[d + 1] = 2 * Power[d] /\ s \in Within(n)
      /\ s[2] - s[1] > 1 /\ RightOf(s) = Node(n, 2 * q + 1, d)
  BY <1>1, NodeSplits DEF n
<1>3. At(w, n, i) /\ w.excess = FALSE /\ w.r = TreeHash(t)[RightOf(s)] /\ Node(n, w.fn, i) = RightOf(s)
  BY DEF Holds, n
<1>4. w.fn \in Nat /\ w.sn \in Nat /\ w.fn <= w.sn /\ w.sn * x < n
  BY <1>3, SizeAssumption DEF At
<1>5. x \in Nat /\ y \in Nat \ {0}
  BY PowerType
<1> HIDE DEF x, y
<1>6. /\ w.fn * x \in Nat /\ (w.fn + 1) * x = w.fn * x + x
      /\ (2 * q + 1) * y \in Nat /\ (2 * q + 1) * y >= y
      /\ (2 * q + 1 + 1) * y = (2 * q + 1) * y + y
  <2>1. 2 * q + 1 \in Nat /\ 2 * q + 1 >= 1 /\ y \in Nat
    BY <1>5
  <2>2. (2 * q + 1) * y \in Nat /\ (2 * q + 1) * y >= y
        /\ (2 * q + 1 + 1) * y = (2 * q + 1) * y + y
    BY <2>1, Products
  <2>3. w.fn * x \in Nat /\ (w.fn + 1) * x = w.fn * x + x
    BY <1>4, <1>5, Products
  <2> QED
    BY <2>2, <2>3
<1>7. mid = (2 * q + 1) * y /\ mid \in Nat /\ mid # 0
  BY <1>5, <1>6 DEF y
<1>8. RightOf(s) = <<mid, IF mid + y <= n THEN mid + y ELSE n>>
  <2>1. Node(n, 2 * q + 1, d)
          = <<(2 * q + 1) * y, IF (2 * q + 1 + 1) * y <= n THEN (2 * q + 1 + 1) * y ELSE n>>
    BY DEF Node, y
  <2> QED
    BY <1>2, <1>6, <1>7, <2>1
<1>9. RightOf(s) = <<w.fn * x, IF (w.fn + 1) * x <= n THEN (w.fn + 1) * x ELSE n>>
  BY <1>3 DEF Node, x
<1> HIDE DEF mid
<1>10. w.fn * x = mid
  BY <1>8, <1>9
<1>11. w.sn # 0
  <2>1. ASSUME w.fn = 0 PROVE FALSE
    BY <1>5, <1>7, <1>10, <2>1
  <2> QED
    BY <1>4, <2>1
<1>12. w.fn % 2 = 1 \/ w.fn = w.sn
  <2>1. ASSUME w.fn % 2 # 1, w.fn # w.sn PROVE FALSE
    <3>1. w.fn + 1 \in Nat /\ w.fn + 1 <= w.sn
      BY <1>4, <2>1
    <3>2. (w.fn + 1) * x \in Nat /\ (w.fn + 1) * x <= w.sn * x /\ w.sn * x \in Nat
      BY <1>4, <1>5, <3>1, ProductsInOrder
    <3>3. (w.fn + 1) * x < n
      BY <1>1, <1>4, <3>2
    <3>4. mid + x = mid + y
      BY <1>1, <1>5, <1>6, <1>7, <1>8, <1>9, <1>10, <3>2, <3>3
    <3>5. w.fn * y = (2 * q + 1) * y /\ 2 * q + 1 \in Nat
      BY <1>5, <1>7, <1>10, <3>4
    <3>6. w.fn = 2 * q + 1
      BY <1>4, <1>5, <3>5, ProductsCancel
    <3> QED
      BY <2>1, <3>6
  <2> QED
    BY <2>1
<1>13. PICK j \in 0..MaxSize :
         /\ At(v, n, j + 1) /\ v.excess = w.excess
         /\ v.r = ComputeNodeHash(TreeHash(t)[LeftOf(s)], w.r)
         /\ Node(n, w.fn, i)[1] = (2 * v.fn + 1) * Power[j]
  BY <1>1, <1>3, <1>11, <1>12, StepFromRight
<1> HIDE DEF v
<1>14. v.fn \in Nat /\ j + 1 \in 1..MaxSize /\ j + 1 \in 0..MaxSize
  BY <1>13, SizeAssumption DEF At
<1>15. (2 * v.fn + 1) * Power[j] = (2 * q + 1) * Power[d]
  BY <1>3, <1>7, <1>8, <1>13 DEF y
<1>16. v.fn = q /\ Power[j] = Power[d]
  BY <1>14, <1>15, OddTimesPower
<1>17. Power[j + 1] = Power[d + 1]
  <2>1. Power[j + 1] = 2 * Power[(j + 1) - 1] /\ (j + 1) - 1 = j
    BY <1>14, PowerValues
  <2> QED
    BY <1>2, <1>16, <2>1
<1>18. Node(n, v.fn, j + 1) = s
  <2>1. s = Node(n, q, d + 1)
    BY DEF n
  <2> QED
    BY <1>16, <1>17, <2>1 DEF Node
<1>19. v.r = TreeHash(t)[s]
  BY <1>1, <1>2, <1>3, <1>13, HashOfSpan DEF n
<1>20. Holds(t, v, s, j + 1)
  BY <1>3, <1>13, <1>14, <1>18, <1>19 DEF Holds, n
<1> QED
  BY <1>14, <1>20 DEF v

\* The path of an event in a span leads to the hash of the span.
Reached(t, index, s) ==
  LET path == PathsFrom(t, index)[s]
  IN  \E i \in 0..MaxSize : Holds(t, Walk(t[index + 1], index, Len(t), path)[Len(path)], s, i)

IsNode(n, s) == \E j, i : Placed(n, s, j, i)

LEMMA LeafReached ==
  ASSUME NEW t, Len(t) \in 1..MaxSize, NEW index \in 0..(Len(t) - 1), NEW s \in Within(Len(t)),
         s[1] <= index, index < s[2], s[2] - s[1] <= 1
  PROVE  Reached(t, index, s)
<1> DEFINE n == Len(t)
           path == PathsFrom(t, index)[s]
           w == WalkStart(t[index + 1], index, n)
<1>1. n \in 1..MaxSize /\ n \in 0..MaxSize /\ n \in Nat /\ 0 \in 0..MaxSize
  BY SizeAssumption
<1>2. s = <<index, index + 1>>
  BY <1>1 DEF Within
<1>3. path = <<>>
  BY <1>1, PathOfSpan
<1>4. Len(path) = 0
  BY <1>3
<1> HIDE DEF path
<1>5. Walk(t[index + 1], index, n, path)[Len(path)] = w
  BY <1>4, WalkSteps
<1>6. At(w, n, 0) /\ Node(n, index, 0) = s
  BY <1>1, <1>2, AtLeaf
<1>7. TreeHash(t)[s] = ComputeLeafHash(t[index + 1])
  BY <1>1, <1>2, HashOfSpan
<1>8. w.fn = index /\ w.excess = FALSE /\ w.r = ComputeLeafHash(t[index + 1])
  BY DEF WalkStart
<1> HIDE DEF w
<1>9. Holds(t, w, s, 0)
  BY <1>1, <1>6, <1>7, <1>8 DEF Holds
<1> QED
  BY <1>1, <1>5, <1>9 DEF Reached, path

\* The path p has the element x after those of q, of a set X.
Longer(X, q, x, p) == q \in Seq(X) /\ x \in X /\ p = Append(q, x)
End(event, index, n, p) == Walk(event, index, n, p)[Len(p)]

\* The walk along a path that one element was added to.
LEMMA WalkOfLast ==
  ASSUME NEW X, NEW q, NEW x, NEW p, Longer(X, q, x, p), NEW event, NEW index, NEW n
  PROVE  End(event, index, n, p) = WalkStep(End(event, index, n, q), x)
<1>1. q \in Seq(X) /\ x \in X /\ p = Append(q, x)
  BY DEF Longer
<1>2. /\ Len(Append(q, x)) = Len(q) + 1
      /\ Walk(event, index, n, Append(q, x))[Len(q) + 1]
           = WalkStep(Walk(event, index, n, q)[Len(q)], x)
  BY <1>1, WalkOfLonger
<1> QED
  BY <1>1, <1>2 DEF End

\* A span is reached from the half the event is in.
LEMMA SpanReached ==
  ASSUME NEW t, Len(t) \in 1..MaxSize, NEW index \in 0..(Len(t) - 1),
         NEW q \in Nat, NEW d \in 0..MaxSize, NEW s,
         s = Node(Len(t), q, d + 1), (2 * q + 1) * Power[d] < Len(t)
  PROVE  /\ index < Middle(s) /\ Reached(t, index, LeftOf(s)) => Reached(t, index, s)
         /\ ~(index < Middle(s)) /\ Reached(t, index, RightOf(s)) => Reached(t, index, s)
<1> DEFINE n == Len(t)
           H == TreeHash(t)
           X == {H[u] : u \in Within(n)}
           P == PathsFrom(t, index)
           W(path) == Walk(t[index + 1], index, n, path)
<1>1. n \in 1..MaxSize /\ n \in 0..MaxSize
  BY SizeAssumption
<1>2. /\ s \in Within(n) /\ s[2] - s[1] > 1
      /\ LeftOf(s) \in Within(n) /\ RightOf(s) \in Within(n)
  BY <1>1, NodeSplits
<1>3. /\ P[LeftOf(s)] \in Seq(X) /\ P[RightOf(s)] \in Seq(X)
      /\ H[LeftOf(s)] \in X /\ H[RightOf(s)] \in X
  BY <1>1, <1>2, PathType
<1>4. /\ index < Middle(s) => P[s] = Append(P[LeftOf(s)], H[RightOf(s)])
      /\ ~(index < Middle(s)) => P[s] = Append(P[RightOf(s)], H[LeftOf(s)])
  BY <1>1, <1>2, PathOfSpan
<1>5. ASSUME index < Middle(s), Reached(t, index, LeftOf(s)) PROVE Reached(t, index, s)
  <2> DEFINE w == W(P[LeftOf(s)])[Len(P[LeftOf(s)])]
  <2>1. PICK i \in 0..MaxSize : Holds(t, w, LeftOf(s), i)
    BY <1>5 DEF Reached
  <2>2. W(P[s])[Len(P[s])] = WalkStep(w, H[RightOf(s)])
    <3>1. Longer(X, P[LeftOf(s)], H[RightOf(s)], P[s])
      BY <1>3, <1>4, <1>5 DEF Longer
    <3>2. End(t[index + 1], index, n, P[s])
            = WalkStep(End(t[index + 1], index, n, P[LeftOf(s)]), H[RightOf(s)])
      BY <3>1, WalkOfLast
    <3> QED
      BY <3>2 DEF End
  <2> HIDE DEF w
  <2>3. Holds(t, WalkStep(w, H[RightOf(s)]), s, i + 1)
    BY <2>1, JoinsRight
  <2>4. i + 1 \in 0..MaxSize
    BY <2>3 DEF Holds
  <2> QED
    BY <2>2, <2>3, <2>4 DEF Reached
<1>6. ASSUME ~(index < Middle(s)), Reached(t, index, RightOf(s)) PROVE Reached(t, index, s)
  <2> DEFINE w == W(P[RightOf(s)])[Len(P[RightOf(s)])]
  <2>1. PICK i \in 0..MaxSize : Holds(t, w, RightOf(s), i)
    BY <1>6 DEF Reached
  <2>2. W(P[s])[Len(P[s])] = WalkStep(w, H[LeftOf(s)])
    <3>1. Longer(X, P[RightOf(s)], H[LeftOf(s)], P[s])
      BY <1>3, <1>4, <1>6 DEF Longer
    <3>2. End(t[index + 1], index, n, P[s])
            = WalkStep(End(t[index + 1], index, n, P[RightOf(s)]), H[LeftOf(s)])
      BY <3>1, WalkOfLast
    <3> QED
      BY <3>2 DEF End
  <2> HIDE DEF w
  <2>3. \E j \in 0..MaxSize : Holds(t, WalkStep(w, H[LeftOf(s)]), s, j)
    BY <2>1, JoinsLeft
  <2> QED
    BY <2>2, <2>3 DEF Reached
<1> QED
  BY <1>5, <1>6

LEMMA NodesReached ==
  ASSUME NEW t, Len(t) \in 1..MaxSize, NEW index \in 0..(Len(t) - 1), NEW s \in Within(Len(t)),
         IsNode(Len(t), s), s[1] <= index, index < s[2]
  PROVE  Reached(t, index, s)
<1> DEFINE n == Len(t)
           Has(u) == u \in Within(n) /\ IsNode(n, u) /\ u[1] <= index /\ index < u[2]
           Bad == {m \in 0..n : \E u : Has(u) /\ u[2] - u[1] = m /\ ~Reached(t, index, u)}
<1>1. n \in 1..MaxSize /\ n \in 0..MaxSize /\ n \in Nat /\ index \in Nat
  BY SizeAssumption
<1>2. \A u \in Within(n) : u[1] \in 0..n /\ u[2] \in 0..n
  BY DEF Within
<1>3. ASSUME Bad # {} PROVE FALSE
  <2>1. PICK m \in Bad : \A x \in Bad : m <= x
    <3>1. Bad \in SUBSET Nat
      BY <1>1
    <3> HIDE DEF Bad
    <3> QED
      BY <1>3, <3>1, LeastExists
  <2>2. PICK u \in Within(n) : Has(u) /\ u[2] - u[1] = m /\ ~Reached(t, index, u)
    BY <2>1
  <2>3. u[2] - u[1] > 1
    <3>1. CASE u[2] - u[1] <= 1
      BY <1>1, <2>2, <3>1, LeafReached
    <3> QED
      BY <1>1, <1>2, <2>2, <3>1
  <2>4. PICK q \in Nat, d \in 0..MaxSize : u = Node(n, q, d + 1) /\ (2 * q + 1) * Power[d] < n
    BY <1>1, <2>2, <2>3, HalvesOfNode DEF IsNode
  <2>5. /\ u \in Within(n) /\ LeftOf(u) \in Within(n) /\ RightOf(u) \in Within(n)
        /\ LeftOf(u) = Node(n, 2 * q, d) /\ RightOf(u) = Node(n, 2 * q + 1, d)
        /\ Middle(u) = (2 * q + 1) * Power[d]
    BY <1>1, <2>4, NodeSplits
  <2>6. IsNode(n, LeftOf(u)) /\ IsNode(n, RightOf(u))
    BY <1>1, <2>4, HalvesPlaced DEF IsNode
  <2>7. /\ LeftOf(u)[1] = u[1] /\ LeftOf(u)[2] = Middle(u)
        /\ RightOf(u)[1] = Middle(u) /\ RightOf(u)[2] = u[2]
    BY DEF LeftOf, RightOf
  <2>8. /\ LeftOf(u)[2] - LeftOf(u)[1] < u[2] - u[1]
        /\ RightOf(u)[2] - RightOf(u)[1] < u[2] - u[1]
    BY <1>1, <2>3, Halves
  <2>9. ASSUME NEW v \in Within(n), Has(v), v[2] - v[1] < u[2] - u[1] PROVE Reached(t, index, v)
    <3>1. v[2] - v[1] \in 0..n /\ ~(m <= v[2] - v[1])
      BY <1>1, <1>2, <2>2, <2>9
    <3> QED
      BY <2>1, <2>9, <3>1
  <2>10. Middle(u) \in Int
    BY <1>2, <2>5, <2>7
  <2>11. CASE index < Middle(u)
    <3>1. Has(LeftOf(u))
      BY <2>2, <2>5, <2>6, <2>7, <2>11
    <3>2. Reached(t, index, LeftOf(u))
      BY <2>5, <2>8, <2>9, <3>1
    <3> QED
      BY <2>2, <2>4, <2>11, <3>2, SpanReached
  <2>12. CASE ~(index < Middle(u))
    <3>1. Has(RightOf(u))
      BY <1>1, <2>2, <2>5, <2>6, <2>7, <2>10, <2>12
    <3>2. Reached(t, index, RightOf(u))
      BY <2>5, <2>8, <2>9, <3>1
    <3> QED
      BY <2>2, <2>4, <2>12, <3>2, SpanReached
  <2> QED
    BY <2>11, <2>12
<1>4. s[2] - s[1] \in 0..n
  BY <1>1, <1>2
<1> QED
  BY <1>3, <1>4

\* The path of an event has at most one element for each level it climbs.
LEMMA PathIsShort ==
  ASSUME NEW t, Len(t) \in 1..MaxSize, NEW index
  PROVE  \A s, j, i : Placed(Len(t), s, j, i) /\ s \in Within(Len(t)) =>
           Len(PathsFrom(t, index)[s]) \in Nat /\ Len(PathsFrom(t, index)[s]) <= i
<1> DEFINE n == Len(t)
           H == TreeHash(t)
           X == {H[u] : u \in Within(n)}
           P == PathsFrom(t, index)
           Long(s, i) == /\ s \in Within(n) /\ (\E j : Placed(n, s, j, i))
                         /\ ~(Len(P[s]) <= i)
           Bad == {i \in 0..MaxSize : \E s : Long(s, i)}
<1>1. n \in 1..MaxSize /\ n \in 0..MaxSize /\ n \in Nat
  BY SizeAssumption
<1>2. \A s \in Within(n) : P[s] \in Seq(X)
  BY <1>1, PathType
<1>3. \A s \in Within(n) : Len(P[s]) \in Nat
  BY <1>2
<1>4. \A s \in Within(n) :
        /\ s[1] \in 0..n /\ s[2] \in 0..n
        /\ s[2] - s[1] <= 1 => P[s] = <<>>
        /\ s[2] - s[1] > 1 => \/ P[s] = Append(P[LeftOf(s)], H[RightOf(s)])
                              \/ P[s] = Append(P[RightOf(s)], H[LeftOf(s)])
  BY <1>1, PathOfSpan DEF Within
<1> HIDE DEF H, P, n
<1>5. ASSUME Bad # {} PROVE FALSE
  <2>1. PICK i \in Bad : \A x \in Bad : i <= x
    <3>1. Bad \in SUBSET Nat
      BY SizeAssumption
    <3> HIDE DEF Bad
    <3> QED
      BY <1>5, <3>1, LeastExists
  <2>2. i \in 0..MaxSize
    BY <2>1
  <2>3. PICK s : Long(s, i)
    BY <2>1
  <2>4. PICK j : Placed(n, s, j, i)
    BY <2>3
  <2>5. s \in Within(n) /\ ~(Len(P[s]) <= i)
    BY <2>3
  <2>6. s[2] - s[1] > 1
    <3>1. CASE s[2] - s[1] <= 1
      <4>1. Len(P[s]) = 0
        BY <1>4, <2>5, <3>1
      <4> QED
        BY <2>2, <2>5, <4>1
    <3> QED
      BY <1>1, <1>4, <2>5, <3>1
  <2>7. PICK q \in Nat, d \in 0..MaxSize :
          s = Node(n, q, d + 1) /\ (2 * q + 1) * Power[d] < n /\ d + 1 <= i
    BY <1>1, <2>4, <2>6, HalvesOfNode
  <2>8. LeftOf(s) \in Within(n) /\ RightOf(s) \in Within(n)
    BY <1>1, <2>7, NodeSplits
  <2>9. Placed(n, LeftOf(s), 2 * q, d) /\ Placed(n, RightOf(s), 2 * q + 1, d)
    BY <1>1, <2>7, HalvesPlaced
  <2>10. d \notin Bad
    <3>1. ~(i <= d)
      BY <2>2, <2>7
    <3> HIDE DEF Bad
    <3> QED
      BY <2>1, <3>1
  <2>11. Len(P[LeftOf(s)]) <= d /\ Len(P[RightOf(s)]) <= d
    BY <2>7, <2>8, <2>9, <2>10
  <2>12. \A p \in Seq(X) : \A x : Len(Append(p, x)) = Len(p) + 1
    OBVIOUS
  <2>13. Len(P[s]) = Len(P[LeftOf(s)]) + 1 \/ Len(P[s]) = Len(P[RightOf(s)]) + 1
    <3> HIDE DEF X
    <3> QED
      BY <1>2, <1>4, <2>5, <2>6, <2>8, <2>12
  <2>14. Len(P[LeftOf(s)]) \in Nat /\ Len(P[RightOf(s)]) \in Nat
    BY <1>3, <2>8
  <2> QED
    BY <2>2, <2>5, <2>7, <2>11, <2>13, <2>14
<1>6. \A s, j, i : Placed(n, s, j, i) => i \in 0..MaxSize
  BY DEF Placed
<1> QED
  BY <1>3, <1>5, <1>6 DEF n, P

\* The whole tree, as a node at any level that is wide enough.
LEMMA WholeIsNode ==
  ASSUME NEW n \in 1..MaxSize, NEW i \in 0..MaxSize, Power[i] >= n
  PROVE  Placed(n, <<0, n>>, 0, i)
<1>1. Power[i] \in Nat /\ n \in Nat /\ n >= 1
  BY PowerType
<1>2. 0 * Power[i] = 0 /\ (0 + 1) * Power[i] = Power[i]
  BY <1>1
<1>3. Node(n, 0, i) = <<0, n>>
  BY <1>1, <1>2 DEF Node
<1> QED
  BY <1>1, <1>2, <1>3 DEF Placed

\* merkle.go:9-11: no path that the log issues is longer than the limit.
THEOREM IssuedPathIsInLimit ==
  ASSUME NEW t, Len(t) \in 1..MaxSize, NEW index
  PROVE  Len(InclusionPath(t, index)) <= MaxHashPathLen
<1> DEFINE n == Len(t)
<1>1. PICK i \in 0..MaxSize : Power[i] >= MaxSize /\ i <= MaxHashPathLen
  BY PathAssumption
<1>2. Power[i] >= n /\ n \in 1..MaxSize
  BY <1>1, PowerType, SizeAssumption
<1>3. Placed(n, Whole(t), 0, i)
  BY <1>2, WholeIsNode DEF Whole
<1>4. Whole(t) \in Within(n)
  BY <1>2 DEF Whole, Within
<1>5. Len(PathsFrom(t, index)[Whole(t)]) \in Nat /\ Len(PathsFrom(t, index)[Whole(t)]) <= i
  BY <1>3, <1>4, PathIsShort
<1> QED
  BY <1>1, <1>5, PathAssumption DEF InclusionPath

\* merkle.go:34-79: the path the log issues for an event leads to the root of the
\* tree, whether the tree is full or not.
THEOREM IssuedPathLeadsToRoot ==
  ASSUME NEW t, Len(t) \in 1..MaxSize, NEW index \in 0..(Len(t) - 1)
  PROVE  WalkInclusionPath(t[index + 1], index, Len(t), InclusionPath(t, index)) = Root(t)
<1> DEFINE n == Len(t)
           path == InclusionPath(t, index)
           w == Walk(t[index + 1], index, n, path)[Len(path)]
           whole == <<0, n>>
<1>1. /\ n \in 1..MaxSize /\ n \in 0..MaxSize /\ n \in Nat /\ n # 0
      /\ index \in Nat /\ index < n /\ ~(index >= n)
  BY SizeAssumption
<1>2. whole \in Within(n) /\ whole[1] <= index /\ index < whole[2]
  BY <1>1 DEF Within
<1>3. IsNode(n, whole)
  <2>1. Power[n] \in Nat /\ Power[n] >= n
    BY <1>1, PowerType
  <2>2. Placed(n, whole, 0, n)
    BY <1>1, <2>1, WholeIsNode
  <2> QED
    BY <2>2 DEF IsNode
<1>4. Reached(t, index, whole)
  BY <1>1, <1>2, <1>3, NodesReached
<1>5. PICK i \in 0..MaxSize : Holds(t, w, whole, i)
  BY <1>4 DEF Reached, InclusionPath, Whole
<1> HIDE DEF w
<1>6. At(w, n, i) /\ w.excess = FALSE /\ w.r = Root(t) /\ Node(n, w.fn, i) = whole
  BY <1>5 DEF Holds, Root, Whole
<1>7. w.sn = 0
  <2>1. /\ w.fn \in Nat /\ w.sn \in Nat /\ i \in 0..MaxSize /\ Power[i] \in Nat
        /\ w.sn * Power[i] < n
    BY <1>6, PowerType, SizeAssumption DEF At
  <2>2. Power[i] \in Nat \ {0}
    BY <2>1, PowerType
  <2> DEFINE x == Power[i]
  <2> HIDE DEF x
  <2>3. w.fn * x = 0 /\ (IF (w.fn + 1) * x <= n THEN (w.fn + 1) * x ELSE n) = n
    BY <1>6 DEF Node, x
  <2>4. w.fn * x >= w.fn /\ (w.fn + 1) * x = w.fn * x + x
    BY <2>1, <2>2, Products DEF x
  <2>5. w.fn = 0
    BY <2>1, <2>3, <2>4
  <2>6. x >= n
    BY <1>1, <2>2, <2>3, <2>4 DEF x
  <2>7. ASSUME w.sn # 0 PROVE FALSE
    <3>1. w.sn * x >= x /\ w.sn * x \in Nat /\ x \in Nat
      BY <2>1, <2>2, <2>7, Products DEF x
    <3> QED
      BY <1>1, <2>1, <2>6, <3>1 DEF x
  <2> QED
    BY <2>7
<1>8. ~(Len(path) > MaxHashPathLen)
  <2>1. Len(path) <= MaxHashPathLen /\ Len(path) \in Nat
    <3>1. Len(PathsFrom(t, index)[whole]) \in Nat
      BY <1>1, <1>2, PathType
    <3> QED
      BY IssuedPathIsInLimit, <3>1 DEF InclusionPath, Whole
  <2> HIDE DEF path
  <2> QED
    BY <2>1, PathAssumption
<1> QED
  BY <1>1, <1>6, <1>7, <1>8 DEF WalkInclusionPath, w
==============================================================================
