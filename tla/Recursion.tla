----------------------------- MODULE Recursion -----------------------------
(***************************************************************************)
(* Induction and recursion for the proofs of the other modules.  The       *)
(* induction theorems of the library take an operator as a parameter; here *)
(* a property is the set of its counterexamples, and what a recursive      *)
(* function does with itself is a function.  Powers of two come last.      *)
(***************************************************************************)
EXTENDS Bits, FiniteSets, FiniteSetTheorems, WellFoundedInduction, TLAPS

\* A set of natural numbers has a least one.
LEMMA SmallestOf ==
  ASSUME NEW T \in SUBSET Nat, T # {}
  PROVE  \E m \in T : \A k \in T : m <= k
<1> DEFINE Below == {0 .. n : n \in T}
           R == StrictSubsetOrdering(Nat)
<1>1. Below \subseteq FiniteSubsetsOf(Nat)
  <2> SUFFICES ASSUME NEW n \in T PROVE 0 .. n \in FiniteSubsetsOf(Nat)
    OBVIOUS
  <2>1. IsFiniteSet(0 .. n)
    BY FS_Interval
  <2> QED
    BY <2>1 DEF FiniteSubsetsOf
<1>2. Below # {}
  OBVIOUS
<1>3. IsWellFoundedOn(R, FiniteSubsetsOf(Nat))
  BY FS_StrictSubsetOrderingWellFounded
<1>4. PICK X \in Below : \A Y \in Below : <<Y, X>> \notin R
  <2> HIDE DEF Below, R
  <2> QED
    BY <1>1, <1>2, <1>3, WFMin
<1>5. PICK m \in T : X = 0 .. m
  BY <1>4
<1>6. ASSUME NEW k \in T, ~(m <= k) PROVE FALSE
  <2>1. 0 .. k \subseteq 0 .. m /\ 0 .. k # 0 .. m
    <3>1. m \in 0 .. m /\ m \notin 0 .. k
      BY <1>6
    <3> QED
      BY <1>6, <3>1
  <2>2. <<0 .. k, X>> \in R
    BY <2>1, <1>5 DEF StrictSubsetOrdering
  <2> QED
    BY <1>4, <2>2
<1> QED
  BY <1>6

\* Of the counterexamples in S, one has the least height.
LEMMA LowestOf ==
  ASSUME NEW S, NEW height \in [S -> Nat], NEW T \in SUBSET S, T # {}
  PROVE  \E x \in T : \A y \in T : height[x] <= height[y]
<1> DEFINE H == {height[x] : x \in T}
<1>1. H \in SUBSET Nat /\ H # {}
  OBVIOUS
<1>2. \E m \in H : \A k \in H : m <= k
  <2> HIDE DEF H
  <2> QED
    BY <1>1, SmallestOf
<1> QED
  BY <1>2

\* step[<<f, x>>] is the value of x for a function f, and depends on f below x
\* only.
DependsBelow(S, V, height, step) ==
  /\ V # {} /\ height \in [S -> Nat] /\ step \in [[S -> V] \X S -> V]
  /\ \A f, g \in [S -> V] : \A x \in S :
       (\A y \in S : height[y] < height[x] => f[y] = g[y]) => step[<<f, x>>] = step[<<g, x>>]

\* f follows step at the heights below n; everywhere.
RecursiveBelow(S, V, height, step, f, n) ==
  /\ f \in [S -> V]
  /\ \A x \in S : height[x] < n => f[x] = step[<<f, x>>]
Recursive(S, V, step, f) ==
  /\ f \in [S -> V]
  /\ \A x \in S : f[x] = step[<<f, x>>]

LEMMA RecursionUnique ==
  ASSUME NEW S, NEW V, NEW height, NEW step, DependsBelow(S, V, height, step),
         NEW n \in Nat, NEW f, NEW g, RecursiveBelow(S, V, height, step, f, n),
         RecursiveBelow(S, V, height, step, g, n),
         NEW x \in S, height[x] < n
  PROVE  f[x] = g[x]
<1>. V # {} /\ height \in [S -> Nat] /\ step \in [[S -> V] \X S -> V]
  BY DEF DependsBelow
<1> SUFFICES ASSUME f[x] # g[x] PROVE FALSE
  OBVIOUS
<1> DEFINE T == {y \in S : height[y] < n /\ f[y] # g[y]}
<1>1. T \in SUBSET S /\ T # {}
  OBVIOUS
<1>2. PICK y \in T : \A z \in T : height[y] <= height[z]
  <2> HIDE DEF T
  <2> QED
    BY <1>1, LowestOf
<1>3. \A z \in S : height[z] < height[y] => f[z] = g[z]
  BY <1>2
<1>4. step[<<f, y>>] = step[<<g, y>>]
  BY <1>2, <1>3 DEF DependsBelow, RecursiveBelow
<1> QED
  BY <1>2, <1>4 DEF RecursiveBelow

LEMMA RecursionBelow ==
  ASSUME NEW S, NEW V, NEW height, NEW step, DependsBelow(S, V, height, step), NEW n \in Nat
  PROVE  \E f : RecursiveBelow(S, V, height, step, f, n)
<1>. V # {} /\ height \in [S -> Nat] /\ step \in [[S -> V] \X S -> V]
  BY DEF DependsBelow
<1> DEFINE Bad == {k \in Nat : ~\E f : RecursiveBelow(S, V, height, step, f, k)}
<1> SUFFICES Bad = {}
  OBVIOUS
<1> SUFFICES ASSUME Bad # {} PROVE FALSE
  OBVIOUS
<1>1. PICK m \in Bad : \A k \in Bad : m <= k
  <2>1. Bad \in SUBSET Nat
    OBVIOUS
  <2> HIDE DEF Bad
  <2> QED
    BY <2>1, SmallestOf
<1>2. m # 0
  <2>1. PICK v : v \in V
    OBVIOUS
  <2>2. RecursiveBelow(S, V, height, step, [x \in S |-> v], 0)
    BY <2>1 DEF RecursiveBelow
  <2> QED
    BY <2>2
<1>3. PICK f : RecursiveBelow(S, V, height, step, f, m - 1)
  <2>1. m \in Nat /\ m - 1 \in Nat /\ ~(m <= m - 1)
    BY <1>2
  <2>2. m - 1 \notin Bad
    BY <1>1, <2>1
  <2> QED
    BY <2>1, <2>2
<1> DEFINE g == [x \in S |-> IF height[x] < m - 1 THEN f[x] ELSE step[<<f, x>>]]
<1>4. g \in [S -> V] /\ f \in [S -> V]
  BY <1>3 DEF RecursiveBelow
<1>5. ASSUME NEW x \in S, height[x] < m PROVE g[x] = step[<<g, x>>]
  <2>1. \A y \in S : height[y] < height[x] => f[y] = g[y]
    BY <1>5
  <2>2. step[<<f, x>>] = step[<<g, x>>]
    <3> HIDE DEF g
    <3> QED
      BY <1>4, <2>1 DEF DependsBelow
  <2>3. g[x] = step[<<f, x>>]
    BY <1>3 DEF RecursiveBelow
  <2> QED
    BY <2>2, <2>3
<1>6. RecursiveBelow(S, V, height, step, g, m)
  <2> HIDE DEF g
  <2> QED
    BY <1>4, <1>5 DEF RecursiveBelow
<1> QED
  BY <1>6

\* A recursion that descends in height defines a function.
LEMMA RecursionDefines ==
  ASSUME NEW S, NEW V, NEW height, NEW step, DependsBelow(S, V, height, step)
  PROVE  \E f : Recursive(S, V, step, f)
<1>. V # {} /\ height \in [S -> Nat] /\ step \in [[S -> V] \X S -> V]
  BY DEF DependsBelow
<1> DEFINE Up(x) == CHOOSE f : RecursiveBelow(S, V, height, step, f, height[x] + 1)
           F == [x \in S |-> Up(x)[x]]
<1>1. ASSUME NEW x \in S
      PROVE  RecursiveBelow(S, V, height, step, Up(x), height[x] + 1)
  <2>1. height[x] + 1 \in Nat
    OBVIOUS
  <2>2. \E f : RecursiveBelow(S, V, height, step, f, height[x] + 1)
    BY <2>1, RecursionBelow
  <2> QED
    BY <2>2, Zenon
<1> HIDE DEF Up
<1>2. F \in [S -> V]
  <2>1. \A x \in S : Up(x)[x] \in V
    BY <1>1 DEF RecursiveBelow
  <2> QED
    BY <2>1
<1>3. ASSUME NEW x \in S PROVE F[x] = step[<<F, x>>]
  <2>1. ASSUME NEW y \in S, height[y] < height[x] PROVE Up(x)[y] = F[y]
    <3>1. RecursiveBelow(S, V, height, step, Up(x), height[x] + 1)
      BY <1>1
    <3>2. height[y] + 1 \in Nat /\ height[y] < height[y] + 1
          /\ \A z \in S : height[z] < height[y] + 1 => height[z] < height[x] + 1
      BY <2>1
    <3>3. RecursiveBelow(S, V, height, step, Up(x), height[y] + 1)
      BY <3>1, <3>2 DEF RecursiveBelow
    <3>4. RecursiveBelow(S, V, height, step, Up(y), height[y] + 1)
      BY <1>1
    <3>5. Up(x)[y] = Up(y)[y]
      BY <3>2, <3>3, <3>4, RecursionUnique
    <3> QED
      BY <3>5
  <2>2. Up(x) \in [S -> V] /\ Up(x)[x] = step[<<Up(x), x>>]
    <3>1. height[x] < height[x] + 1
      OBVIOUS
    <3> QED
      BY <1>1, <3>1 DEF RecursiveBelow
  <2>3. step[<<Up(x), x>>] = step[<<F, x>>]
    <3> HIDE DEF F
    <3> QED
      BY <1>2, <2>1, <2>2 DEF DependsBelow
  <2> QED
    BY <2>2, <2>3
<1> QED
  BY <1>2, <1>3 DEF Recursive

-----------------------------------------------------------------------------
\* Powers of two.
LEMMA Pow2Is ==
  /\ Pow2 \in [Nat -> Nat] /\ Pow2[0] = 1
  /\ \A n \in Nat : Pow2[n + 1] = 2 * Pow2[n]
<1> DEFINE height == [n \in Nat |-> n]
           step == [p \in [Nat -> Nat] \X Nat |-> IF p[2] = 0 THEN 1 ELSE 2 * p[1][p[2] - 1]]
           Double(f) == [n \in Nat |-> IF n = 0 THEN 1 ELSE 2 * f[n - 1]]
<1>1. ASSUME NEW f \in [Nat -> Nat], NEW n \in Nat
      PROVE  step[<<f, n>>] = Double(f)[n] /\ step[<<f, n>>] \in Nat
  <2>1. <<f, n>> \in [Nat -> Nat] \X Nat /\ <<f, n>>[1] = f /\ <<f, n>>[2] = n
    OBVIOUS
  <2>2. step[<<f, n>>] = IF n = 0 THEN 1 ELSE 2 * f[n - 1]
    BY <2>1
  <2>3. n # 0 => n - 1 \in Nat
    OBVIOUS
  <2>4. n # 0 => f[n - 1] \in Nat
    BY <2>3
  <2> QED
    BY <2>2, <2>4
<1>2. DependsBelow(Nat, Nat, height, step)
  <2>1. step \in [[Nat -> Nat] \X Nat -> Nat]
    <3>1. \A p \in [Nat -> Nat] \X Nat : step[p] \in Nat
      <4> SUFFICES ASSUME NEW f \in [Nat -> Nat], NEW n \in Nat PROVE step[<<f, n>>] \in Nat
        OBVIOUS
      <4> HIDE DEF step
      <4> QED
        BY <1>1
    <3> QED
      BY <3>1
  <2>2. ASSUME NEW f \in [Nat -> Nat], NEW g \in [Nat -> Nat], NEW n \in Nat,
               \A k \in Nat : height[k] < height[n] => f[k] = g[k]
        PROVE  step[<<f, n>>] = step[<<g, n>>]
    <3>1. n # 0 => n - 1 \in Nat /\ n - 1 < n
      OBVIOUS
    <3>2. n # 0 => f[n - 1] = g[n - 1]
      BY <2>2, <3>1
    <3>3. Double(f)[n] = Double(g)[n]
      BY <3>2
    <3> QED
      BY <1>1, <3>3
  <2> HIDE DEF step
  <2> QED
    BY <2>1, <2>2 DEF DependsBelow
<1>3. \E f \in [Nat -> Nat] : f = Double(f)
  <2>1. \E f : Recursive(Nat, Nat, step, f)
    <3> HIDE DEF height, step
    <3> QED
      BY <1>2, RecursionDefines
  <2>2. PICK f : Recursive(Nat, Nat, step, f)
    BY <2>1
  <2>3. f \in [Nat -> Nat] /\ \A n \in Nat : f[n] = Double(f)[n]
    <3> HIDE DEF step, Double
    <3> QED
      BY <1>1, <2>2 DEF Recursive
  <2> QED
    BY <2>3
<1>4. Pow2 = CHOOSE f : f = Double(f)
  BY DEF Pow2
<1>5. Pow2 = Double(Pow2)
  <2> HIDE DEF Double
  <2> QED
    BY <1>3, <1>4
<1>6. \A n \in Nat : Pow2[n] = IF n = 0 THEN 1 ELSE 2 * Pow2[n - 1]
  BY <1>5
<1> DEFINE Bad == {n \in Nat : Pow2[n] \notin Nat}
<1>7. Bad = {}
  <2> SUFFICES ASSUME Bad # {} PROVE FALSE
    OBVIOUS
  <2>1. PICK m \in Bad : \A k \in Bad : m <= k
    <3>1. Bad \in SUBSET Nat
      OBVIOUS
    <3> HIDE DEF Bad
    <3> QED
      BY <3>1, SmallestOf
  <2>2. m # 0
    BY <1>6
  <2>3. m - 1 \in Nat /\ ~(m <= m - 1)
    BY <2>2
  <2>4. Pow2[m - 1] \in Nat
    BY <2>1, <2>3
  <2> QED
    BY <1>6, <2>2, <2>4
<1>8. Pow2 \in [Nat -> Nat]
  <2>1. Pow2 = [n \in Nat |-> Pow2[n]]
    BY <1>5
  <2> QED
    BY <1>7, <2>1
<1>9. \A n \in Nat : Pow2[n + 1] = 2 * Pow2[n]
  <2>1. \A n \in Nat : n + 1 \in Nat /\ n + 1 # 0 /\ n + 1 - 1 = n
    OBVIOUS
  <2> QED
    BY <1>6, <2>1
<1> QED
  BY <1>6, <1>8, <1>9

\* A power of two is positive, and grows with its exponent.
LEMMA Pow2Grows ==
  ASSUME NEW n \in Nat
  PROVE  /\ Pow2[n] \in Nat /\ Pow2[n] >= 1 /\ Pow2[n] > n
         /\ \A m \in Nat : Pow2[m + n] = Pow2[m] * Pow2[n]
<1> DEFINE Good(k) == /\ Pow2[k] >= 1 /\ Pow2[k] > k
                      /\ \A m \in Nat : Pow2[m + k] = Pow2[m] * Pow2[k]
           Bad == {k \in Nat : ~Good(k)}
<1>1. \A k \in Nat : Pow2[k] \in Nat
  BY Pow2Is
<1>2. Bad = {}
  <2> SUFFICES ASSUME Bad # {} PROVE FALSE
    OBVIOUS
  <2>1. PICK k \in Bad : \A j \in Bad : k <= j
    <3>1. Bad \in SUBSET Nat
      OBVIOUS
    <3> HIDE DEF Bad
    <3> QED
      BY <3>1, SmallestOf
  <2>2. CASE k = 0
    <3>1. \A m \in Nat : m + 0 = m /\ Pow2[m] * 1 = Pow2[m]
      BY <1>1
    <3>2. Pow2[k] = 1 /\ Good(k)
      BY <2>2, <3>1, Pow2Is
    <3> QED
      BY <3>2
  <2>3. CASE k # 0
    <3>1. k - 1 \in Nat /\ ~(k <= k - 1) /\ k - 1 + 1 = k
      BY <2>3
    <3>2. k - 1 \notin Bad
      BY <2>1, <3>1
    <3>3. /\ Pow2[k - 1] >= 1 /\ Pow2[k - 1] > k - 1
          /\ \A m \in Nat : Pow2[m + (k - 1)] = Pow2[m] * Pow2[k - 1]
      BY <3>1, <3>2
    <3>4. Pow2[k] = 2 * Pow2[k - 1]
      BY <3>1, Pow2Is
    <3>5. Pow2[k] >= 1 /\ Pow2[k] > k
      BY <1>1, <3>1, <3>3, <3>4
    <3>6. ASSUME NEW m \in Nat PROVE Pow2[m + k] = Pow2[m] * Pow2[k]
      <4>1. m + (k - 1) \in Nat /\ m + (k - 1) + 1 = m + k
        BY <3>1
      <4>2. Pow2[m + k] = 2 * Pow2[m + (k - 1)]
        BY <4>1, Pow2Is
      <4>3. Pow2[m + (k - 1)] = Pow2[m] * Pow2[k - 1]
        BY <3>3
      <4>4. \A a, b \in Nat : 2 * (a * b) = a * (2 * b)
        OBVIOUS
      <4>5. Pow2[m] \in Nat /\ Pow2[k - 1] \in Nat
        BY <1>1, <3>1
      <4> QED
        BY <3>4, <4>2, <4>3, <4>4, <4>5
    <3> QED
      BY <2>1, <3>5, <3>6
  <2> QED
    BY <2>2, <2>3
<1> QED
  BY <1>1, <1>2

\* A larger exponent makes a multiple.
LEMMA Pow2Multiple ==
  ASSUME NEW m \in Nat, NEW n \in Nat, m <= n
  PROVE  /\ Pow2[m] <= Pow2[n]
         /\ \E c \in Nat : Pow2[n] = c * Pow2[m]
<1>1. n - m \in Nat /\ (n - m) + m = n
  OBVIOUS
<1>2. Pow2[n] = Pow2[n - m] * Pow2[m] /\ Pow2[n - m] \in Nat /\ Pow2[n - m] >= 1 /\ Pow2[m] \in Nat
  BY <1>1, Pow2Grows
<1>3. \A a, b \in Nat : a >= 1 => b <= a * b
  OBVIOUS
<1> QED
  BY <1>2, <1>3
=============================================================================
