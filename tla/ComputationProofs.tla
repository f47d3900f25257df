-------------------------- MODULE ComputationProofs --------------------------
(*****************************************************************************)
(* What is printed for a unit computes its expressions: for every set of     *)
(* expressions and bodies, every width and every input.                      *)
(*                                                                           *)
(* The widths of the results are not those of the expressions: all operators *)
(* under one output are calculated in its width, and casts are dropped.      *)
(* Keeps and Exact (Expressions) say when the low bits, or the whole value,  *)
(* survive that.  Induction over the expressions shows that they do (Held),  *)
(* one operator at a time.                                                   *)
(*                                                                           *)
(* The program of a unit is labelled: L[k] is the expression that statement  *)
(* k calculates and the width it is calculated in, and the operands of the   *)
(* statement are results so labelled, arguments or literals (Means).  The    *)
(* results of a labelled program are right, for the first that were not      *)
(* would read right ones (ProgramRight).                                     *)
(*                                                                           *)
(* That the lowering labels its program needs to know what the names on the  *)
(* stack of printExpr are and what the frames that are left will make of     *)
(* them.  Leads runs the frames on labels in place of names: from a stack of *)
(* labels it must end in that of the root, calculated in the width of the    *)
(* output.  Every step keeps this (Going), a call by replacing its frame by  *)
(* what amounts to the same, an emit by taking the step.                     *)
(*                                                                           *)
(* An instance runs the process printed for the first unit of its name, with *)
(* its own arguments.  Both units have the same expressions, and the order   *)
(* in which the lowering meets the identifiers does not depend on the widths *)
(* of the outputs (Control, SameArguments): the arguments of the one are     *)
(* those of the other.                                                       *)
(*                                                                           *)
(* The invariant is LibInv: that a label exists for what is being generated  *)
(* (MeanInv) and for every unit printed and every process (PrintedMeans).    *)
(* ComputesExpression alone is not inductive, for it says nothing of the     *)
(* unit being generated.                                                     *)
(*****************************************************************************)
EXTENDS NetlistProofs
-----------------------------------------------------------------------------
(* Numbers of so many bits. *)

\* What is left of a division by m.
LEMMA ModIs ==
  ASSUME NEW a \in Int, NEW m \in Nat, m >= 1
  PROVE  /\ a % m \in Nat /\ a % m < m /\ \E q \in Int : a = q * m + (a % m)
         /\ \A q \in Int, r \in Nat : (a = q * m + r /\ r < m) => a % m = r
         /\ (0 <= a /\ a < m) => a % m = a
<1>1. a % m \in Nat /\ a % m < m /\ a = m * (a \div m) + (a % m) /\ a \div m \in Int
  OBVIOUS
<1>2. \A q \in Int : q * m = m * q
  OBVIOUS
<1>3. ASSUME NEW q \in Int, NEW r \in Nat, a = q * m + r, r < m PROVE a % m = r
  BY <1>3
<1>4. (0 <= a /\ a < m) => a % m = a
  OBVIOUS
<1> QED
  BY <1>1, <1>2, <1>3, <1>4

\* Equal modulo n is equal modulo a divisor of n.
LEMMA ModMod ==
  ASSUME NEW a \in Int, NEW b \in Int, NEW m \in Nat, m >= 1, NEW c \in Nat, NEW n \in Nat,
         n >= 1, n = c * m
  PROVE  /\ (a % n) % m = a % m
         /\ a % n = b % n => a % m = b % m
<1>1. ASSUME NEW z \in Int PROVE (z % n) % m = z % m
  <2>1. PICK q \in Int : z = q * n + (z % n)
    BY ONLY z \in Int, n \in Nat, n >= 1, ModIs
  <2>8. z % n \in Int
    BY ONLY z \in Int, n \in Nat, n >= 1, ModIs
  <2>2. PICK y \in Int : y = z % n
    BY ONLY <2>8
  <2>3. PICK d \in Int : y = d * m + (y % m)
    BY ONLY y \in Int, m \in Nat, m >= 1, ModIs
  <2>9. y % m \in Nat /\ y % m < m
    BY ONLY y \in Int, m \in Nat, m >= 1, ModIs
  <2>4. PICK r \in Nat : r = y % m /\ r < m
    BY ONLY <2>9
  <2>5. z = (q * c) * m + (d * m + r)
    <3>1. q * n = (q * c) * m
      OBVIOUS
    <3> QED
      BY <2>1, <2>2, <2>3, <2>4, <3>1
  <2>6. z = (q * c + d) * m + r /\ q * c + d \in Int
    <3>1. (q * c + d) * m = (q * c) * m + d * m
      OBVIOUS
    <3>2. (q * c) * m \in Int /\ d * m \in Int /\ r \in Int /\ q * c + d \in Int
      OBVIOUS
    <3>3. \A f, g, h \in Int : f + (g + h) = (f + g) + h
      OBVIOUS
    <3> QED
      BY ONLY <2>5, <3>1, <3>2, <3>3
  <2>7. z % m = r
    BY <2>4, <2>6, ModIs
  <2> QED
    BY <2>2, <2>4, <2>7
<1> QED
  BY <1>1

\* A sum is determined by what is left of its operands.
LEMMA ModSum ==
  ASSUME NEW a \in Int, NEW b \in Int, NEW m \in Nat, m >= 1
  PROVE  (a + b) % m = ((a % m) + (b % m)) % m
<1> DEFINE e == (a % m) + (b % m)
<1>1. PICK p \in Int : a = p * m + (a % m)
  BY ModIs
<1>2. PICK q \in Int : b = q * m + (b % m)
  BY ModIs
<1>3. a % m \in Int /\ b % m \in Int /\ e \in Int
  BY ModIs
<1>4. PICK w \in Int : e = w * m + (e % m)
  BY <1>3, ModIs
<1>5. e % m \in Nat /\ e % m < m
  BY <1>3, ModIs
<1>6. a + b = (p * m + q * m) + e
  <2>1. \A f, g, k, l \in Int : (f + k) + (g + l) = (f + g) + (k + l)
    OBVIOUS
  <2>2. p * m \in Int /\ q * m \in Int
    OBVIOUS
  <2> QED
    BY <1>1, <1>2, <1>3, <2>1, <2>2
<1> HIDE DEF e
<1>7. a + b = (p * m + q * m) + (w * m + (e % m))
  BY <1>4, <1>6
<1>8. (p * m + q * m) + (w * m + (e % m)) = (p + q + w) * m + (e % m)
  <2>1. (p + q + w) * m = p * m + q * m + w * m
    OBVIOUS
  <2>2. \A f, g, k, l \in Int : (f + g) + (k + l) = (f + g + k) + l
    OBVIOUS
  <2>3. p * m \in Int /\ q * m \in Int /\ w * m \in Int /\ e % m \in Int
    BY <1>5
  <2> QED
    BY <2>1, <2>2, <2>3
<1>9. a + b \in Int /\ p + q + w \in Int /\ a + b = (p + q + w) * m + (e % m)
  BY <1>7, <1>8
<1>10. (a + b) % m = e % m
  <2>1. PICK x \in Int, k \in Int, y \in Nat : x = a + b /\ k = p + q + w /\ y = e % m
    BY <1>5, <1>9
  <2>2. x = k * m + y /\ y < m
    BY <1>5, <1>9, <2>1
  <2>3. x % m = y
    BY ONLY m \in Nat, m >= 1, <2>2, ModIs
  <2> QED
    BY <2>1, <2>3
<1> QED
  BY <1>10 DEF e

-----------------------------------------------------------------------------
(* What an expression means, from its operands. *)

\* The operands of each operator.
LEMMA OperandsOf ==
  ASSUME NEW e \in Exprs
  PROVE  /\ e.op \in {"plus", "lt", "not", "int", "var", "cast", "bool", "query", "concat"}
         /\ \A i \in DOMAIN e.args : e.args[i] \in Exprs
         /\ e.op \in {"int", "var"} => DOMAIN e.args = {}
         /\ e.op \in {"not", "cast", "bool"} => DOMAIN e.args = {1}
         /\ e.op \in {"plus", "lt", "concat"} => DOMAIN e.args = {1, 2}
         /\ e.op = "query" => DOMAIN e.args = {1, 2, 3}
<1>1. e.op \in Ops /\ e.args \in Seq(Exprs) /\ DOMAIN e.args = 1 .. Arity(e.op)
  BY ExprFacts
<1>2. e.op \in {"plus", "lt", "not", "int", "var", "cast", "bool", "query", "concat"}
  BY <1>1 DEF Ops, Operators
<1>3. ASSUME NEW i \in DOMAIN e.args PROVE e.args[i] \in Exprs
  <2>1. e.args \in Seq(Exprs) /\ i \in DOMAIN e.args
    BY <1>1
  <2> QED
    BY ONLY <2>1
<1>4. /\ 1 .. 0 = {} /\ 1 .. 1 = {1} /\ 1 .. 2 = {1, 2} /\ 1 .. 3 = {1, 2, 3}
  OBVIOUS
<1>5. /\ e.op \in {"int", "var"} => Arity(e.op) = 0
      /\ e.op \in {"not", "cast", "bool"} => Arity(e.op) = 1
      /\ e.op \in {"plus", "lt", "concat"} => Arity(e.op) = 2
      /\ e.op = "query" => Arity(e.op) = 3
  BY <1>2 DEF Arity
<1> QED
  BY <1>1, <1>2, <1>3, <1>4, <1>5

\* What is wrong with an expression is wrong with one of its operands: then it
\* is wrong with none.
LEMMA ExprInduction ==
  ASSUME NEW Bad \in SUBSET Exprs,
         \A e \in Bad : \E i \in DOMAIN e.args : e.args[i] \in Bad
  PROVE  Bad = {}
<1> SUFFICES ASSUME Bad # {} PROVE FALSE
  OBVIOUS
<1> DEFINE height == [e \in Exprs |-> Height[e]]
<1>1. height \in [Exprs -> Nat]
  BY ExprFacts
<1>2. PICK e \in Bad : \A d \in Bad : height[e] <= height[d]
  <2> HIDE DEF height
  <2> QED
    BY <1>1, LowestOf
<1>3. PICK i \in DOMAIN e.args : e.args[i] \in Bad
  OBVIOUS
<1>4. Height[e.args[i]] < Height[e] /\ Height[e] \in Nat /\ Height[e.args[i]] \in Nat
  BY <1>3, ExprFacts
<1>5. Height[e] <= Height[e.args[i]]
  BY <1>2, <1>3
<1> QED
  BY <1>4, <1>5

\* next[f][e] is the value of e for a function f, and depends on what f gives for
\* the operands of e only.
OverOperands(V, next) ==
  /\ V # {} /\ next \in [[Exprs -> V] -> [Exprs -> V]]
  /\ \A f, g \in [Exprs -> V] : \A e \in Exprs :
       (\A i \in DOMAIN e.args : f[e.args[i]] = g[e.args[i]]) => next[f][e] = next[g][e]

\* A recursion over the operands defines a function of the expressions.
LEMMA ExprRecursion ==
  ASSUME NEW V, NEW next, OverOperands(V, next)
  PROVE  \E f \in [Exprs -> V] : f = next[f]
<1> DEFINE height == [e \in Exprs |-> Height[e]]
           step == [p \in [Exprs -> V] \X Exprs |-> next[p[1]][p[2]]]
<1>1. height \in [Exprs -> Nat]
  BY ExprFacts
<1>2. \A f \in [Exprs -> V] : \A e \in Exprs : step[<<f, e>>] = next[f][e] /\ next[f][e] \in V
  BY DEF OverOperands
<1>3. step \in [[Exprs -> V] \X Exprs -> V]
  <2>1. \A p \in [Exprs -> V] \X Exprs : next[p[1]][p[2]] \in V
    BY DEF OverOperands
  <2> QED
    BY <2>1
<1>4. ASSUME NEW f \in [Exprs -> V], NEW g \in [Exprs -> V], NEW e \in Exprs,
             \A d \in Exprs : height[d] < height[e] => f[d] = g[d]
      PROVE  step[<<f, e>>] = step[<<g, e>>]
  <2>1. ASSUME NEW i \in DOMAIN e.args PROVE f[e.args[i]] = g[e.args[i]]
    <3>1. e.args[i] \in Exprs /\ Height[e.args[i]] < Height[e]
      BY ExprFacts, OperandsOf
    <3> QED
      BY <1>4, <3>1
  <2>2. next[f][e] = next[g][e]
    BY <2>1 DEF OverOperands
  <2> HIDE DEF step
  <2> QED
    BY <1>2, <2>2
<1> HIDE DEF height, step
<1>5. DependsBelow(Exprs, V, height, step)
  BY <1>1, <1>3, <1>4 DEF DependsBelow, OverOperands
<1>6. PICK f : Recursive(Exprs, V, step, f)
  BY <1>5, RecursionDefines
<1>7. f \in [Exprs -> V] /\ next[f] \in [Exprs -> V]
  BY <1>6 DEF Recursive, OverOperands
<1>8. \A e \in Exprs : f[e] = next[f][e]
  BY <1>2, <1>6, <1>7 DEF Recursive
<1> QED
  BY <1>7, <1>8

-----------------------------------------------------------------------------
\* The least number of bits of a literal.
LEMMA BitsOfIs ==
  ASSUME NEW v \in Nat
  PROVE  BitsOf(v) \in Nat \ {0} /\ v < Pow2[BitsOf(v)]
<1> DEFINE T == {w \in Nat : w >= 1 /\ v < Pow2[w]}
           P(w) == v < Pow2[w] /\ \A k \in 1 .. w - 1 : v >= Pow2[k]
<1>1. v + 1 \in T
  BY Pow2Grows
<1>2. PICK w \in T : \A k \in T : w <= k
  <2>1. T \in SUBSET Nat /\ T # {}
    BY <1>1
  <2> HIDE DEF T
  <2> QED
    BY <2>1, SmallestOf
<1>3. w \in 1 .. v + 1
  BY <1>1, <1>2
<1>4. \A k \in 1 .. w - 1 : v >= Pow2[k]
  <2> SUFFICES ASSUME NEW k \in 1 .. w - 1, ~(v >= Pow2[k]) PROVE FALSE
    OBVIOUS
  <2>1. k \in Nat /\ ~(w <= k) /\ k >= 1
    BY <1>3
  <2>2. Pow2[k] \in Nat
    BY <2>1, Pow2Grows
  <2> QED
    BY <1>2, <2>1, <2>2
<1>5. \E k \in 1 .. v + 1 : P(k)
  BY <1>2, <1>3, <1>4
<1>6. BitsOf(v) = CHOOSE k \in 1 .. v + 1 : P(k)
  BY DEF BitsOf
<1>7. BitsOf(v) \in 1 .. v + 1 /\ P(BitsOf(v))
  <2> HIDE DEF P
  <2> QED
    BY <1>5, <1>6
<1> QED
  BY <1>7

\* The identifiers of an operand are identifiers of the expression.
IdentifiersAt(f, e) ==
  IF e.op = "var" THEN {e.n} ELSE UNION {f[e.args[i]] : i \in DOMAIN e.args}

\* The identifiers of an expression, and of its operands.
LEMMA IdentifiersIs ==
  ASSUME NEW e \in Exprs
  PROVE  /\ e.op = "var" => Identifiers[e] = {e.n}
         /\ \A i \in DOMAIN e.args : Identifiers[e.args[i]] \subseteq Identifiers[e]
<1> DEFINE V == SUBSET Nat
           Of(f) == [x \in Exprs |-> IdentifiersAt(f, x)]
           next == [f \in [Exprs -> V] |-> Of(f)]
<1>1. ASSUME NEW f \in [Exprs -> V], NEW x \in Exprs PROVE IdentifiersAt(f, x) \in V
  <2>1. x.n \in Nat /\ \A i \in DOMAIN x.args : f[x.args[i]] \in SUBSET Nat
    BY ExprFacts, OperandsOf
  <2> QED
    BY <2>1 DEF IdentifiersAt
<1>2. ASSUME NEW f \in [Exprs -> V], NEW g \in [Exprs -> V], NEW x \in Exprs,
             \A i \in DOMAIN x.args : f[x.args[i]] = g[x.args[i]]
      PROVE  IdentifiersAt(f, x) = IdentifiersAt(g, x)
  <2>1. {f[x.args[i]] : i \in DOMAIN x.args} = {g[x.args[i]] : i \in DOMAIN x.args}
    BY <1>2
  <2> QED
    BY <2>1 DEF IdentifiersAt
<1>3. \E f : f = Of(f)
  <2>1. V # {}
    OBVIOUS
  <2> HIDE DEF V
  <2>2. OverOperands(V, next)
    BY <1>1, <1>2, <2>1 DEF OverOperands
  <2>3. PICK f \in [Exprs -> V] : f = next[f]
    <3> HIDE DEF next
    <3> QED
      BY <2>2, ExprRecursion
  <2> QED
    BY <2>3
<1>4. Identifiers = CHOOSE g : g = Of(g)
  BY DEF Identifiers, IdentifiersAt
<1>5. Identifiers = Of(Identifiers)
  <2> HIDE DEF Of
  <2> QED
    BY <1>3, <1>4
<1>6. Identifiers[e] = IdentifiersAt(Identifiers, e)
  BY <1>5
<1>7. \A i \in DOMAIN e.args : e.op # "var"
  BY OperandsOf
<1> QED
  BY <1>6, <1>7 DEF IdentifiersAt

\* Widths of identifiers are given.
Given(iw) == \A i \in DOMAIN iw : iw[i] \in Nat

\* The width of an expression, from those of its operands.
WidthAt(iw, f, e) ==
  CASE e.op = "int" -> BitsOf(e.n)
    [] e.op = "var" -> IF e.n \in DOMAIN iw THEN iw[e.n] ELSE 0
    [] e.op = "plus" -> 1 + Larger(f[e.args[1]], f[e.args[2]])
    [] e.op \in {"lt", "bool"} -> 1
    [] e.op = "not" -> f[e.args[1]]
    [] e.op = "cast" -> e.n
    [] e.op = "query" -> Larger(f[e.args[2]], f[e.args[3]])
    [] OTHER -> f[e.args[1]] + f[e.args[2]]

\* A width is a number if those of the operands are.
LEMMA WidthType ==
  ASSUME NEW iw, Given(iw), NEW e \in Exprs, NEW f, \A i \in DOMAIN e.args : f[e.args[i]] \in Nat
  PROVE  WidthAt(iw, f, e) \in Nat
<1>1. e.n \in Nat /\ BitsOf(e.n) \in Nat
  BY ExprFacts, BitsOfIs
<1>2. CASE e.op = "int"
  BY <1>1, <1>2 DEF WidthAt
<1>3. CASE e.op = "var"
  BY <1>3 DEF WidthAt, Given
<1>4. CASE e.op = "plus"
  BY <1>4, OperandsOf DEF WidthAt, Larger
<1>5. CASE e.op \in {"lt", "bool"}
  BY <1>5 DEF WidthAt
<1>6. CASE e.op = "not"
  BY <1>6, OperandsOf DEF WidthAt
<1>7. CASE e.op = "cast"
  BY <1>1, <1>7 DEF WidthAt
<1>8. CASE e.op = "query"
  BY <1>8, OperandsOf DEF WidthAt, Larger
<1>9. CASE e.op = "concat"
  BY <1>9, OperandsOf DEF WidthAt
<1> QED
  BY <1>2, <1>3, <1>4, <1>5, <1>6, <1>7, <1>8, <1>9, OperandsOf

\* A width depends on those of the operands only.
LEMMA WidthSame ==
  ASSUME NEW iw, NEW e \in Exprs, NEW f, NEW g, \A i \in DOMAIN e.args : f[e.args[i]] = g[e.args[i]]
  PROVE  WidthAt(iw, f, e) = WidthAt(iw, g, e)
BY OperandsOf DEF WidthAt

\* Every expression has a width.
LEMMA WidthIs ==
  ASSUME NEW iw, Given(iw), NEW e \in Exprs
  PROVE  WidthOf(iw)[e] = WidthAt(iw, WidthOf(iw), e) /\ WidthOf(iw)[e] \in Nat
<1> DEFINE Of(f) == [x \in Exprs |-> WidthAt(iw, f, x)]
           next == [f \in [Exprs -> Nat] |-> Of(f)]
           w == WidthOf(iw)
           Bad == {x \in Exprs : w[x] \notin Nat}
<1>1. \E f : f = Of(f)
  <2>0. \A f \in [Exprs -> Nat] : \A x \in Exprs : \A i \in DOMAIN x.args : f[x.args[i]] \in Nat
    BY OperandsOf
  <2>1. \A f \in [Exprs -> Nat] : \A x \in Exprs : WidthAt(iw, f, x) \in Nat
    BY <2>0, WidthType
  <2>2. OverOperands(Nat, next)
    BY <2>1, WidthSame DEF OverOperands
  <2>3. PICK f \in [Exprs -> Nat] : f = next[f]
    <3> HIDE DEF next
    <3> QED
      BY <2>2, ExprRecursion
  <2> QED
    BY <2>3
<1>2. w = CHOOSE f : f = Of(f)
  BY DEF WidthOf, WidthAt
<1>3. w = Of(w)
  <2> HIDE DEF Of, w
  <2> QED
    BY <1>1, <1>2
<1>4. \A x \in Exprs : w[x] = WidthAt(iw, w, x)
  <2> HIDE DEF w
  <2> QED
    BY <1>3
<1>5. Bad = {}
  <2> HIDE DEF w
  <2>1. ASSUME NEW x \in Bad PROVE \E i \in DOMAIN x.args : x.args[i] \in Bad
    <3> SUFFICES ASSUME \A i \in DOMAIN x.args : x.args[i] \notin Bad PROVE FALSE
      OBVIOUS
    <3>1. \A i \in DOMAIN x.args : w[x.args[i]] \in Nat
      BY OperandsOf
    <3> QED
      BY <1>4, <3>1, WidthType
  <2>2. Bad \in SUBSET Exprs
    OBVIOUS
  <2> HIDE DEF Bad
  <2> QED
    BY <2>1, <2>2, ExprInduction
<1> QED
  BY <1>4, <1>5

\* The value of an expression, from those of its operands.
ValueAt(wd, x, f, e) ==
  CASE e.op = "int" -> e.n
    [] e.op = "var" -> IF e.n \in DOMAIN x THEN x[e.n] ELSE 0
    [] e.op = "cast" -> f[e.args[1]] % Pow2[e.n]
    [] e.op = "bool" -> Bit(f[e.args[1]] # 0)
    [] OTHER -> Apply(e.op, [i \in DOMAIN e.args |-> f[e.args[i]]],
                      [i \in DOMAIN e.args |-> wd[e.args[i]]])

\* x gives the identifiers values of their widths.
Valued(iw, x) == DOMAIN x = DOMAIN iw /\ \A i \in DOMAIN iw : x[i] \in Nat /\ x[i] < Pow2[iw[i]]

\* The same, operator by operator.
LEMMA ValueCases ==
  ASSUME NEW wd, NEW x, NEW f, NEW e \in Exprs
  PROVE  /\ e.op = "int" => ValueAt(wd, x, f, e) = e.n
         /\ e.op = "var" => ValueAt(wd, x, f, e) = IF e.n \in DOMAIN x THEN x[e.n] ELSE 0
         /\ e.op = "cast" => ValueAt(wd, x, f, e) = f[e.args[1]] % Pow2[e.n]
         /\ e.op = "bool" => ValueAt(wd, x, f, e) = Bit(f[e.args[1]] # 0)
         /\ e.op = "plus" => ValueAt(wd, x, f, e) = f[e.args[1]] + f[e.args[2]]
         /\ e.op = "lt" => ValueAt(wd, x, f, e) = Bit(f[e.args[1]] < f[e.args[2]])
         /\ e.op = "not" => ValueAt(wd, x, f, e) = Pow2[wd[e.args[1]]] - 1 - f[e.args[1]]
         /\ e.op = "query" => ValueAt(wd, x, f, e) =
              IF f[e.args[1]] # 0 THEN f[e.args[2]] ELSE f[e.args[3]]
         /\ e.op = "concat" => ValueAt(wd, x, f, e) =
              f[e.args[1]] * Pow2[wd[e.args[2]]] + f[e.args[2]]
<1> DEFINE v == [i \in DOMAIN e.args |-> f[e.args[i]]]
           w == [i \in DOMAIN e.args |-> wd[e.args[i]]]
<1>1. e.op \notin {"int", "var", "cast", "bool"} => ValueAt(wd, x, f, e) = Apply(e.op, v, w)
  BY DEF ValueAt
<1>2. \A i \in DOMAIN e.args : v[i] = f[e.args[i]] /\ w[i] = wd[e.args[i]]
  OBVIOUS
<1> HIDE DEF v, w
<1>3. CASE e.op \in {"int", "var", "cast", "bool"}
  BY <1>3 DEF ValueAt
<1>4. CASE e.op \in {"plus", "lt", "concat"}
  <2>1. DOMAIN e.args = {1, 2}
    BY <1>4, OperandsOf
  <2> QED
    BY <1>1, <1>2, <1>4, <2>1 DEF Apply
<1>5. CASE e.op = "not"
  <2>1. DOMAIN e.args = {1}
    BY <1>5, OperandsOf
  <2> QED
    BY <1>1, <1>2, <1>5, <2>1 DEF Apply
<1>6. CASE e.op = "query"
  <2>1. DOMAIN e.args = {1, 2, 3}
    BY <1>6, OperandsOf
  <2> QED
    BY <1>1, <1>2, <1>6, <2>1 DEF Apply
<1> QED
  BY <1>3, <1>4, <1>5, <1>6, OperandsOf

\* A value is a number if those of the operands are.
LEMMA ValueType ==
  ASSUME NEW iw, Given(iw), NEW x, Valued(iw, x), NEW e \in Exprs, NEW f,
         \A i \in DOMAIN e.args : f[e.args[i]] \in Int
  PROVE  ValueAt(WidthOf(iw), x, f, e) \in Int
<1>1. e.n \in Nat
  BY ExprFacts
<1>2. \A n \in Nat : Pow2[n] \in Nat /\ Pow2[n] >= 1
  BY Pow2Grows
<1>3. \A i \in DOMAIN e.args : WidthOf(iw)[e.args[i]] \in Nat
  BY WidthIs, OperandsOf
<1>4. CASE e.op \in {"int", "var"}
  BY <1>1, <1>4, ValueCases DEF Valued
<1>5. CASE e.op = "cast"
  <2>1. f[e.args[1]] \in Int
    BY <1>5, OperandsOf
  <2>2. PICK a \in Int : a = f[e.args[1]]
    BY <2>1
  <2>3. PICK m \in Nat : m = Pow2[e.n] /\ m >= 1
    BY <1>1, <1>2
  <2>4. a % m \in Int
    BY <2>3
  <2> QED
    BY <1>5, <2>2, <2>3, <2>4, ValueCases
<1>6. CASE e.op \in {"bool", "lt"}
  BY <1>6, ValueCases DEF Bit
<1>7. CASE e.op \in {"plus", "query"}
  BY <1>7, ValueCases, OperandsOf
<1>8. CASE e.op = "not"
  <2>1. f[e.args[1]] \in Int /\ Pow2[WidthOf(iw)[e.args[1]]] \in Nat
    BY <1>2, <1>3, <1>8, OperandsOf
  <2> QED
    BY <1>8, <2>1, ValueCases
<1>9. CASE e.op = "concat"
  <2>1. f[e.args[1]] \in Int /\ f[e.args[2]] \in Int /\ Pow2[WidthOf(iw)[e.args[2]]] \in Nat
    BY <1>2, <1>3, <1>9, OperandsOf
  <2>2. f[e.args[1]] * Pow2[WidthOf(iw)[e.args[2]]] \in Int
    BY ONLY <2>1
  <2> QED
    BY <1>9, <2>1, <2>2, ValueCases
<1> QED
  BY <1>4, <1>5, <1>6, <1>7, <1>8, <1>9, OperandsOf

\* A value depends on those of the operands only.
LEMMA ValueSame ==
  ASSUME NEW wd, NEW x, NEW e \in Exprs, NEW f, NEW g,
         \A i \in DOMAIN e.args : f[e.args[i]] = g[e.args[i]]
  PROVE  ValueAt(wd, x, f, e) = ValueAt(wd, x, g, e)
<1>1. [i \in DOMAIN e.args |-> f[e.args[i]]] = [i \in DOMAIN e.args |-> g[e.args[i]]]
  OBVIOUS
<1>2. e.op \in {"cast", "bool"} => f[e.args[1]] = g[e.args[1]]
  BY OperandsOf
<1> QED
  BY <1>1, <1>2 DEF ValueAt

\* Every expression has a value.
LEMMA ValueIs ==
  ASSUME NEW iw, Given(iw), NEW x, Valued(iw, x), NEW e \in Exprs
  PROVE  /\ ValueOf(iw, x)[e] = ValueAt(WidthOf(iw), x, ValueOf(iw, x), e)
         /\ ValueOf(iw, x)[e] \in Int
<1> DEFINE Of(f) == [y \in Exprs |-> ValueAt(WidthOf(iw), x, f, y)]
           next == [f \in [Exprs -> Int] |-> Of(f)]
           v == ValueOf(iw, x)
           Bad == {y \in Exprs : v[y] \notin Int}
<1>1. \E f : f = Of(f)
  <2>0. \A f \in [Exprs -> Int] : \A y \in Exprs : \A i \in DOMAIN y.args : f[y.args[i]] \in Int
    BY OperandsOf
  <2>1. \A f \in [Exprs -> Int] : \A y \in Exprs : ValueAt(WidthOf(iw), x, f, y) \in Int
    BY <2>0, ValueType
  <2>2. OverOperands(Int, next)
    BY <2>1, ValueSame DEF OverOperands
  <2>3. PICK f \in [Exprs -> Int] : f = next[f]
    <3> HIDE DEF next
    <3> QED
      BY <2>2, ExprRecursion
  <2> QED
    BY <2>3
<1>2. v = CHOOSE f : f = Of(f)
  BY DEF ValueOf, ValueAt
<1>3. v = Of(v)
  <2> HIDE DEF Of, v
  <2> QED
    BY <1>1, <1>2
<1>4. \A y \in Exprs : v[y] = ValueAt(WidthOf(iw), x, v, y)
  <2> HIDE DEF v
  <2> QED
    BY <1>3
<1>5. Bad = {}
  <2> HIDE DEF v
  <2>1. ASSUME NEW y \in Bad PROVE \E i \in DOMAIN y.args : y.args[i] \in Bad
    <3> SUFFICES ASSUME \A i \in DOMAIN y.args : y.args[i] \notin Bad PROVE FALSE
      OBVIOUS
    <3>1. \A i \in DOMAIN y.args : v[y.args[i]] \in Int
      BY OperandsOf
    <3> QED
      BY <1>4, <3>1, ValueType
  <2>2. Bad \in SUBSET Exprs
    OBVIOUS
  <2> HIDE DEF Bad
  <2> QED
    BY <2>1, <2>2, ExprInduction
<1> QED
  BY <1>4, <1>5

\* A value of m bits has n bits, if n is larger.
LEMMA MoreBits ==
  ASSUME NEW m \in Nat, NEW n \in Nat, m <= n, NEW v \in Int, v < Pow2[m]
  PROVE  v < Pow2[n]
<1>1. Pow2[m] <= Pow2[n] /\ Pow2[m] \in Nat /\ Pow2[n] \in Nat
  BY Pow2Multiple, Pow2Grows
<1> QED
  BY <1>1

\* Two values side by side have the bits of both.
LEMMA BitsJoined ==
  ASSUME NEW m \in Nat, NEW n \in Nat, NEW a \in Nat, a < Pow2[m], NEW b \in Nat, b < Pow2[n]
  PROVE  a * Pow2[n] + b \in Nat /\ a * Pow2[n] + b < Pow2[m + n]
<1>1. PICK p \in Nat : p = Pow2[m] /\ p >= 1
  BY Pow2Grows
<1>2. PICK q \in Nat : q = Pow2[n] /\ q >= 1
  BY Pow2Grows
<1>3. Pow2[m + n] = p * q
  BY <1>1, <1>2, Pow2Grows
<1>4. a + 1 <= p /\ b < q
  BY <1>1, <1>2
<1>5. a * q \in Nat /\ (a + 1) * q = a * q + q
  BY ONLY a \in Nat, q \in Nat
<1>6. (a + 1) * q <= p * q
  <2>1. p - (a + 1) \in Nat /\ p = (a + 1) + (p - (a + 1))
    BY <1>4
  <2>2. PICK d \in Nat : p = (a + 1) + d
    BY <2>1
  <2>3. d * q \in Nat /\ (a + 1) * q \in Nat
    OBVIOUS
  <2>4. ((a + 1) + d) * q = (a + 1) * q + d * q
    OBVIOUS
  <2> QED
    BY <2>2, <2>3, <2>4
<1>7. p * q \in Nat
  OBVIOUS
<1>8. PICK z \in Nat : z = a * q
  BY <1>5
<1>9. PICK y \in Nat : y = p * q
  BY <1>7
<1>10. z + q <= y
  BY <1>5, <1>6, <1>8, <1>9
<1>11. z + b \in Nat /\ z + b < y
  BY <1>4, <1>10
<1> QED
  BY <1>2, <1>3, <1>8, <1>9, <1>11

\* The width of an expression, operator by operator.
LEMMA WidthCases ==
  ASSUME NEW iw, NEW f, NEW e \in Exprs
  PROVE  /\ e.op = "int" => WidthAt(iw, f, e) = BitsOf(e.n)
         /\ e.op = "var" => WidthAt(iw, f, e) = IF e.n \in DOMAIN iw THEN iw[e.n] ELSE 0
         /\ e.op = "plus" => WidthAt(iw, f, e) = 1 + Larger(f[e.args[1]], f[e.args[2]])
         /\ e.op \in {"lt", "bool"} => WidthAt(iw, f, e) = 1
         /\ e.op = "not" => WidthAt(iw, f, e) = f[e.args[1]]
         /\ e.op = "cast" => WidthAt(iw, f, e) = e.n
         /\ e.op = "query" => WidthAt(iw, f, e) = Larger(f[e.args[2]], f[e.args[3]])
         /\ e.op = "concat" => WidthAt(iw, f, e) = f[e.args[1]] + f[e.args[2]]
BY DEF WidthAt

\* v is a value of w bits.
Bounded(v, w) == v \in Nat /\ v < Pow2[w]

\* A value fits in its width if those of the operands do.
LEMMA BoundAt ==
  ASSUME NEW iw, Given(iw), NEW x, Valued(iw, x), NEW e \in Exprs, NEW w, NEW f,
         \A i \in DOMAIN e.args : w[e.args[i]] \in Nat /\ Bounded(f[e.args[i]], w[e.args[i]])
  PROVE  Bounded(ValueAt(w, x, f, e), WidthAt(iw, w, e))
<1>1. e.n \in Nat
  BY ExprFacts
<1>2. \A n \in Nat : Pow2[n] \in Nat /\ Pow2[n] >= 1
  BY Pow2Grows
<1>3. Pow2[0] = 1 /\ Pow2[1] = 2
  BY Pow2Is
<1>4. CASE e.op = "int"
  BY <1>1, <1>4, BitsOfIs, ValueCases, WidthCases DEF Bounded
<1>5. CASE e.op = "var"
  BY <1>3, <1>5, ValueCases, WidthCases DEF Bounded, Valued
<1>6. CASE e.op = "cast"
  <2>1. PICK a \in Nat : a = f[e.args[1]]
    BY <1>6, OperandsOf DEF Bounded
  <2>2. PICK m \in Nat : m = Pow2[e.n] /\ m >= 1
    BY <1>1, <1>2
  <2>3. a % m \in Nat /\ a % m < m
    BY <2>2
  <2> QED
    BY <1>6, <2>1, <2>2, <2>3, ValueCases, WidthCases DEF Bounded
<1>7. CASE e.op \in {"bool", "lt"}
  BY <1>3, <1>7, ValueCases, WidthCases DEF Bit, Bounded
<1>8. CASE e.op \in {"plus", "query", "not", "concat"}
  <2> DEFINE a == f[e.args[1]]
             b == f[e.args[2]]
             c == f[e.args[3]]
             l == w[e.args[1]]
             m == w[e.args[2]]
             n == w[e.args[3]]
  <2>1. a \in Nat /\ l \in Nat /\ a < Pow2[l]
    BY <1>8, OperandsOf DEF Bounded
  <2>2. e.op # "not" => b \in Nat /\ m \in Nat /\ b < Pow2[m]
    BY <1>8, OperandsOf DEF Bounded
  <2>3. e.op = "query" => c \in Nat /\ n \in Nat /\ c < Pow2[n]
    BY <1>8, OperandsOf DEF Bounded
  <2>4. /\ e.op = "plus" => /\ ValueAt(w, x, f, e) = a + b
                            /\ WidthAt(iw, w, e) = 1 + Larger(l, m)
        /\ e.op = "query" => /\ ValueAt(w, x, f, e) = IF a # 0 THEN b ELSE c
                             /\ WidthAt(iw, w, e) = Larger(m, n)
        /\ e.op = "not" => /\ ValueAt(w, x, f, e) = Pow2[l] - 1 - a
                           /\ WidthAt(iw, w, e) = l
        /\ e.op = "concat" => /\ ValueAt(w, x, f, e) = a * Pow2[m] + b
                              /\ WidthAt(iw, w, e) = l + m
    BY <1>8, ValueCases, WidthCases
  <2> HIDE DEF a, b, c, l, m, n
  <2>5. CASE e.op = "plus"
    <3>1. PICK k \in Nat : k = Larger(l, m) /\ l <= k /\ m <= k
      BY <2>1, <2>2, <2>5 DEF Larger
    <3>2. a < Pow2[k] /\ b < Pow2[k] /\ a \in Nat /\ b \in Nat
      BY <2>1, <2>2, <2>5, <3>1, MoreBits
    <3>3. Pow2[1 + k] = 2 * Pow2[k] /\ Pow2[k] \in Nat
      <4>1. 1 + k = k + 1
        OBVIOUS
      <4> QED
        BY <4>1, Pow2Is, <1>2
    <3>4. a + b \in Nat /\ a + b < Pow2[1 + k]
      BY <3>2, <3>3
    <3> QED
      BY <2>4, <2>5, <3>1, <3>4 DEF Bounded
  <2>6. CASE e.op = "query"
    <3>1. PICK k \in Nat : k = Larger(m, n) /\ m <= k /\ n <= k
      BY <2>2, <2>3, <2>6 DEF Larger
    <3>2. b < Pow2[k] /\ c < Pow2[k] /\ b \in Nat /\ c \in Nat
      BY <2>2, <2>3, <2>6, <3>1, MoreBits
    <3> QED
      BY <2>4, <2>6, <3>1, <3>2 DEF Bounded
  <2>7. CASE e.op = "not"
    <3>1. Pow2[l] \in Nat
      BY <2>1, <1>2
    <3>2. Pow2[l] - 1 - a \in Nat /\ Pow2[l] - 1 - a < Pow2[l]
      BY <2>1, <3>1
    <3> QED
      BY <2>4, <2>7, <3>2 DEF Bounded
  <2>8. CASE e.op = "concat"
    <3>1. a * Pow2[m] + b \in Nat /\ a * Pow2[m] + b < Pow2[l + m]
      BY <2>1, <2>2, <2>8, BitsJoined
    <3> QED
      BY <2>4, <2>8, <3>1 DEF Bounded
  <2> QED
    BY <1>8, <2>5, <2>6, <2>7, <2>8
<1> QED
  BY <1>4, <1>5, <1>6, <1>7, <1>8, OperandsOf

\* A value fits in the width of its expression.
LEMMA ValueBounded ==
  ASSUME NEW iw, Given(iw), NEW x, Valued(iw, x), NEW e \in Exprs
  PROVE  ValueOf(iw, x)[e] \in Nat /\ ValueOf(iw, x)[e] < Pow2[WidthOf(iw)[e]]
<1> DEFINE v == ValueOf(iw, x)
           w == WidthOf(iw)
           Bad == {y \in Exprs : ~Bounded(v[y], w[y])}
<1>1. \A y \in Exprs : /\ v[y] = ValueAt(w, x, v, y) /\ w[y] = WidthAt(iw, w, y)
                       /\ w[y] \in Nat
  BY ValueIs, WidthIs
<1>2. Bad = {}
  <2> HIDE DEF v, w
  <2>1. ASSUME NEW y \in Bad PROVE \E i \in DOMAIN y.args : y.args[i] \in Bad
    <3> SUFFICES ASSUME \A i \in DOMAIN y.args : y.args[i] \notin Bad PROVE FALSE
      OBVIOUS
    <3>1. \A i \in DOMAIN y.args : w[y.args[i]] \in Nat /\ Bounded(v[y.args[i]], w[y.args[i]])
      BY <1>1, OperandsOf
    <3>2. Bounded(ValueAt(w, x, v, y), WidthAt(iw, w, y))
      BY <3>1, BoundAt
    <3> QED
      BY <1>1, <3>2
  <2>2. Bad \in SUBSET Exprs
    OBVIOUS
  <2> HIDE DEF Bad
  <2> QED
    BY <2>1, <2>2, ExprInduction
<1> QED
  BY <1>2 DEF Bounded

-----------------------------------------------------------------------------
(* When a width is enough. *)

\* Whether w bits get an expression right, from whether they get its operands.
ExactAt(wd, w, f, e) ==
  \/ e.op \in {"int", "var"}
  \/ e.op = "plus" /\ wd[e] <= w /\ f[e.args[1]] /\ f[e.args[2]]
  \/ e.op = "lt" /\ f[e.args[1]] /\ f[e.args[2]]
  \/ e.op = "cast" /\ wd[e.args[1]] <= e.n /\ f[e.args[1]]
  \/ e.op = "not" /\ wd[e] <= w /\ e.args[1].op = "var"
  \/ e.op = "concat" /\ wd[e] <= w /\ \A i \in {1, 2} : e.args[i].op = "var"
  \/ e.op = "bool" /\ w = 1 /\ wd[e.args[1]] = 1 /\ f[e.args[1]]

\* Whether w bits keep the low bits of an expression, from whether they do of its operands.
KeepsAt(wd, w, ex, ex1, f, e) ==
  \/ e.op \in {"int", "var"}
  \/ e.op = "plus" /\ f[e.args[1]] /\ f[e.args[2]]
  \/ e.op = "lt" /\ \A i \in {1, 2} : ex[e.args[i]]
  \/ e.op = "cast" /\ (wd[e.args[1]] <= e.n \/ w <= e.n) /\ f[e.args[1]]
  \/ e.op = "not" /\ e.args[1].op = "var"
  \/ e.op = "concat" /\ \A i \in {1, 2} : e.args[i].op = "var"
  \/ e.op = "query" /\ ex1[e.args[1]] /\ f[e.args[2]] /\ f[e.args[3]]
  \/ e.op = "bool" /\ ex[e]

\* Whether w bits are exact depends on the operands only.
LEMMA ExactSame ==
  ASSUME NEW wd, NEW w, NEW e \in Exprs, NEW f, NEW g,
         \A i \in DOMAIN e.args : f[e.args[i]] = g[e.args[i]]
  PROVE  ExactAt(wd, w, f, e) = ExactAt(wd, w, g, e)
<1>1. e.op \in {"plus", "lt"} => f[e.args[1]] = g[e.args[1]] /\ f[e.args[2]] = g[e.args[2]]
  BY OperandsOf
<1>2. e.op \in {"cast", "bool"} => f[e.args[1]] = g[e.args[1]]
  BY OperandsOf
<1> QED
  BY <1>1, <1>2 DEF ExactAt

\* The recursion of Exact has a solution, so Exact is what its body says.
LEMMA ExactIs ==
  ASSUME NEW iw, NEW w, NEW e \in Exprs
  PROVE  /\ Exact(iw, w)[e] = ExactAt(WidthOf(iw), w, Exact(iw, w), e)
         /\ Exact(iw, w)[e] \in BOOLEAN
<1> DEFINE Of(f) == [y \in Exprs |-> ExactAt(WidthOf(iw), w, f, y)]
           next == [f \in [Exprs -> BOOLEAN] |-> Of(f)]
           v == Exact(iw, w)
<1>1. \E f : f = Of(f)
  <2>2. OverOperands(BOOLEAN, next)
    <3>1. \A f, y : ExactAt(WidthOf(iw), w, f, y) \in BOOLEAN
      BY DEF ExactAt
    <3> QED
      BY <3>1, ExactSame DEF OverOperands
  <2>3. PICK f \in [Exprs -> BOOLEAN] : f = next[f]
    <3> HIDE DEF next
    <3> QED
      BY <2>2, ExprRecursion
  <2> QED
    BY <2>3
<1>2. v = CHOOSE f : f = Of(f)
  BY DEF Exact, ExactAt
<1>3. v = Of(v)
  <2> HIDE DEF Of, v
  <2> QED
    BY <1>1, <1>2
<1>4. \A y \in Exprs : v[y] = ExactAt(WidthOf(iw), w, v, y)
  <2> HIDE DEF v
  <2> QED
    BY <1>3
<1> QED
  BY <1>4 DEF ExactAt

\* Whether w bits are kept depends on the operands only.
LEMMA KeepsSame ==
  ASSUME NEW wd, NEW w, NEW ex, NEW ex1, NEW e \in Exprs, NEW f, NEW g,
         \A i \in DOMAIN e.args : f[e.args[i]] = g[e.args[i]]
  PROVE  KeepsAt(wd, w, ex, ex1, f, e) = KeepsAt(wd, w, ex, ex1, g, e)
<1>1. e.op \in {"plus", "query"} => f[e.args[1]] = g[e.args[1]] /\ f[e.args[2]] = g[e.args[2]]
  BY OperandsOf
<1>2. e.op = "cast" => f[e.args[1]] = g[e.args[1]]
  BY OperandsOf
<1>3. e.op = "query" => f[e.args[3]] = g[e.args[3]]
  BY OperandsOf
<1> QED
  BY <1>1, <1>2, <1>3 DEF KeepsAt

\* The recursion of Keeps has a solution, so Keeps is what its body says.
LEMMA KeepsIs ==
  ASSUME NEW iw, NEW w, NEW e \in Exprs
  PROVE  Keeps(iw, w)[e] = KeepsAt(WidthOf(iw), w, Exact(iw, w), Exact(iw, 1), Keeps(iw, w), e)
<1> DEFINE Of(f) == [y \in Exprs |->
                       KeepsAt(WidthOf(iw), w, Exact(iw, w), Exact(iw, 1), f, y)]
           next == [f \in [Exprs -> BOOLEAN] |-> Of(f)]
           v == Keeps(iw, w)
<1>1. \E f : f = Of(f)
  <2>2. OverOperands(BOOLEAN, next)
    <3>1. \A f, y : KeepsAt(WidthOf(iw), w, Exact(iw, w), Exact(iw, 1), f, y) \in BOOLEAN
      BY DEF KeepsAt
    <3> QED
      BY <3>1, KeepsSame DEF OverOperands
  <2>3. PICK f \in [Exprs -> BOOLEAN] : f = next[f]
    <3> HIDE DEF next
    <3> QED
      BY <2>2, ExprRecursion
  <2> QED
    BY <2>3
<1>2. v = CHOOSE f : f = Of(f)
  BY DEF Keeps, KeepsAt
<1>3. v = Of(v)
  <2> HIDE DEF Of, v
  <2> QED
    BY <1>1, <1>2
<1>4. \A y \in Exprs : v[y] = KeepsAt(WidthOf(iw), w, Exact(iw, w), Exact(iw, 1), v, y)
  <2> HIDE DEF v
  <2> QED
    BY <1>3
<1> QED
  BY <1>4

\* A value of n bits is its own low n bits.
LEMMA FitsMod ==
  ASSUME NEW n \in Nat, NEW v \in Nat, v < Pow2[n]
  PROVE  v % Pow2[n] = v
<1>1. PICK m \in Nat : m = Pow2[n] /\ m >= 1
  BY Pow2Grows
<1>2. v \in Int /\ 0 <= v /\ v < m
  BY <1>1
<1>3. v % m = v
  BY <1>1, <1>2, ModIs
<1> QED
  BY <1>1, <1>3

\* The low m bits of the low n bits.
LEMMA FewerBits ==
  ASSUME NEW m \in Nat, NEW n \in Nat, m <= n, NEW v \in Int
  PROVE  (v % Pow2[n]) % Pow2[m] = v % Pow2[m]
<1>1. PICK c \in Nat : Pow2[n] = c * Pow2[m]
  BY Pow2Multiple
<1>2. PICK p \in Nat : p = Pow2[n] /\ p >= 1
  BY Pow2Grows
<1>3. PICK k \in Nat : k = Pow2[m] /\ k >= 1
  BY Pow2Grows
<1>4. p = c * k
  BY <1>1, <1>2, <1>3
<1>5. (v % p) % k = v % k
  BY <1>2, <1>3, <1>4, ModMod
<1> QED
  BY <1>2, <1>3, <1>5

\* What is left of a value by n bits.
LEMMA LowBits ==
  ASSUME NEW n \in Nat, NEW v \in Int
  PROVE  /\ v % Pow2[n] \in Nat /\ v % Pow2[n] < Pow2[n]
         /\ (v % Pow2[n]) % Pow2[n] = v % Pow2[n]
<1>1. PICK m \in Nat : m = Pow2[n] /\ m >= 1
  BY Pow2Grows
<1>2. v % m \in Nat /\ v % m < m
  BY <1>1, ModIs
<1>3. (v % Pow2[n]) % Pow2[n] = v % Pow2[n]
  BY FewerBits
<1> QED
  BY <1>1, <1>2, <1>3

\* What is exact has its low bits right.
LEMMA ExactKeeps ==
  ASSUME NEW iw, NEW w, NEW e \in Exprs, Exact(iw, w)[e]
  PROVE  Keeps(iw, w)[e]
<1> DEFINE Bad == {y \in Exprs : Exact(iw, w)[y] /\ ~Keeps(iw, w)[y]}
<1>1. ASSUME NEW y \in Bad PROVE \E i \in DOMAIN y.args : y.args[i] \in Bad
  <2> SUFFICES ASSUME \A i \in DOMAIN y.args : y.args[i] \notin Bad PROVE FALSE
    OBVIOUS
  <2>1. ExactAt(WidthOf(iw), w, Exact(iw, w), y)
    BY ExactIs
  <2>2. \A i \in DOMAIN y.args : Exact(iw, w)[y.args[i]] => Keeps(iw, w)[y.args[i]]
    BY OperandsOf
  <2>3. KeepsAt(WidthOf(iw), w, Exact(iw, w), Exact(iw, 1), Keeps(iw, w), y)
    <3>1. CASE y.op = "plus"
      BY <2>1, <2>2, <3>1, OperandsOf DEF ExactAt, KeepsAt
    <3>2. CASE y.op = "cast"
      BY <2>1, <2>2, <3>2, OperandsOf DEF ExactAt, KeepsAt
    <3>3. CASE y.op \notin {"plus", "cast"}
      BY <2>1, <3>3 DEF ExactAt, KeepsAt
    <3> QED
      BY <3>1, <3>2, <3>3
  <2> QED
    BY <2>3, KeepsIs
<1>2. Bad \in SUBSET Exprs
  OBVIOUS
<1>3. Bad = {}
  <2> HIDE DEF Bad
  <2> QED
    BY <1>1, <1>2, ExprInduction
<1> QED
  BY <1>3

\* r is as good a value of e as w bits give.
Held(iw, x, w, e, r) ==
  /\ Keeps(iw, w)[e] => r \in Nat /\ r % Pow2[w] = ValueOf(iw, x)[e] % Pow2[w]
  /\ Exact(iw, w)[e] => r = ValueOf(iw, x)[e]

\* The value itself is.
LEMMA ValueHeld ==
  ASSUME NEW iw, Given(iw), NEW x, Valued(iw, x), NEW w, NEW e \in Exprs
  PROVE  Held(iw, x, w, e, ValueOf(iw, x)[e])
BY ValueBounded DEF Held

\* What is under the casts is as good a value of all.
LEMMA CastHeld ==
  ASSUME NEW iw, Given(iw), NEW x, Valued(iw, x), NEW w \in Nat, NEW r, NEW e \in Exprs,
         Held(iw, x, w, UnderCasts[e], r)
  PROVE  Held(iw, x, w, e, r)
<1> DEFINE v == ValueOf(iw, x)
           Bad == {y \in Exprs : Held(iw, x, w, UnderCasts[y], r) /\ ~Held(iw, x, w, y, r)}
<1>1. ASSUME NEW y \in Bad PROVE \E i \in DOMAIN y.args : y.args[i] \in Bad
  <2> SUFFICES ASSUME \A i \in DOMAIN y.args : y.args[i] \notin Bad PROVE FALSE
    OBVIOUS
  <2>0. y \in Exprs
    OBVIOUS
  <2>1. y.op \in {"cast", "bool"} /\ UnderCasts[y] = UnderCasts[y.args[1]]
    BY UnderCastsOf
  <2>2. DOMAIN y.args = {1} /\ y.args[1] \in Exprs
    BY <2>1, OperandsOf
  <2> DEFINE d == y.args[1]
  <2>3. Held(iw, x, w, d, r)
    BY <2>1, <2>2
  <2>4. /\ v[d] \in Nat /\ v[d] < Pow2[WidthOf(iw)[d]] /\ v[y] = ValueAt(WidthOf(iw), x, v, y)
        /\ WidthOf(iw)[d] \in Nat
    BY <2>2, ValueBounded, ValueIs, WidthIs
  <2>5. /\ ExactAt(WidthOf(iw), w, Exact(iw, w), y) <=> Exact(iw, w)[y]
        /\ KeepsAt(WidthOf(iw), w, Exact(iw, w), Exact(iw, 1), Keeps(iw, w), y) <=>
             Keeps(iw, w)[y]
    BY ExactIs, KeepsIs
  <2> HIDE DEF v, Bad
  <2>6. CASE y.op = "cast"
    <3>1. PICK n \in Nat : n = y.n
      BY <2>0, ExprFacts
    <3>2. v[y] = v[d] % Pow2[n]
      BY <2>0, <2>4, <2>6, <3>1, ValueCases
    <3>3. WidthOf(iw)[d] <= n => v[y] = v[d]
      <4> HAVE WidthOf(iw)[d] <= n
      <4>1. v[d] < Pow2[n]
        BY <2>4, MoreBits
      <4> QED
        BY <2>4, <3>2, <4>1, FitsMod
    <3>4. w <= n => v[y] % Pow2[w] = v[d] % Pow2[w]
      <4> HAVE w <= n
      <4>1. (v[d] % Pow2[n]) % Pow2[w] = v[d] % Pow2[w]
        BY <2>4, FewerBits
      <4> QED
        BY <3>2, <4>1
    <3>5. Exact(iw, w)[y] => Exact(iw, w)[d] /\ WidthOf(iw)[d] <= n
      BY <2>5, <2>6, <3>1 DEF ExactAt
    <3>6. Keeps(iw, w)[y] => Keeps(iw, w)[d] /\ (WidthOf(iw)[d] <= n \/ w <= n)
      BY <2>5, <2>6, <3>1 DEF KeepsAt
    <3>7. Held(iw, x, w, y, r)
      BY <2>3, <3>3, <3>4, <3>5, <3>6 DEF Held, v
    <3> QED
      BY <3>7 DEF Bad
  <2>7. CASE y.op = "bool"
    <3>1. Keeps(iw, w)[y] => Exact(iw, w)[y]
      BY <2>5, <2>7 DEF KeepsAt
    <3>2. Exact(iw, w)[y] => Exact(iw, w)[d] /\ WidthOf(iw)[d] = 1
      BY <2>5, <2>7 DEF ExactAt
    <3>3. v[y] = Bit(v[d] # 0)
      BY <2>0, <2>4, <2>7, ValueCases
    <3>4. Pow2[1] = 2
      BY Pow2Is
    <3>5. WidthOf(iw)[d] = 1 => v[y] = v[d]
      BY <2>4, <3>3, <3>4 DEF Bit
    <3>6. Held(iw, x, w, y, r)
      BY <2>3, <2>4, <3>1, <3>2, <3>5 DEF Held, v
    <3> QED
      BY <3>6 DEF Bad
  <2> QED
    BY <2>1, <2>6, <2>7
<1>2. Bad \in SUBSET Exprs
  OBVIOUS
<1>3. Bad = {}
  <2> HIDE DEF Bad
  <2> QED
    BY <1>1, <1>2, ExprInduction
<1> QED
  BY <1>3

-----------------------------------------------------------------------------
(* One operator in a given width. *)

\* The width in which an operand is calculated: the condition of a query has one
\* bit, the others that of the whole.
OperandWidth(e, V, i) == IF e.op = "query" /\ i = 1 THEN 1 ELSE V

\* A sum has the low bits that those of its operands give.
LEMMA SumBits ==
  ASSUME NEW n \in Nat, NEW a \in Int, NEW b \in Int, NEW c \in Int, NEW d \in Int,
         a % Pow2[n] = c % Pow2[n], b % Pow2[n] = d % Pow2[n]
  PROVE  (a + b) % Pow2[n] = (c + d) % Pow2[n]
<1>1. PICK m \in Nat : m = Pow2[n] /\ m >= 1
  BY Pow2Grows
<1>2. (a + b) % m = ((a % m) + (b % m)) % m
  BY <1>1, ModSum
<1>3. (c + d) % m = ((c % m) + (d % m)) % m
  BY <1>1, ModSum
<1> QED
  BY <1>1, <1>2, <1>3

\* The same, for a value that is exact.
LEMMA HeldExact ==
  ASSUME NEW iw, Given(iw), NEW x, Valued(iw, x), NEW V \in Nat, NEW e \in Exprs, NEW r \in Int,
         Keeps(iw, V)[e] => r % Pow2[V] = ValueOf(iw, x)[e] % Pow2[V],
         Exact(iw, V)[e] => r = ValueOf(iw, x)[e] /\ r < Pow2[V]
  PROVE  Held(iw, x, V, e, r % Pow2[V])
<1>1. r % Pow2[V] \in Nat
  BY LowBits
<1>2. (r % Pow2[V]) % Pow2[V] = r % Pow2[V]
  BY LowBits
<1>3. Exact(iw, V)[e] => r % Pow2[V] = ValueOf(iw, x)[e]
  <2> HAVE Exact(iw, V)[e]
  <2>1. r \in Nat /\ r < Pow2[V]
    BY ValueBounded
  <2> QED
    BY <2>1, FitsMod
<1> QED
  BY <1>1, <1>2, <1>3 DEF Held

\* A statement on operands that are right gives a right result.
LEMMA StatementHeld ==
  ASSUME NEW iw, Given(iw), NEW x, Valued(iw, x), NEW V \in Nat, V >= 1, NEW e \in Exprs,
         e.op \in Operators \cup {"query", "concat"}, NEW v, NEW w,
         \A i \in DOMAIN e.args : Held(iw, x, OperandWidth(e, V, i), e.args[i], v[i]),
         \A i \in DOMAIN e.args : e.args[i].op = "var" => w[i] = WidthOf(iw)[e.args[i]]
  PROVE  Held(iw, x, V, e, Apply(e.op, v, w) % Pow2[V])
<1> DEFINE val == ValueOf(iw, x)
           wd == WidthOf(iw)
           d(i) == e.args[i]
<1>1. /\ ExactAt(wd, V, Exact(iw, V), e) <=> Exact(iw, V)[e]
      /\ KeepsAt(wd, V, Exact(iw, V), Exact(iw, 1), Keeps(iw, V), e) <=> Keeps(iw, V)[e]
  BY ExactIs, KeepsIs
<1>2. /\ val[e] = ValueAt(wd, x, val, e) /\ val[e] \in Nat /\ val[e] < Pow2[wd[e]]
      /\ wd[e] \in Nat
  BY ValueIs, ValueBounded, WidthIs
<1>3. ASSUME NEW i \in DOMAIN e.args
      PROVE  /\ val[e.args[i]] \in Nat /\ val[e.args[i]] < Pow2[wd[e.args[i]]]
             /\ wd[e.args[i]] \in Nat
             /\ e.args[i].op = "var" => \A n : Exact(iw, n)[e.args[i]]
  <2>1. e.args[i] \in Exprs
    BY OperandsOf
  <2>2. e.args[i].op = "var" => \A n : ExactAt(wd, n, Exact(iw, n), e.args[i])
    BY DEF ExactAt
  <2> QED
    BY <2>1, <2>2, ValueBounded, WidthIs, ExactIs
<1>4. ASSUME wd[e] <= V PROVE val[e] < Pow2[V]
  BY <1>2, <1>4, MoreBits
<1>5. Pow2[1] = 2 /\ 2 <= Pow2[V] /\ Pow2[V] \in Nat
  <2>1. Pow2[1] <= Pow2[V]
    BY Pow2Multiple
  <2> QED
    BY <2>1, Pow2Is, Pow2Grows
<1> HIDE DEF val, wd
<1>6. CASE e.op = "plus"
  <2>1. DOMAIN e.args = {1, 2}
    BY <1>6, OperandsOf
  <2>2. /\ Held(iw, x, V, e.args[1], v[1]) /\ Held(iw, x, V, e.args[2], v[2])
    BY <1>6, <2>1 DEF OperandWidth
  <2>3. val[e] = val[e.args[1]] + val[e.args[2]]
    BY <1>2, <1>6, ValueCases
  <2>4. Apply(e.op, v, w) = v[1] + v[2]
    BY <1>6 DEF Apply
  <2>5. ASSUME Keeps(iw, V)[e] 
        PROVE  v[1] + v[2] \in Int /\ (v[1] + v[2]) % Pow2[V] = val[e] % Pow2[V]
    <3>1. Keeps(iw, V)[e.args[1]] /\ Keeps(iw, V)[e.args[2]]
      BY <1>1, <1>6, <2>5 DEF KeepsAt
    <3>2. /\ v[1] \in Nat /\ v[1] % Pow2[V] = val[e.args[1]] % Pow2[V]
          /\ v[2] \in Nat /\ v[2] % Pow2[V] = val[e.args[2]] % Pow2[V]
      BY <2>2, <3>1 DEF Held, val
    <3>3. val[e.args[1]] \in Int /\ val[e.args[2]] \in Int
      BY <1>3, <2>1
    <3>4. (v[1] + v[2]) % Pow2[V] = (val[e.args[1]] + val[e.args[2]]) % Pow2[V]
      <4>1. PICK a \in Int : a = v[1]
        BY <3>2
      <4>2. PICK b \in Int : b = v[2]
        BY <3>2
      <4>3. PICK c \in Int : c = val[e.args[1]]
        BY <3>3
      <4>4. PICK k \in Int : k = val[e.args[2]]
        BY <3>3
      <4>5. a % Pow2[V] = c % Pow2[V] /\ b % Pow2[V] = k % Pow2[V]
        BY <3>2, <4>1, <4>2, <4>3, <4>4
      <4>6. (a + b) % Pow2[V] = (c + k) % Pow2[V]
        BY ONLY V \in Nat, <4>5, SumBits
      <4> QED
        BY <4>1, <4>2, <4>3, <4>4, <4>6
    <3> QED
      BY <2>3, <3>2, <3>4
  <2>6. ASSUME Exact(iw, V)[e] PROVE v[1] + v[2] = val[e] /\ v[1] + v[2] < Pow2[V]
    <3>1. Exact(iw, V)[e.args[1]] /\ Exact(iw, V)[e.args[2]] /\ wd[e] <= V
      BY <1>1, <1>6, <2>6 DEF ExactAt
    <3>2. v[1] = val[e.args[1]] /\ v[2] = val[e.args[2]]
      BY <2>2, <3>1 DEF Held, val
    <3>3. val[e] < Pow2[V]
      BY <1>4, <3>1
    <3>4. v[1] + v[2] = val[e]
      BY <2>3, <3>2
    <3> QED
      BY <3>3, <3>4
  <2>7. CASE Keeps(iw, V)[e]
    <3>1. Held(iw, x, V, e, (v[1] + v[2]) % Pow2[V])
      BY <2>5, <2>6, <2>7, HeldExact DEF val
    <3> QED
      BY <2>4, <3>1
  <2>8. CASE ~Keeps(iw, V)[e]
    BY <2>8, ExactKeeps DEF Held
  <2> QED
    BY <2>7, <2>8
<1>7. CASE e.op = "lt"
  <2>1. DOMAIN e.args = {1, 2}
    BY <1>7, OperandsOf
  <2>2. /\ Held(iw, x, V, e.args[1], v[1]) /\ Held(iw, x, V, e.args[2], v[2])
    BY <1>7, <2>1 DEF OperandWidth
  <2>3. val[e] = Bit(val[e.args[1]] < val[e.args[2]])
    BY <1>2, <1>7, ValueCases
  <2>4. Apply(e.op, v, w) = Bit(v[1] < v[2])
    BY <1>7 DEF Apply
  <2>5. CASE Keeps(iw, V)[e]
    <3>1. Exact(iw, V)[e.args[1]] /\ Exact(iw, V)[e.args[2]]
      BY <1>1, <1>7, <2>5 DEF KeepsAt
    <3>2. v[1] = val[e.args[1]] /\ v[2] = val[e.args[2]]
      BY <2>2, <3>1 DEF Held, val
    <3>3. Bit(v[1] < v[2]) = val[e]
      BY <2>3, <3>2
    <3>4. Bit(v[1] < v[2]) \in Int /\ Bit(v[1] < v[2]) < Pow2[V]
      BY <1>5 DEF Bit
    <3>5. Held(iw, x, V, e, Bit(v[1] < v[2]) % Pow2[V])
      BY <3>3, <3>4, HeldExact DEF val
    <3> QED
      BY <2>4, <3>5
  <2>6. CASE ~Keeps(iw, V)[e]
    BY <2>6, ExactKeeps DEF Held
  <2> QED
    BY <2>5, <2>6
<1>8. CASE e.op = "not"
  <2>1. DOMAIN e.args = {1}
    BY <1>8, OperandsOf
  <2>2. Held(iw, x, V, e.args[1], v[1])
    BY <1>8, <2>1 DEF OperandWidth
  <2>3. val[e] = Pow2[wd[e.args[1]]] - 1 - val[e.args[1]]
    BY <1>2, <1>8, ValueCases
  <2>4. Apply(e.op, v, w) = Pow2[w[1]] - 1 - v[1]
    BY <1>8 DEF Apply
  <2>5. CASE Keeps(iw, V)[e]
    <3>1. e.args[1].op = "var"
      BY <1>1, <1>8, <2>5 DEF KeepsAt
    <3>2. v[1] = val[e.args[1]] /\ w[1] = wd[e.args[1]]
      BY <1>3, <2>1, <2>2, <3>1 DEF Held, val, wd
    <3>3. Apply(e.op, v, w) = val[e]
      BY <2>3, <2>4, <3>2
    <3>4. Exact(iw, V)[e] => val[e] < Pow2[V]
      BY <1>1, <1>4, <1>8 DEF ExactAt
    <3>5. Held(iw, x, V, e, val[e] % Pow2[V])
      BY <1>2, <3>4, HeldExact DEF val
    <3> QED
      BY <3>3, <3>5
  <2>6. CASE ~Keeps(iw, V)[e]
    BY <2>6, ExactKeeps DEF Held
  <2> QED
    BY <2>5, <2>6
<1>9. CASE e.op = "concat"
  <2>1. DOMAIN e.args = {1, 2}
    BY <1>9, OperandsOf
  <2>2. /\ Held(iw, x, V, e.args[1], v[1]) /\ Held(iw, x, V, e.args[2], v[2])
    BY <1>9, <2>1 DEF OperandWidth
  <2>3. val[e] = val[e.args[1]] * Pow2[wd[e.args[2]]] + val[e.args[2]]
    BY <1>2, <1>9, ValueCases
  <2>4. Apply(e.op, v, w) = v[1] * Pow2[w[2]] + v[2]
    BY <1>9 DEF Apply
  <2>5. CASE Keeps(iw, V)[e]
    <3>1. e.args[1].op = "var" /\ e.args[2].op = "var"
      BY <1>1, <1>9, <2>5 DEF KeepsAt
    <3>2. v[1] = val[e.args[1]] /\ v[2] = val[e.args[2]] /\ w[2] = wd[e.args[2]]
      BY <1>3, <2>1, <2>2, <3>1 DEF Held, val, wd
    <3>3. Apply(e.op, v, w) = val[e]
      BY <2>3, <2>4, <3>2
    <3>4. Exact(iw, V)[e] => val[e] < Pow2[V]
      BY <1>1, <1>4, <1>9 DEF ExactAt
    <3>5. Held(iw, x, V, e, val[e] % Pow2[V])
      BY <1>2, <3>4, HeldExact DEF val
    <3> QED
      BY <3>3, <3>5
  <2>6. CASE ~Keeps(iw, V)[e]
    BY <2>6, ExactKeeps DEF Held
  <2> QED
    BY <2>5, <2>6
<1>10. CASE e.op = "query"
  <2>1. DOMAIN e.args = {1, 2, 3}
    BY <1>10, OperandsOf
  <2>2. /\ Held(iw, x, 1, e.args[1], v[1]) /\ Held(iw, x, V, e.args[2], v[2])
        /\ Held(iw, x, V, e.args[3], v[3])
    BY <1>10, <2>1 DEF OperandWidth
  <2>3. val[e] = IF val[e.args[1]] # 0 THEN val[e.args[2]] ELSE val[e.args[3]]
    BY <1>2, <1>10, ValueCases
  <2>4. Apply(e.op, v, w) = IF v[1] # 0 THEN v[2] ELSE v[3]
    BY <1>10 DEF Apply
  <2>5. CASE Keeps(iw, V)[e]
    <3>1. Exact(iw, 1)[e.args[1]] /\ Keeps(iw, V)[e.args[2]] /\ Keeps(iw, V)[e.args[3]]
      BY <1>1, <1>10, <2>5 DEF KeepsAt
    <3>2. /\ v[1] = val[e.args[1]]
          /\ v[2] \in Nat /\ v[2] % Pow2[V] = val[e.args[2]] % Pow2[V]
          /\ v[3] \in Nat /\ v[3] % Pow2[V] = val[e.args[3]] % Pow2[V]
      BY <2>2, <3>1 DEF Held, val
    <3>3. ~Exact(iw, V)[e]
      BY <1>1, <1>10 DEF ExactAt
    <3>4. PICK r \in Nat : r = (IF v[1] # 0 THEN v[2] ELSE v[3])
      BY <3>2
    <3>5. r % Pow2[V] = val[e] % Pow2[V]
      BY <2>3, <3>2, <3>4
    <3>6. Held(iw, x, V, e, r % Pow2[V])
      BY <3>3, <3>5, HeldExact DEF val
    <3> QED
      BY <2>4, <3>4, <3>6
  <2>6. CASE ~Keeps(iw, V)[e]
    BY <2>6, ExactKeeps DEF Held
  <2> QED
    BY <2>5, <2>6
<1> QED
  BY <1>6, <1>7, <1>8, <1>9, <1>10 DEF Operators

-----------------------------------------------------------------------------
(* A program that is labelled is right. *)

\* What is under the casts is no cast.
LEMMA UnderCastsType ==
  ASSUME NEW e \in Exprs
  PROVE  UnderCasts[e] \in Exprs /\ UnderCasts[e].op \notin {"cast", "bool"}
<1> DEFINE Bad == {y \in Exprs : ~(/\ UnderCasts[y] \in Exprs
                                   /\ UnderCasts[y].op \notin {"cast", "bool"})}
<1>1. ASSUME NEW y \in Bad PROVE \E i \in DOMAIN y.args : y.args[i] \in Bad
  <2>1. y.op \in {"cast", "bool"} /\ UnderCasts[y] = UnderCasts[y.args[1]]
    BY UnderCastsOf
  <2>2. 1 \in DOMAIN y.args /\ y.args[1] \in Exprs
    BY <2>1, OperandsOf
  <2> QED
    BY <2>1, <2>2
<1>2. Bad \in SUBSET Exprs
  OBVIOUS
<1>3. Bad = {}
  <2> HIDE DEF Bad
  <2> QED
    BY <1>1, <1>2, ExprInduction
<1> QED
  BY <1>3

\* An expression and the width it is calculated in; None of a statement of which
\* nothing is said.
Label == Exprs \X (Nat \ {0})
None == <<>>

\* A label is an expression and a width.
LEMMA LabelIs ==
  ASSUME NEW l \in Label
  PROVE  /\ l[1] \in Exprs /\ l[2] \in Nat /\ l[2] >= 1 /\ l = <<l[1], l[2]>>
         /\ l # None
<1>1. PICK a \in Exprs, b \in Nat \ {0} : l = <<a, b>>
  BY DEF Label
<1>2. Len(<<a, b>>) = 2 /\ Len(<<>>) = 0
  OBVIOUS
<1> QED
  BY <1>1, <1>2 DEF None

\* The name nm has the value of the expression of l, L[k + 1] being what result k
\* is, and al the identifiers of the arguments.
Denotes(L, al, nm, l) ==
  \/ l[1].op = "int" /\ nm = <<"int", l[1].n>>
  \/ l[1].op = "var" /\ nm[1] = "x" /\ nm[2] + 1 \in DOMAIN al /\ al[nm[2] + 1] = l[1].n
  \/ /\ l[1].op \notin {"int", "var"}
     /\ nm[1] = "res" /\ nm[2] + 1 \in DOMAIN L /\ L[nm[2] + 1] = l

\* The operand i of e, calculated for w bits of e.
Operand(e, w, i) == <<UnderCasts[e.args[i]], OperandWidth(e, w, i)>>

\* st copies the identifier of l, or is its operator on its operands.
Means(L, al, st, l) ==
  \/ /\ l[1].op = "var" /\ st.op = "port" /\ DOMAIN st.args = {1}
     /\ Denotes(L, al, st.args[1], l)
  \/ /\ l[1].op \in Operators \cup {"query", "concat"}
     /\ st.op = l[1].op /\ DOMAIN st.args = DOMAIN l[1].args
     /\ \A i \in DOMAIN st.args : Denotes(L, al, st.args[i], Operand(l[1], l[2], i))

\* L says what the statements calculate: a statement that it speaks of assigns its
\* own result, and reads earlier ones.
Labelled(L, calc, rb, al) ==
  /\ calc \in Seq(Statement) /\ L \in Seq(Label \cup {None})
  /\ Len(L) = Len(calc) /\ Len(rb) = Len(calc)
  /\ \A k \in 1 .. Len(calc) : calc[k].to >= k - 1
  /\ \A k \in 1 .. Len(calc) : L[k] # None =>
       /\ calc[k].to = k - 1 /\ rb[k] = L[k][2] /\ Means(L, al, calc[k], L[k])
       /\ \A i \in DOMAIN calc[k].args : calc[k].args[i][1] = "res" => calc[k].args[i][2] < k - 1

\* The arguments al are given the values of x and the widths of iw.
Passed(al, args, argBW, iw, x) ==
  \A i \in DOMAIN al : al[i] \in DOMAIN iw /\ args[i] = x[al[i]] /\ argBW[i] = iw[al[i]]

\* r is as good a value of what l says as its width gives; a copy has its low bits.
Right(iw, x, l, r) ==
  IF l[1].op = "var"
  THEN /\ r \in Nat /\ r < Pow2[l[2]]
       /\ r % Pow2[l[2]] = ValueOf(iw, x)[l[1]] % Pow2[l[2]]
  ELSE Held(iw, x, l[2], l[1], r)

\* A name is read as what it denotes, if the results before it are right.
LEMMA ReadsRight ==
  ASSUME NEW iw, Given(iw), NEW x, Valued(iw, x), NEW L, NEW al, NEW args, NEW argBW, NEW bw,
         Passed(al, args, argBW, iw, x), NEW before,
         NEW l, l[1] \in Exprs, NEW nm \in Name, Denotes(L, al, nm, l),
         nm[1] = "res" => Right(iw, x, l, before[nm[2]])
  PROVE  /\ Held(iw, x, l[2], l[1], Lookup(nm, args, before))
         /\ l[1].op = "var" => Widths(nm, argBW, bw) = WidthOf(iw)[l[1]]
<1>1. CASE l[1].op = "int"
  <2>1. nm = <<"int", l[1].n>>
    BY <1>1 DEF Denotes
  <2>2. Lookup(nm, args, before) = l[1].n
    BY <2>1 DEF Lookup
  <2>3. ValueOf(iw, x)[l[1]] = l[1].n
    BY <1>1, ValueIs, ValueCases
  <2> QED
    BY <1>1, <2>2, <2>3, ValueHeld
<1>2. CASE l[1].op = "var"
  <2>1. nm[1] = "x" /\ nm[2] + 1 \in DOMAIN al /\ al[nm[2] + 1] = l[1].n
    BY <1>2 DEF Denotes
  <2>2. Lookup(nm, args, before) = x[l[1].n] /\ l[1].n \in DOMAIN iw
    BY <2>1 DEF Lookup, Passed
  <2>3. ValueOf(iw, x)[l[1]] = x[l[1].n]
    BY <1>2, <2>2, ValueIs, ValueCases DEF Valued
  <2>4. WidthOf(iw)[l[1]] = iw[l[1].n]
    BY <1>2, <2>2, WidthIs, WidthCases
  <2>5. Widths(nm, argBW, bw) = iw[l[1].n]
    BY <2>1 DEF Widths, Passed
  <2> QED
    BY <2>2, <2>3, <2>4, <2>5, ValueHeld
<1>3. CASE l[1].op \notin {"int", "var"}
  <2>1. nm[1] = "res"
    BY <1>3 DEF Denotes
  <2>2. Lookup(nm, args, before) = before[nm[2]]
    BY <2>1 DEF Lookup
  <2> QED
    BY <1>3, <2>1, <2>2 DEF Right
<1> QED
  BY <1>1, <1>2, <1>3

\* A statement leaves a right result, if those that it reads are right.
LEMMA StatementRight ==
  ASSUME NEW iw, Given(iw), NEW x, Valued(iw, x), NEW L, NEW al, NEW args, NEW argBW, NEW bw,
         Passed(al, args, argBW, iw, x), NEW before,
         NEW st \in Statement, NEW l \in Label, Means(L, al, st, l), bw[st.to] = l[2],
         \A i \in DOMAIN st.args : \A m \in Label :
           (st.args[i][1] = "res" /\ Denotes(L, al, st.args[i], m)) =>
             Right(iw, x, m, before[st.args[i][2]])
  PROVE  Right(iw, x, l, Assigned(st, args, argBW, bw, before))
<1> DEFINE v == [i \in DOMAIN st.args |-> Lookup(st.args[i], args, before)]
           w == [i \in DOMAIN st.args |-> Widths(st.args[i], argBW, bw)]
<1>1. Assigned(st, args, argBW, bw, before) = Apply(st.op, v, w) % Pow2[l[2]]
  BY DEF Assigned
<1>2. \A i \in DOMAIN st.args : st.args[i] \in Name
  <2>1. st.args \in Seq(Name)
    BY DEF Statement
  <2> QED
    BY ONLY <2>1
<1>3. l[1] \in Exprs /\ l[2] \in Nat /\ l[2] >= 1
  BY LabelIs
<1>4. \A i \in DOMAIN st.args : v[i] = Lookup(st.args[i], args, before)
                                /\ w[i] = Widths(st.args[i], argBW, bw)
  OBVIOUS
<1> HIDE DEF v, w
<1>5. CASE l[1].op = "var"
  <2>1. st.op = "port" /\ DOMAIN st.args = {1} /\ Denotes(L, al, st.args[1], l)
    BY <1>5 DEF Means, Operators
  <2>2. st.args[1] \in Name /\ (st.args[1][1] = "res" => Right(iw, x, l, before[st.args[1][2]]))
    BY <1>2, <2>1
  <2>3. Held(iw, x, l[2], l[1], v[1])
    BY <1>3, <1>4, <2>1, <2>2, ReadsRight
  <2>4. Keeps(iw, l[2])[l[1]]
    <3>1. KeepsAt(WidthOf(iw), l[2], Exact(iw, l[2]), Exact(iw, 1), Keeps(iw, l[2]), l[1])
      BY <1>5 DEF KeepsAt
    <3> QED
      BY <1>3, <3>1, KeepsIs
  <2>5. v[1] \in Nat /\ v[1] % Pow2[l[2]] = ValueOf(iw, x)[l[1]] % Pow2[l[2]]
    BY <2>3, <2>4 DEF Held
  <2>6. Apply(st.op, v, w) = v[1]
    BY <2>1 DEF Apply
  <2>7. /\ v[1] % Pow2[l[2]] \in Nat /\ v[1] % Pow2[l[2]] < Pow2[l[2]]
        /\ (v[1] % Pow2[l[2]]) % Pow2[l[2]] = v[1] % Pow2[l[2]]
    <3>1. PICK a \in Int : a = v[1]
      BY <2>5
    <3>2. PICK n \in Nat : n = l[2]
      BY <1>3
    <3>3. a % Pow2[n] \in Nat /\ a % Pow2[n] < Pow2[n] /\ (a % Pow2[n]) % Pow2[n] = a % Pow2[n]
      BY ONLY a \in Int, n \in Nat, LowBits
    <3> QED
      BY <3>1, <3>2, <3>3
  <2> QED
    BY <1>1, <1>5, <2>5, <2>6, <2>7 DEF Right
<1>6. CASE l[1].op \in Operators \cup {"query", "concat"}
  <2>1. /\ st.op = l[1].op /\ DOMAIN st.args = DOMAIN l[1].args
        /\ \A i \in DOMAIN st.args : Denotes(L, al, st.args[i], Operand(l[1], l[2], i))
    BY <1>6 DEF Means, Operators
  <2>2. ASSUME NEW i \in DOMAIN l[1].args
        PROVE  /\ Held(iw, x, OperandWidth(l[1], l[2], i), l[1].args[i], v[i])
               /\ l[1].args[i].op = "var" => w[i] = WidthOf(iw)[l[1].args[i]]
    <3> DEFINE m == Operand(l[1], l[2], i)
    <3>1. /\ l[1].args[i] \in Exprs /\ m[1] = UnderCasts[l[1].args[i]] /\ m[1] \in Exprs
          /\ m[2] = OperandWidth(l[1], l[2], i) /\ m[2] \in Nat /\ m[2] # 0
          /\ m = <<m[1], m[2]>>
      BY <1>3, OperandsOf, UnderCastsType DEF Operand, OperandWidth
    <3>2. m \in Label
      BY <3>1 DEF Label
    <3> HIDE DEF m
    <3>3. st.args[i] \in Name /\ Denotes(L, al, st.args[i], m)
      BY <1>2, <2>1 DEF m
    <3>4. st.args[i][1] = "res" => Right(iw, x, m, before[st.args[i][2]])
      BY <2>1, <3>2, <3>3
    <3>5. Held(iw, x, m[2], m[1], v[i]) /\ (m[1].op = "var" => w[i] = WidthOf(iw)[m[1]])
      BY <1>4, <2>1, <3>1, <3>3, <3>4, ReadsRight
    <3>6. Held(iw, x, m[2], l[1].args[i], v[i])
      BY <3>1, <3>5, CastHeld
    <3>7. l[1].args[i].op = "var" => m[1] = l[1].args[i]
      BY <3>1, UnderCastsOf
    <3> QED
      BY <3>1, <3>5, <3>6, <3>7
  <2>3. Held(iw, x, l[2], l[1], Apply(l[1].op, v, w) % Pow2[l[2]])
    BY <1>3, <1>6, <2>2, StatementHeld
  <2>4. l[1].op # "var"
    BY <1>6 DEF Operators
  <2> QED
    BY <1>1, <2>1, <2>3, <2>4 DEF Right
<1> QED
  BY <1>5, <1>6 DEF Means

\* All results that are spoken of are right.
LEMMA ProgramRight ==
  ASSUME NEW iw, Given(iw), NEW x, Valued(iw, x), NEW L, NEW calc, NEW rb, NEW al,
         Labelled(L, calc, rb, al), NEW args, NEW argBW, Passed(al, args, argBW, iw, x),
         NEW f, Runs(f, Len(calc), calc, args, argBW, BWOf(rb)),
         NEW k \in 1 .. Len(calc), L[k] # None
  PROVE  Right(iw, x, L[k], f[Len(calc)][k - 1])
<1> DEFINE bw == BWOf(rb)
           end == f[Len(calc)]
           Bad == {n \in Nat : /\ n \in 1 .. Len(calc) /\ L[n] # None
                              /\ ~Right(iw, x, L[n], end[n - 1])}
<1>1. /\ calc \in Seq(Statement) /\ Len(calc) \in Nat
      /\ \A n \in 1 .. Len(calc) : calc[n] \in Statement
  <2>1. calc \in Seq(Statement)
    BY DEF Labelled
  <2> QED
    BY <2>1
<1>2. DOMAIN bw = 0 .. Len(calc) - 1 /\ \A n \in 1 .. Len(calc) : bw[n - 1] = rb[n]
  <2>1. Len(rb) = Len(calc)
    BY DEF Labelled
  <2>2. \A n \in 1 .. Len(calc) : n - 1 \in 0 .. Len(calc) - 1 /\ n - 1 + 1 = n
    BY <1>1
  <2> QED
    BY <2>1, <2>2 DEF BWOf
<1> HIDE DEF bw
<1>3. /\ \A n \in 1 .. Len(calc) : calc[n].to = n - 1 =>
           f[n][n - 1] = Assigned(calc[n], args, argBW, bw, f[n - 1])
      /\ \A n \in 1 .. Len(calc) : \A m \in n .. Len(calc) : f[m][n - 1] = f[n][n - 1]
  <2>1. \A n \in 1 .. Len(calc) : calc[n].to >= n - 1
    BY DEF Labelled
  <2>2. Runs(f, Len(calc), calc, args, argBW, bw)
    BY DEF bw
  <2> QED
    BY <1>1, <1>2, <2>1, <2>2, RunKeeps
<1>4. ASSUME NEW n \in 1 .. Len(calc), NEW m \in n .. Len(calc)
      PROVE  f[m][n - 1] = end[n - 1]
  <2>1. Len(calc) \in n .. Len(calc)
    BY <1>1
  <2> QED
    BY <1>3, <2>1
<1>5. Bad = {}
  <2> SUFFICES ASSUME Bad # {} PROVE FALSE
    OBVIOUS
  <2>1. PICK n \in Bad : \A m \in Bad : n <= m
    <3>1. Bad \in SUBSET Nat
      OBVIOUS
    <3> HIDE DEF Bad
    <3> QED
      BY <3>1, SmallestOf
  <2>2. n \in 1 .. Len(calc) /\ L[n] # None
    OBVIOUS
  <2> DEFINE st == calc[n]
             l == L[n]
  <2>3. /\ st.to = n - 1 /\ rb[n] = l[2] /\ Means(L, al, st, l)
        /\ \A i \in DOMAIN st.args : st.args[i][1] = "res" => st.args[i][2] < n - 1
    BY <2>2 DEF Labelled
  <2>4. l \in Label
    <3>1. L \in Seq(Label \cup {None}) /\ Len(L) = Len(calc)
      BY DEF Labelled
    <3> QED
      BY <2>2, <3>1
  <2>5. st \in Statement /\ \A i \in DOMAIN st.args : st.args[i] \in Name
    <3>1. st \in Statement
      BY <1>1, <2>2
    <3>2. st.args \in Seq(Name)
      BY <3>1 DEF Statement
    <3> QED
      BY <3>1, <3>2
  <2>6. ASSUME NEW i \in DOMAIN st.args, NEW m \in Label, st.args[i][1] = "res",
               Denotes(L, al, st.args[i], m)
        PROVE  Right(iw, x, m, f[n - 1][st.args[i][2]])
    <3>1. PICK r \in Nat : r = st.args[i][2] /\ r < n - 1
      BY <2>3, <2>5, <2>6 DEF Name
    <3>2. r + 1 \in 1 .. Len(calc) /\ n - 1 \in r + 1 .. Len(calc) /\ r + 1 - 1 = r /\ ~(n <= r + 1)
      BY <1>1, <2>2, <3>1
    <3>3. m = L[r + 1]
      BY <2>6, <3>1 DEF Denotes
    <3>4. m # None
      BY LabelIs
    <3>5. Right(iw, x, m, end[r])
      <4>1. r + 1 \notin Bad
        BY <2>1, <3>2
      <4>2. r + 1 \in Nat
        OBVIOUS
      <4> HIDE DEF end
      <4> QED
        BY <3>2, <3>3, <3>4, <4>1, <4>2
    <3>6. f[n - 1][r] = end[r]
      BY <1>4, <3>2
    <3> QED
      BY <3>1, <3>5, <3>6
  <2>7. bw[st.to] = l[2]
    BY <1>2, <2>2, <2>3
  <2>8. Right(iw, x, l, Assigned(st, args, argBW, bw, f[n - 1]))
    <3> HIDE DEF st, l, end, Bad
    <3> QED
      BY <2>3, <2>4, <2>5, <2>6, <2>7, StatementRight
  <2>9. end[n - 1] = Assigned(st, args, argBW, bw, f[n - 1])
    <3>1. n \in n .. Len(calc)
      BY <1>1, <2>2
    <3>2. f[n][n - 1] = end[n - 1]
      BY <1>4, <2>2, <3>1
    <3> QED
      BY <1>3, <2>2, <2>3, <3>2
  <2>10. Right(iw, x, L[n], end[n - 1])
    <3> HIDE DEF end, Bad
    <3> QED
      BY <2>8, <2>9
  <2> QED
    BY <2>10
<1> QED
  BY <1>1, <1>5

-----------------------------------------------------------------------------
(* What the frames that are left lead to. *)

\* For some widths of the identifiers w bits give the low bits of e.
Good(w, e) == \E iw : Keeps(iw, w)[e]

\* Then they do of its operands.
LEMMA GoodOperands ==
  ASSUME NEW w, NEW e \in Exprs, Good(w, e)
  PROVE  /\ \A i \in DOMAIN e.args : Good(OperandWidth(e, w, i), e.args[i])
         /\ e.op = "bool" => w = 1
         /\ e.op = "concat" => \A i \in DOMAIN e.args : e.args[i].op = "var"
<1>1. PICK iw : Keeps(iw, w)[e]
  BY DEF Good
<1>2. /\ KeepsAt(WidthOf(iw), w, Exact(iw, w), Exact(iw, 1), Keeps(iw, w), e)
      /\ Exact(iw, w)[e] => ExactAt(WidthOf(iw), w, Exact(iw, w), e)
  BY <1>1, KeepsIs, ExactIs
<1>3. \A i \in DOMAIN e.args : e.args[i] \in Exprs
  BY OperandsOf
<1>4. ASSUME NEW i \in DOMAIN e.args PROVE Good(OperandWidth(e, w, i), e.args[i])
  <2>1. \A n : Exact(iw, n)[e.args[i]] => Keeps(iw, n)[e.args[i]]
    BY <1>3, ExactKeeps
  <2>2. \A n : e.args[i].op = "var" => Keeps(iw, n)[e.args[i]]
    <3>1. \A n : e.args[i].op = "var" =>
            KeepsAt(WidthOf(iw), n, Exact(iw, n), Exact(iw, 1), Keeps(iw, n), e.args[i])
      BY DEF KeepsAt
    <3> QED
      BY <1>3, <3>1, KeepsIs
  <2>3. CASE e.op \in {"plus", "lt"}
    BY <1>2, <2>1, <2>3, OperandsOf DEF KeepsAt, OperandWidth, Good
  <2>4. CASE e.op = "cast"
    BY <1>2, <2>4, OperandsOf DEF KeepsAt, OperandWidth, Good
  <2>5. CASE e.op \in {"not", "concat"}
    BY <1>2, <2>2, <2>5, OperandsOf DEF KeepsAt, OperandWidth, Good
  <2>6. CASE e.op = "query"
    BY <1>2, <2>1, <2>6, OperandsOf DEF KeepsAt, OperandWidth, Good
  <2>7. CASE e.op = "bool"
    BY <1>2, <2>1, <2>7, OperandsOf DEF KeepsAt, ExactAt, OperandWidth, Good
  <2>8. CASE e.op \in {"int", "var"}
    BY <2>8, OperandsOf
  <2> QED
    BY <2>3, <2>4, <2>5, <2>6, <2>7, <2>8, OperandsOf
<1>5. e.op = "bool" => w = 1
  BY <1>2 DEF KeepsAt, ExactAt
<1>6. e.op = "concat" => \A i \in DOMAIN e.args : e.args[i].op = "var"
  BY <1>2, OperandsOf DEF KeepsAt
<1> QED
  BY <1>4, <1>5, <1>6

-----------------------------------------------------------------------------
Cells == Seq(Nat \ {0})
Top(c) == c[Len(c)]

\* With the labels t of the names and the widths c in scope, frame f leaves the
\* labels u and the widths d.
Does(f, t, c, u, d) ==
  /\ Len(c) >= 1
  /\ \/ /\ f.do = "call" /\ Good(Top(c), f.e) /\ d = c
        /\ u = Append(t, <<UnderCasts[f.e], Top(c)>>)
     \/ /\ f.do = "emit" /\ f.e.op \in Operators \cup {"query", "concat"} /\ d = c
        /\ Len(f.e.args) <= Len(t)
        /\ \A i \in DOMAIN f.e.args : t[Len(t) - Len(f.e.args) + i] = Operand(f.e, Top(c), i)
        /\ u = Left(t, Len(f.e.args), <<f.e, Top(c)>>)
     \/ f.do = "end" /\ u = t /\ d = SubSeq(c, 1, Len(c) - 1)

\* z[i] and d[i] are the labels and the widths when frame i of q is reached.
Follows(z, d, q) ==
  /\ z \in [1 .. Len(q) + 1 -> Seq(Label)] /\ d \in [1 .. Len(q) + 1 -> Cells]
  /\ \A i \in 1 .. Len(q) : Does(q[i], z[i], d[i], z[i + 1], d[i + 1])

\* From t and c, the frames q leave the label of the root, calculated in w bits.
Leads(root, w, q, t, c) ==
  \E z, d : /\ Follows(z, d, q) /\ z[1] = t /\ d[1] = c
            /\ z[Len(q) + 1] = <<<<UnderCasts[root], w>>>> /\ d[Len(q) + 1] = <<w>>

\* The first frame does what it does, and the frames p from other labels and
\* widths the same.
LEMMA LeadsReplace ==
  ASSUME NEW root, NEW w, NEW q \in Seq(Frame), q # <<>>, NEW t, NEW c, Leads(root, w, q, t, c),
         NEW p \in Seq(Frame), NEW y, NEW b, Follows(y, b, p),
         \A u \in Seq(Label), d \in Cells : Does(q[1], t, c, u, d) =>
           y[Len(p) + 1] = u /\ b[Len(p) + 1] = d
  PROVE  Leads(root, w, p \o Tail(q), y[1], b[1])
<1> DEFINE j == p \o Tail(q)
<1>1. /\ Len(p) \in Nat /\ Len(q) \in Nat /\ Len(q) >= 1 /\ Len(j) = Len(p) + Len(q) - 1
      /\ \A i \in 1 .. Len(p) : j[i] = p[i]
      /\ \A i \in Len(p) + 1 .. Len(p) + Len(q) - 1 : j[i] = q[i - Len(p) + 1]
  BY ReplacedFacts
<1>2. PICK z, d : /\ Follows(z, d, q) /\ z[1] = t /\ d[1] = c
                  /\ z[Len(q) + 1] = <<<<UnderCasts[root], w>>>> /\ d[Len(q) + 1] = <<w>>
  BY DEF Leads
<1> DEFINE x == [i \in 1 .. Len(j) + 1 |-> IF i <= Len(p) THEN y[i] ELSE z[i - Len(p) + 1]]
           e == [i \in 1 .. Len(j) + 1 |-> IF i <= Len(p) THEN b[i] ELSE d[i - Len(p) + 1]]
<1> HIDE DEF j
<1>3. /\ z \in [1 .. Len(q) + 1 -> Seq(Label)] /\ d \in [1 .. Len(q) + 1 -> Cells]
      /\ \A i \in 1 .. Len(q) : Does(q[i], z[i], d[i], z[i + 1], d[i + 1])
  BY <1>2 DEF Follows
<1>4. /\ y \in [1 .. Len(p) + 1 -> Seq(Label)] /\ b \in [1 .. Len(p) + 1 -> Cells]
      /\ \A i \in 1 .. Len(p) : Does(p[i], y[i], b[i], y[i + 1], b[i + 1])
  BY DEF Follows
<1>5. y[Len(p) + 1] = z[2] /\ b[Len(p) + 1] = d[2]
  <2>1. 1 \in 1 .. Len(q) /\ 2 \in 1 .. Len(q) + 1
    BY <1>1
  <2>2. Does(q[1], t, c, z[2], d[2])
    BY <1>2, <1>3, <2>1
  <2> QED
    BY <1>3, <2>1, <2>2
<1>6. ASSUME NEW i \in 1 .. Len(j) + 1
      PROVE  /\ i <= Len(p) + 1 => i \in 1 .. Len(p) + 1 /\ x[i] = y[i] /\ e[i] = b[i]
             /\ i > Len(p) => /\ i - Len(p) + 1 \in 1 .. Len(q) + 1
                              /\ x[i] = z[i - Len(p) + 1] /\ e[i] = d[i - Len(p) + 1]
  <2>1. i = Len(p) + 1 => i - Len(p) + 1 = 2
    BY <1>1
  <2> QED
    BY <1>1, <1>5, <2>1
<1>7. x \in [1 .. Len(j) + 1 -> Seq(Label)] /\ e \in [1 .. Len(j) + 1 -> Cells]
  <2>1. \A i \in 1 .. Len(j) + 1 : x[i] \in Seq(Label) /\ e[i] \in Cells
    <3> HIDE DEF x, e
    <3>1. \A i \in 1 .. Len(j) + 1 : i <= Len(p) + 1 \/ i > Len(p)
      BY <1>1
    <3> QED
      BY <1>3, <1>4, <1>6, <3>1
  <2> QED
    BY <2>1
<1> HIDE DEF x, e
<1>8. ASSUME NEW i \in 1 .. Len(j)
      PROVE  Does(j[i], x[i], e[i], x[i + 1], e[i + 1])
  <2>1. i \in 1 .. Len(j) + 1 /\ i + 1 \in 1 .. Len(j) + 1
    BY <1>1
  <2>2. CASE i <= Len(p)
    <3>1. i \in 1 .. Len(p) /\ i + 1 <= Len(p) + 1 /\ i <= Len(p) + 1
      BY <1>1, <2>2
    <3>2. j[i] = p[i] /\ x[i] = y[i] /\ e[i] = b[i] /\ x[i + 1] = y[i + 1] /\ e[i + 1] = b[i + 1]
      BY <1>1, <1>6, <2>1, <3>1
    <3> QED
      BY <1>4, <3>1, <3>2
  <2>3. CASE i > Len(p)
    <3> DEFINE k == i - Len(p) + 1
    <3>1. k \in 1 .. Len(q) /\ i + 1 > Len(p) /\ i + 1 - Len(p) + 1 = k + 1
          /\ i \in Len(p) + 1 .. Len(p) + Len(q) - 1
      BY <1>1, <2>3
    <3>2. j[i] = q[k]
      BY <1>1, <3>1
    <3>3. x[i] = z[k] /\ e[i] = d[k]
      BY <1>6, <2>1, <2>3
    <3>4. x[i + 1] = z[k + 1] /\ e[i + 1] = d[k + 1]
      <4> HIDE DEF k
      <4> QED
        BY <1>6, <2>1, <3>1
    <3> HIDE DEF k
    <3> QED
      BY <1>3, <3>1, <3>2, <3>3, <3>4
  <2> QED
    BY <1>1, <2>2, <2>3
<1>9. Follows(x, e, j)
  BY <1>7, <1>8 DEF Follows
<1>10. x[1] = y[1] /\ e[1] = b[1]
  <2>1. 1 \in 1 .. Len(j) + 1 /\ 1 <= Len(p) + 1
    BY <1>1
  <2> QED
    BY <1>6, <2>1
<1>11. x[Len(j) + 1] = z[Len(q) + 1] /\ e[Len(j) + 1] = d[Len(q) + 1]
  <2>1. Len(j) + 1 \in 1 .. Len(j) + 1 /\ Len(j) + 1 > Len(p)
        /\ Len(j) + 1 - Len(p) + 1 = Len(q) + 1
    BY <1>1
  <2> QED
    BY <1>6, <2>1
<1> QED
  BY <1>2, <1>9, <1>10, <1>11 DEF Leads, j

\* Sequences with the same elements are the same.
LEMMA SameElements ==
  ASSUME NEW S, NEW s \in Seq(S), NEW t \in Seq(S), Len(s) = Len(t),
         \A i \in 1 .. Len(s) : s[i] = t[i]
  PROVE  s = t
<1>1. s = [i \in 1 .. Len(s) |-> s[i]] /\ t = [i \in 1 .. Len(t) |-> t[i]]
  OBVIOUS
<1> QED
  BY <1>1

\* Without its last k elements, and with one more.
LEMMA LeftIs ==
  ASSUME NEW S, NEW s \in Seq(S), NEW k \in Nat, k <= Len(s), NEW x \in S
  PROVE  /\ Left(s, k, x) \in Seq(S) /\ Len(Left(s, k, x)) = Len(s) - k + 1
         /\ Left(s, k, x)[Len(s) - k + 1] = x
         /\ \A i \in 1 .. Len(s) - k : Left(s, k, x)[i] = s[i]
<1> DEFINE h == SubSeq(s, 1, Len(s) - k)
<1>1. Len(s) \in Nat /\ Len(s) - k \in Nat /\ Len(s) - k <= Len(s)
  OBVIOUS
<1>2. h \in Seq(S) /\ Len(h) = Len(s) - k /\ \A i \in 1 .. Len(s) - k : h[i] = s[i]
  BY <1>1
<1> HIDE DEF h
<1>3. /\ Append(h, x) \in Seq(S \cup {x}) /\ S \cup {x} = S
      /\ Len(Append(h, x)) = Len(h) + 1 /\ Append(h, x)[Len(h) + 1] = x
      /\ \A i \in 1 .. Len(h) : Append(h, x)[i] = h[i]
  BY <1>2, AppendFacts
<1> QED
  BY <1>1, <1>2, <1>3 DEF Left, h

\* What is left of the labels when the whole stack is at the end.
LEMMA LeadsFacts ==
  ASSUME NEW root, NEW w, NEW q \in Seq(Frame), NEW t, NEW c, Leads(root, w, q, t, c)
  PROVE  /\ t \in Seq(Label) /\ c \in Cells
         /\ q = <<>> => t = <<<<UnderCasts[root], w>>>> /\ c = <<w>>
         /\ q # <<>> => \E u \in Seq(Label), d \in Cells : Does(q[1], t, c, u, d)
<1>1. PICK z, d : /\ Follows(z, d, q) /\ z[1] = t /\ d[1] = c
                  /\ z[Len(q) + 1] = <<<<UnderCasts[root], w>>>> /\ d[Len(q) + 1] = <<w>>
  BY DEF Leads
<1>2. Len(q) \in Nat /\ (q # <<>> => Len(q) >= 1) /\ (q = <<>> => Len(q) = 0)
  BY EmptyLen
<1>3. /\ z \in [1 .. Len(q) + 1 -> Seq(Label)] /\ d \in [1 .. Len(q) + 1 -> Cells]
      /\ \A i \in 1 .. Len(q) : Does(q[i], z[i], d[i], z[i + 1], d[i + 1])
  BY <1>1 DEF Follows
<1>4. 1 \in 1 .. Len(q) + 1 /\ (q # <<>> => 1 \in 1 .. Len(q) /\ 1 + 1 \in 1 .. Len(q) + 1)
  BY <1>2
<1>5. t \in Seq(Label) /\ c \in Cells
  BY <1>1, <1>3, <1>4
<1>6. ASSUME q = <<>> PROVE t = <<<<UnderCasts[root], w>>>> /\ c = <<w>>
  <2>1. Len(q) + 1 = 1
    BY <1>2, <1>6
  <2> QED
    BY <1>1, <2>1
<1>7. q # <<>> => /\ z[1 + 1] \in Seq(Label) /\ d[1 + 1] \in Cells
                  /\ Does(q[1], t, c, z[1 + 1], d[1 + 1])
  BY <1>1, <1>3, <1>4
<1> QED
  BY <1>5, <1>6, <1>7

\* No frames leave the label of the root only if it is there.
LEMMA LeadsEnd ==
  ASSUME NEW root, NEW w, NEW t, NEW c, Leads(root, w, <<>>, t, c)
  PROVE  t = <<<<UnderCasts[root], w>>>> /\ c = <<w>>
<1>1. \E z, d : /\ z[1] = t /\ d[1] = c
                /\ z[Len(<<>>) + 1] = <<<<UnderCasts[root], w>>>> /\ d[Len(<<>>) + 1] = <<w>>
  BY DEF Leads
<1>2. Len(<<>>) + 1 = 1
  OBVIOUS
<1> QED
  BY ONLY <1>1, <1>2

\* What a frame does, it does in one way.
LEMMA DoesOne ==
  ASSUME NEW f, NEW t, NEW c, NEW u, NEW d, NEW v, NEW e, Does(f, t, c, u, d), Does(f, t, c, v, e)
  PROVE  u = v /\ d = e
BY DEF Does

\* The first frame is left.
LEMMA LeadsTail ==
  ASSUME NEW root, NEW w, NEW q \in Seq(Frame), q # <<>>, NEW t, NEW c, Leads(root, w, q, t, c),
         NEW u \in Seq(Label), NEW d \in Cells, Does(q[1], t, c, u, d)
  PROVE  Leads(root, w, Tail(q), u, d)
<1> DEFINE y == [i \in 1 .. 1 |-> u]
           b == [i \in 1 .. 1 |-> d]
<1>1. <<>> \o Tail(q) = Tail(q) /\ <<>> \in Seq(Frame) /\ Len(<<>>) = 0
  BY EmptyJoin
<1>2. y \in [1 .. 1 -> Seq(Label)] /\ b \in [1 .. 1 -> Cells] /\ y[1] = u /\ b[1] = d
  OBVIOUS
<1> HIDE DEF y, b
<1>3. Follows(y, b, <<>>)
  BY <1>1, <1>2 DEF Follows
<1>4. \A v \in Seq(Label), e \in Cells : Does(q[1], t, c, v, e) =>
        y[Len(<<>>) + 1] = v /\ b[Len(<<>>) + 1] = e
  BY <1>1, <1>2, DoesOne
<1>5. Leads(root, w, <<>> \o Tail(q), y[1], b[1])
  BY <1>1, <1>3, <1>4, LeadsReplace
<1> QED
  BY <1>1, <1>2, <1>5

\* The labels t and those of the first n operands of e.
Extended(t, e, w, n) ==
  [j \in 1 .. Len(t) + n |-> IF j <= Len(t) THEN t[j] ELSE Operand(e, w, j - Len(t))]

\* The operand of an expression is labelled.
LEMMA OperandLabel ==
  ASSUME NEW e \in Exprs, NEW w \in Nat \ {0}, NEW i \in DOMAIN e.args
  PROVE  Operand(e, w, i) \in Label
<1>1. UnderCasts[e.args[i]] \in Exprs
  BY OperandsOf, UnderCastsType
<1>2. OperandWidth(e, w, i) \in Nat \ {0}
  BY DEF OperandWidth
<1> QED
  BY <1>1, <1>2 DEF Operand, Label

\* The labels t, and those of the first n operands.
LEMMA ExtendedIs ==
  ASSUME NEW t \in Seq(Label), NEW e \in Exprs, NEW w \in Nat \ {0}, NEW n \in 0 .. Len(e.args)
  PROVE  /\ Extended(t, e, w, n) \in Seq(Label) /\ Len(Extended(t, e, w, n)) = Len(t) + n
         /\ \A i \in 1 .. Len(t) : Extended(t, e, w, n)[i] = t[i]
         /\ \A i \in 1 .. n : Extended(t, e, w, n)[Len(t) + i] = Operand(e, w, i)
<1>1. Len(t) \in Nat /\ n \in Nat /\ DOMAIN e.args = 1 .. Len(e.args) /\ Len(e.args) \in Nat
  BY ExprFacts
<1>2. \A i \in 1 .. n : i \in DOMAIN e.args
  BY <1>1
<1>3. \A j \in 1 .. Len(t) + n : ~(j <= Len(t)) => j - Len(t) \in 1 .. n
  BY <1>1
<1>4. \A j \in 1 .. Len(t) + n : Extended(t, e, w, n)[j] \in Label
  BY <1>1, <1>2, <1>3, OperandLabel DEF Extended
<1>5. Extended(t, e, w, n) \in [1 .. Len(t) + n -> Label]
  BY <1>4 DEF Extended
<1>6. Extended(t, e, w, n) \in Seq(Label) /\ Len(Extended(t, e, w, n)) = Len(t) + n
  BY <1>1, <1>5
<1>7. \A i \in 1 .. Len(t) : Extended(t, e, w, n)[i] = t[i]
  BY <1>1 DEF Extended
<1>8. ASSUME NEW i \in 1 .. n PROVE Extended(t, e, w, n)[Len(t) + i] = Operand(e, w, i)
  <2>1. Len(t) + i \in 1 .. Len(t) + n /\ ~(Len(t) + i <= Len(t)) /\ Len(t) + i - Len(t) = i
    BY <1>1
  <2> QED
    BY <2>1 DEF Extended
<1> QED
  BY <1>6, <1>7, <1>8

\* An operand more; none; all of them, and then the result.
LEMMA ExtendedMore ==
  ASSUME NEW t \in Seq(Label), NEW e \in Exprs, NEW w \in Nat \ {0}
  PROVE  /\ Extended(t, e, w, 0) = t
         /\ \A n \in 1 .. Len(e.args) :
              Extended(t, e, w, n) = Append(Extended(t, e, w, n - 1), Operand(e, w, n))
         /\ \A x \in Label : Left(Extended(t, e, w, Len(e.args)), Len(e.args), x) = Append(t, x)
<1>1. Len(t) \in Nat /\ Len(e.args) \in Nat /\ DOMAIN e.args = 1 .. Len(e.args)
  BY ExprFacts
<1>2. Extended(t, e, w, 0) = t
  <2>1. 0 \in 0 .. Len(e.args)
    BY <1>1
  <2>2. /\ Extended(t, e, w, 0) \in Seq(Label) /\ Len(Extended(t, e, w, 0)) = Len(t)
        /\ \A i \in 1 .. Len(t) : Extended(t, e, w, 0)[i] = t[i]
    BY <1>1, <2>1, ExtendedIs
  <2> QED
    BY <2>2, SameElements
<1>3. ASSUME NEW n \in 1 .. Len(e.args)
      PROVE  Extended(t, e, w, n) = Append(Extended(t, e, w, n - 1), Operand(e, w, n))
  <2> DEFINE a == Extended(t, e, w, n - 1)
             b == Extended(t, e, w, n)
             x == Operand(e, w, n)
  <2>1. n \in 0 .. Len(e.args) /\ n - 1 \in 0 .. Len(e.args) /\ n \in DOMAIN e.args /\ n \in Nat
    BY <1>1
  <2>2. /\ a \in Seq(Label) /\ Len(a) = Len(t) + (n - 1)
        /\ \A i \in 1 .. Len(t) : a[i] = t[i]
        /\ \A i \in 1 .. n - 1 : a[Len(t) + i] = Operand(e, w, i)
    BY <2>1, ExtendedIs
  <2>3. /\ b \in Seq(Label) /\ Len(b) = Len(t) + n
        /\ \A i \in 1 .. Len(t) : b[i] = t[i]
        /\ \A i \in 1 .. n : b[Len(t) + i] = Operand(e, w, i)
    BY <2>1, ExtendedIs
  <2>4. x \in Label
    BY <2>1, OperandLabel
  <2> HIDE DEF a, b, x
  <2>5. /\ Append(a, x) \in Seq(Label) /\ Len(Append(a, x)) = Len(t) + n
        /\ Append(a, x)[Len(t) + n] = x
        /\ \A i \in 1 .. Len(t) + (n - 1) : Append(a, x)[i] = a[i]
    <3>1. /\ Append(a, x) \in Seq(Label \cup {x}) /\ Label \cup {x} = Label
          /\ Len(Append(a, x)) = Len(a) + 1 /\ Append(a, x)[Len(a) + 1] = x
          /\ \A i \in 1 .. Len(a) : Append(a, x)[i] = a[i]
      <4> QED
        BY <2>2, <2>4, AppendFacts
    <3>2. Len(a) + 1 = Len(t) + n
      BY <1>1, <2>1, <2>2
    <3> QED
      BY <2>2, <3>1, <3>2
  <2>6. ASSUME NEW i \in 1 .. Len(t) + n PROVE b[i] = Append(a, x)[i]
    <3>1. CASE i <= Len(t)
      <4>1. i \in 1 .. Len(t) /\ i \in 1 .. Len(t) + (n - 1)
        BY <1>1, <2>1, <3>1
      <4> QED
        BY <2>2, <2>3, <2>5, <4>1
    <3>2. CASE i > Len(t) /\ i < Len(t) + n
      <4>1. i - Len(t) \in 1 .. n - 1 /\ i - Len(t) \in 1 .. n /\ Len(t) + (i - Len(t)) = i
            /\ i \in 1 .. Len(t) + (n - 1)
        BY <1>1, <2>1, <3>2
      <4> QED
        BY <2>2, <2>3, <2>5, <4>1
    <3>3. CASE i = Len(t) + n
      <4>1. n \in 1 .. n
        BY <2>1
      <4>2. b[Len(t) + n] = x
        BY <2>3, <4>1 DEF x
      <4> QED
        BY <2>5, <3>3, <4>2
    <3>4. i <= Len(t) \/ (i > Len(t) /\ i < Len(t) + n) \/ i = Len(t) + n
      BY <1>1, <2>1
    <3> QED
      BY <3>1, <3>2, <3>3, <3>4
  <2>7. b = Append(a, x)
    BY <2>3, <2>5, <2>6, SameElements
  <2> QED
    BY <2>7 DEF a, b, x
<1>4. ASSUME NEW x \in Label
      PROVE  Left(Extended(t, e, w, Len(e.args)), Len(e.args), x) = Append(t, x)
  <2> DEFINE k == Len(e.args)
             a == Extended(t, e, w, k)
             l == Left(a, k, x)
  <2>1. /\ a \in Seq(Label) /\ Len(a) = Len(t) + k
        /\ \A i \in 1 .. Len(t) : a[i] = t[i]
    <3>1. k \in 0 .. Len(e.args)
      BY <1>1
    <3> QED
      BY <3>1, ExtendedIs
  <2>2. k \in Nat /\ k <= Len(a) /\ Len(a) - k = Len(t) /\ Len(a) - k + 1 = Len(t) + 1
    BY <1>1, <2>1
  <2> HIDE DEF a, k
  <2>3. /\ l \in Seq(Label) /\ Len(l) = Len(t) + 1 /\ l[Len(t) + 1] = x
        /\ \A i \in 1 .. Len(t) : l[i] = a[i]
    <3>1. /\ l \in Seq(Label) /\ Len(l) = Len(a) - k + 1
          /\ l[Len(a) - k + 1] = x
          /\ \A i \in 1 .. Len(a) - k : l[i] = a[i]
      <4>1. a \in Seq(Label) /\ k \in Nat /\ k <= Len(a)
        BY <2>1, <2>2
      <4> QED
        BY ONLY <4>1, x \in Label, LeftIs
    <3> HIDE DEF l
    <3> QED
      BY <2>2, <3>1
  <2>4. /\ Append(t, x) \in Seq(Label \cup {x}) /\ Label \cup {x} = Label
        /\ Len(Append(t, x)) = Len(t) + 1 /\ Append(t, x)[Len(t) + 1] = x
        /\ \A i \in 1 .. Len(t) : Append(t, x)[i] = t[i]
    BY AppendFacts
  <2> HIDE DEF l
  <2>5. \A i \in 1 .. Len(t) + 1 : l[i] = Append(t, x)[i]
    <3>1. \A i \in 1 .. Len(t) + 1 : i = Len(t) + 1 \/ i \in 1 .. Len(t)
      BY <1>1
    <3> QED
      BY <2>1, <2>3, <2>4, <3>1
  <2>6. l = Append(t, x)
    BY <2>3, <2>4, <2>5, SameElements
  <2> QED
    BY <2>6 DEF a, k, l
<1> QED
  BY <1>2, <1>3, <1>4

\* A width is in scope.
LEMMA TopIs ==
  ASSUME NEW c \in Cells, Len(c) >= 1
  PROVE  Top(c) \in Nat \ {0}
<1>1. c \in Seq(Nat \ {0}) /\ Len(c) \in 1 .. Len(c)
  BY DEF Cells
<1> QED
  BY <1>1 DEF Top

\* One width more.
LEMMA CellMore ==
  ASSUME NEW c \in Cells, NEW w \in Nat \ {0}
  PROVE  /\ Append(c, w) \in Cells /\ Len(Append(c, w)) >= 1 /\ Top(Append(c, w)) = w
         /\ SubSeq(Append(c, w), 1, Len(Append(c, w)) - 1) = c
<1> DEFINE a == Append(c, w)
           S == Nat \ {0}
<1>1. c \in Seq(S) /\ Len(c) \in Nat
  BY DEF Cells
<1>2. /\ a \in Seq(S \cup {w}) /\ S \cup {w} = S /\ Len(a) = Len(c) + 1 /\ a[Len(c) + 1] = w
      /\ \A i \in 1 .. Len(c) : a[i] = c[i]
  <2> HIDE DEF S
  <2>1. w \in S
    BY DEF S
  <2> QED
    BY <1>1, <2>1, AppendFacts
<1> HIDE DEF a, S
<1>3. Len(a) - 1 = Len(c) /\ Len(a) >= 1
  BY <1>1, <1>2
<1>4. SubSeq(a, 1, Len(a) - 1) = c
  <2> DEFINE h == SubSeq(a, 1, Len(c))
  <2>1. a \in Seq(S) /\ Len(c) <= Len(a)
    BY <1>1, <1>2
  <2>2. h \in Seq(S) /\ Len(h) = Len(c) /\ \A i \in 1 .. Len(c) : h[i] = a[i]
    BY <1>1, <2>1
  <2> HIDE DEF h
  <2>3. h = c
    BY <1>1, <1>2, <2>2, SameElements
  <2> QED
    BY <1>3, <2>3 DEF h
<1> QED
  BY <1>2, <1>3, <1>4 DEF Top, Cells, a, S

\* A call leaves the label of its expression.
LEMMA DoesCall ==
  ASSUME NEW e \in Exprs, NEW t, NEW c, Len(c) >= 1, Good(Top(c), e)
  PROVE  Does(Call(e), t, c, Append(t, <<UnderCasts[e], Top(c)>>), c)
BY DEF Does, Call

\* An emit that finds the labels of its operands leaves its own.
LEMMA DoesEmit ==
  ASSUME NEW e \in Exprs, NEW key, e.op \in Operators \cup {"query", "concat"},
         NEW t \in Seq(Label), NEW c \in Cells, Len(c) >= 1
  PROVE  Does(Emit(e, key), Extended(t, e, Top(c), Len(e.args)), c, Append(t, <<e, Top(c)>>), c)
<1> DEFINE w == Top(c)
           k == Len(e.args)
           x == Extended(t, e, w, k)
<1>1. w \in Nat \ {0} /\ k \in Nat /\ DOMAIN e.args = 1 .. k /\ Len(t) \in Nat
  BY TopIs, ExprFacts
<1>2. Len(x) = Len(t) + k /\ \A i \in 1 .. k : x[Len(t) + i] = Operand(e, w, i)
  <2>1. k \in 0 .. Len(e.args)
    BY <1>1
  <2> HIDE DEF w
  <2> QED
    BY <1>1, <2>1, ExtendedIs
<1>3. <<e, w>> \in Label
  BY <1>1 DEF Label
<1>4. Left(x, k, <<e, w>>) = Append(t, <<e, w>>)
  <2> HIDE DEF w
  <2> QED
    BY <1>1, <1>3, ExtendedMore
<1> HIDE DEF x, w
<1>5. Len(x) - k = Len(t) /\ k <= Len(x)
  BY <1>1, <1>2
<1>6. Emit(e, key).do = "emit" /\ Emit(e, key).e = e
  BY DEF Emit
<1>7. /\ Len(e.args) <= Len(x)
      /\ \A i \in DOMAIN e.args : x[Len(x) - Len(e.args) + i] = Operand(e, w, i)
  BY <1>1, <1>2, <1>5
<1>8. Does(Emit(e, key), x, c, Append(t, <<e, w>>), c)
  BY <1>4, <1>6, <1>7 DEF Does, w
<1> QED
  BY <1>8 DEF x, w

\* The call of an operator does what its operands and its statement do.
LEMMA LeadsOperands ==
  ASSUME NEW root, NEW w, NEW q \in Seq(Frame), q # <<>>, NEW t, NEW c, Leads(root, w, q, t, c),
         q[1].do = "call", NEW e \in Exprs, e = q[1].e, e.op \in Operators \cup {"concat"},
         NEW key \in Nat
  PROVE  Leads(root, w, OperandFrames(e, key) \o Tail(q), t, c)
<1> DEFINE p == OperandFrames(e, key)
           k == Len(e.args)
           W == Top(c)
           y == [i \in 1 .. k + 2 |-> IF i <= k + 1 THEN Extended(t, e, W, i - 1)
                                      ELSE Append(t, <<e, W>>)]
           b == [i \in 1 .. k + 2 |-> c]
<1>1. /\ t \in Seq(Label) /\ c \in Cells
      /\ \E u \in Seq(Label), d \in Cells : Does(q[1], t, c, u, d)
  BY LeadsFacts
<1>2. UnderCasts[e] = e
  BY UnderCastsOf DEF Operators
<1>3. /\ Len(c) >= 1 /\ Good(W, e)
      /\ \A u, d : Does(q[1], t, c, u, d) => u = Append(t, <<e, W>>) /\ d = c
  BY <1>1, <1>2 DEF Does
<1>4. W \in Nat \ {0} /\ k \in Nat /\ DOMAIN e.args = 1 .. k
  BY <1>1, <1>3, TopIs, ExprFacts
<1>5. /\ p \in Seq(Frame) /\ Len(p) = k + 1 /\ p[k + 1] = Emit(e, key)
      /\ \A i \in 1 .. k : p[i] = Call(e.args[i]) /\ e.args[i] \in Exprs
  BY <1>4, OperandFramesFacts, OperandsOf
<1>6. Append(t, <<e, W>>) \in Seq(Label)
  <2>1. <<e, W>> \in Label
    BY <1>4 DEF Label
  <2> HIDE DEF W
  <2> QED
    BY <1>1, <2>1
<1> HIDE DEF p, W
<1>7. /\ \A i \in 1 .. k + 1 : y[i] = Extended(t, e, W, i - 1)
      /\ y[k + 2] = Append(t, <<e, W>>) /\ \A i \in 1 .. k + 2 : b[i] = c
      /\ y = [i \in 1 .. k + 2 |-> y[i]] /\ b = [i \in 1 .. k + 2 |-> b[i]]
  BY <1>4
<1> HIDE DEF y, b
<1>8. y \in [1 .. k + 2 -> Seq(Label)] /\ b \in [1 .. k + 2 -> Cells]
  <2>1. ASSUME NEW i \in 1 .. k + 2 PROVE y[i] \in Seq(Label)
    <3>1. CASE i <= k + 1
      <4>1. i \in 1 .. k + 1 /\ i - 1 \in 0 .. Len(e.args)
        BY <1>4, <3>1
      <4>2. Extended(t, e, W, i - 1) \in Seq(Label)
        BY <1>1, <1>4, <4>1, ExtendedIs
      <4> QED
        BY <1>7, <4>1, <4>2
    <3>2. CASE i = k + 2
      BY <1>6, <1>7, <3>2
    <3> QED
      BY <1>4, <3>1, <3>2
  <2> QED
    BY <1>1, <1>7, <2>1
<1>9. ASSUME NEW i \in 1 .. k + 1 PROVE Does(p[i], y[i], b[i], y[i + 1], b[i + 1])
  <2>1. i \in 1 .. k + 2 /\ i + 1 \in 1 .. k + 2
    BY <1>4
  <2>2. CASE i <= k
    <3>1. i \in 1 .. k /\ i + 1 \in 1 .. k + 1 /\ i + 1 - 1 = i /\ i \in DOMAIN e.args
      BY <1>4, <2>2
    <3>2. y[i] = Extended(t, e, W, i - 1) /\ y[i + 1] = Extended(t, e, W, i)
      <4>1. \A n \in 1 .. k + 1 : y[n] = Extended(t, e, W, n - 1)
        BY <1>7
      <4>2. y[i] = Extended(t, e, W, i - 1)
        BY <4>1
      <4>3. PICK n \in 1 .. k + 1 : n = i + 1 /\ n - 1 = i
        BY <3>1
      <4>4. y[n] = Extended(t, e, W, n - 1)
        BY <4>1
      <4> QED
        BY <4>2, <4>3, <4>4
    <3>3. Operand(e, W, i) = <<UnderCasts[e.args[i]], W>> /\ Good(W, e.args[i])
      <4>1. OperandWidth(e, W, i) = W
        BY DEF OperandWidth, Operators
      <4> QED
        BY <1>3, <3>1, <4>1, GoodOperands DEF Operand
    <3>4. y[i + 1] = Append(y[i], <<UnderCasts[e.args[i]], W>>)
      <4>1. Extended(t, e, W, i) = Append(Extended(t, e, W, i - 1), Operand(e, W, i))
        <5>1. \A n \in 1 .. Len(e.args) :
                Extended(t, e, W, n) = Append(Extended(t, e, W, n - 1), Operand(e, W, n))
          BY <1>1, <1>4, ExtendedMore
        <5> QED
          BY <3>1, <5>1
      <4> QED
        BY <3>2, <3>3, <4>1
    <3>5. p[i] = Call(e.args[i]) /\ e.args[i] \in Exprs
      BY <1>5, <3>1
    <3>6. Does(p[i], y[i], c, y[i + 1], c)
      BY <1>3, <3>3, <3>4, <3>5, DoesCall DEF W
    <3> QED
      BY <1>7, <2>1, <3>6
  <2>3. CASE i = k + 1
    <3>1. y[i] = Extended(t, e, W, k) /\ y[i + 1] = Append(t, <<e, W>>) /\ p[i] = Emit(e, key)
      <4>1. i \in 1 .. k + 1 /\ i - 1 = k /\ i + 1 = k + 2
        BY <1>4, <2>3
      <4> QED
        BY <1>5, <1>7, <2>3, <4>1
    <3>2. Does(p[i], y[i], c, y[i + 1], c)
      BY <1>1, <1>3, <3>1, DoesEmit DEF W
    <3> QED
      BY <1>7, <2>1, <3>2
  <2> QED
    BY <1>4, <2>2, <2>3
<1>10. Len(p) + 1 = k + 2
  BY <1>4, <1>5
<1>11. Follows(y, b, p)
  BY <1>5, <1>8, <1>9, <1>10 DEF Follows
<1>12. y[1] = t /\ b[1] = c /\ y[Len(p) + 1] = Append(t, <<e, W>>) /\ b[Len(p) + 1] = c
  <2>1. 1 \in 1 .. k + 1 /\ 1 - 1 = 0 /\ k + 2 \in 1 .. k + 2 /\ 1 \in 1 .. k + 2
    BY <1>4
  <2>2. y[1] = Extended(t, e, W, 0)
    BY <1>7, <2>1
  <2>3. Extended(t, e, W, 0) = t
    BY <1>1, <1>4, ExtendedMore
  <2> QED
    BY <1>7, <1>10, <2>1, <2>2, <2>3
<1>13. Leads(root, w, p \o Tail(q), y[1], b[1])
  <2>1. \A u \in Seq(Label), d \in Cells : Does(q[1], t, c, u, d) =>
          y[Len(p) + 1] = u /\ b[Len(p) + 1] = d
    BY <1>3, <1>12
  <2> QED
    BY <1>5, <1>11, <2>1, LeadsReplace
<1> QED
  BY <1>12, <1>13 DEF p

\* A condition is lowered in one bit, then the two others, then the choice.
LEMMA LeadsQuery ==
  ASSUME NEW root, NEW w, NEW q \in Seq(Frame), q # <<>>, NEW t, NEW c, Leads(root, w, q, t, c),
         q[1].do = "call", NEW e \in Exprs, e = q[1].e, e.op = "query"
  PROVE  Leads(root, w, QueryFrames(e) \o Tail(q), t, Append(c, 1))
<1> DEFINE p == QueryFrames(e)
           W == Top(c)
           a == Append(c, 1)
           x1 == Extended(t, e, W, 1)
           x2 == Extended(t, e, W, 2)
           x3 == Extended(t, e, W, 3)
           z == Append(t, <<e, W>>)
           y == <<t, x1, x1, x2, x3, z>>
           b == <<a, a, c, c, c, c>>
<1>1. /\ t \in Seq(Label) /\ c \in Cells
      /\ \E u \in Seq(Label), d \in Cells : Does(q[1], t, c, u, d)
  BY LeadsFacts
<1>2. UnderCasts[e] = e
  BY UnderCastsOf
<1>3. /\ Len(c) >= 1 /\ Good(W, e)
      /\ \A u, d : Does(q[1], t, c, u, d) => u = z /\ d = c
  BY <1>1, <1>2 DEF Does
<1>4. W \in Nat \ {0} /\ Len(e.args) = 3 /\ DOMAIN e.args = 1 .. 3
      /\ \A i \in 1 .. 3 : e.args[i] \in Exprs
  BY <1>1, <1>3, TopIs, ExprFacts, OperandsOf DEF Arity
<1>5. /\ a \in Cells /\ Len(a) >= 1 /\ Top(a) = 1 /\ SubSeq(a, 1, Len(a) - 1) = c
  <2>1. 1 \in Nat \ {0}
    OBVIOUS
  <2> QED
    BY <1>1, <2>1, CellMore
<1> HIDE DEF W, a
<1>6. /\ x1 = Append(t, <<UnderCasts[e.args[1]], 1>>)
      /\ x2 = Append(x1, <<UnderCasts[e.args[2]], W>>)
      /\ x3 = Append(x2, <<UnderCasts[e.args[3]], W>>)
  <2>1. /\ Extended(t, e, W, 0) = t
        /\ \A n \in 1 .. 3 :
             Extended(t, e, W, n) = Append(Extended(t, e, W, n - 1), Operand(e, W, n))
    <3>1. /\ Extended(t, e, W, 0) = t
          /\ \A n \in 1 .. Len(e.args) :
               Extended(t, e, W, n) = Append(Extended(t, e, W, n - 1), Operand(e, W, n))
      <4>1. t \in Seq(Label) /\ e \in Exprs /\ W \in Nat \ {0}
        BY <1>1, <1>4
      <4> QED
        BY ONLY <4>1, ExtendedMore
    <3> QED
      BY <1>4, <3>1
  <2>2. 1 - 1 = 0 /\ 2 - 1 = 1 /\ 3 - 1 = 2 /\ 1 \in 1 .. 3 /\ 2 \in 1 .. 3 /\ 3 \in 1 .. 3
    OBVIOUS
  <2>3. /\ Operand(e, W, 1) = <<UnderCasts[e.args[1]], 1>>
        /\ Operand(e, W, 2) = <<UnderCasts[e.args[2]], W>>
        /\ Operand(e, W, 3) = <<UnderCasts[e.args[3]], W>>
    BY DEF Operand, OperandWidth
  <2>4. x1 = Append(t, Operand(e, W, 1)) /\ x2 = Append(x1, Operand(e, W, 2))
        /\ x3 = Append(x2, Operand(e, W, 3))
    BY <2>1, <2>2
  <2> QED
    BY <2>3, <2>4
<1>7. Good(1, e.args[1]) /\ Good(W, e.args[2]) /\ Good(W, e.args[3])
  <2>1. \A i \in 1 .. 3 : Good(OperandWidth(e, W, i), e.args[i])
    BY <1>3, <1>4, GoodOperands
  <2>2. OperandWidth(e, W, 1) = 1 /\ OperandWidth(e, W, 2) = W /\ OperandWidth(e, W, 3) = W
    BY DEF OperandWidth
  <2> QED
    BY <2>1, <2>2
<1>8. x1 \in Seq(Label) /\ x2 \in Seq(Label) /\ x3 \in Seq(Label) /\ z \in Seq(Label)
  <2>1. 1 \in 0 .. 3 /\ 2 \in 0 .. 3 /\ 3 \in 0 .. 3
    OBVIOUS
  <2>2. x1 \in Seq(Label) /\ x2 \in Seq(Label) /\ x3 \in Seq(Label)
    BY <1>1, <1>4, <2>1, ExtendedIs
  <2>3. <<e, W>> \in Label
    BY <1>4 DEF Label
  <2>4. z \in Seq(Label)
    BY <1>1, <2>3
  <2> QED
    BY <2>2, <2>4
<1>9. /\ p \in Seq(Frame) /\ Len(p) = 5
      /\ p[1] = Call(e.args[1]) /\ p[2] = EndCondition(e) /\ p[3] = Call(e.args[2])
      /\ p[4] = Call(e.args[3]) /\ p[5] = Emit(e, 0)
  <2>1. \A i \in 1 .. 3 : Call(e.args[i]) \in Frame
    <3>1. 0 \in Nat
      OBVIOUS
    <3> QED
      BY <1>4, <3>1, FrameFacts
  <2>2. Emit(e, 0) \in Frame /\ EndCondition(e) \in Frame
    <3>1. 0 \in Nat
      OBVIOUS
    <3> QED
      BY <3>1, FrameFacts
  <2> QED
    BY <2>1, <2>2 DEF QueryFrames
<1>10. /\ Does(Call(e.args[1]), t, a, x1, a)
       /\ Does(Call(e.args[2]), x1, c, x2, c)
       /\ Does(Call(e.args[3]), x2, c, x3, c)
  <2> HIDE DEF x1, x2, x3
  <2>1. e.args[1] \in Exprs /\ e.args[2] \in Exprs /\ e.args[3] \in Exprs
    BY <1>4
  <2>2. Does(Call(e.args[1]), t, a, Append(t, <<UnderCasts[e.args[1]], Top(a)>>), a)
    BY <1>5, <1>7, <2>1, DoesCall
  <2>3. Does(Call(e.args[2]), x1, c, Append(x1, <<UnderCasts[e.args[2]], Top(c)>>), c)
    BY <1>3, <1>7, <2>1, DoesCall DEF W
  <2>4. Does(Call(e.args[3]), x2, c, Append(x2, <<UnderCasts[e.args[3]], Top(c)>>), c)
    BY <1>3, <1>7, <2>1, DoesCall DEF W
  <2> QED
    BY <1>5, <1>6, <2>2, <2>3, <2>4 DEF W
<1>11. Does(EndCondition(e), x1, a, x1, c)
  BY <1>5 DEF Does, EndCondition
<1>12. Does(Emit(e, 0), x3, c, z, c)
  <2>1. Does(Emit(e, 0), Extended(t, e, Top(c), Len(e.args)), c, Append(t, <<e, Top(c)>>), c)
    BY <1>1, <1>3, DoesEmit
  <2> QED
    BY <1>4, <2>1 DEF W
<1> HIDE DEF p, x1, x2, x3, z
<1>13. /\ y[1] = t /\ y[2] = x1 /\ y[3] = x1 /\ y[4] = x2 /\ y[5] = x3 /\ y[6] = z
       /\ b[1] = a /\ b[2] = a /\ b[3] = c /\ b[4] = c /\ b[5] = c /\ b[6] = c
       /\ y = [i \in 1 .. 6 |-> y[i]] /\ b = [i \in 1 .. 6 |-> b[i]]
  OBVIOUS
<1> HIDE DEF y, b
<1>14. y \in [1 .. 6 -> Seq(Label)] /\ b \in [1 .. 6 -> Cells]
  <2>1. \A i \in 1 .. 6 : i = 1 \/ i = 2 \/ i = 3 \/ i = 4 \/ i = 5 \/ i = 6
    OBVIOUS
  <2>2. \A i \in 1 .. 6 : y[i] \in Seq(Label) /\ b[i] \in Cells
    BY <1>1, <1>5, <1>8, <1>13, <2>1
  <2> QED
    BY <1>13, <2>2
<1>15. ASSUME NEW i \in 1 .. 5 PROVE Does(p[i], y[i], b[i], y[i + 1], b[i + 1])
  <2>1. /\ Does(p[1], y[1], b[1], y[2], b[2]) /\ Does(p[2], y[2], b[2], y[3], b[3])
        /\ Does(p[3], y[3], b[3], y[4], b[4]) /\ Does(p[4], y[4], b[4], y[5], b[5])
        /\ Does(p[5], y[5], b[5], y[6], b[6])
    BY <1>9, <1>10, <1>11, <1>12, <1>13
  <2>2. \/ (i = 1 /\ i + 1 = 2)
        \/ (i = 2 /\ i + 1 = 3)
        \/ (i = 3 /\ i + 1 = 4)
        \/ (i = 4 /\ i + 1 = 5)
        \/ (i = 5 /\ i + 1 = 6)
    OBVIOUS
  <2> QED
    BY <2>1, <2>2
<1>16. Follows(y, b, p)
  <2>1. Len(p) + 1 = 6
    BY <1>9
  <2> QED
    BY <1>9, <1>14, <1>15, <2>1 DEF Follows
<1>17. Leads(root, w, p \o Tail(q), y[1], b[1])
  <2>1. \A u \in Seq(Label), d \in Cells : Does(q[1], t, c, u, d) =>
          y[Len(p) + 1] = u /\ b[Len(p) + 1] = d
    <3>1. Len(p) + 1 = 6
      BY <1>9
    <3> QED
      BY <1>3, <1>13, <3>1
  <2> QED
    BY <1>9, <1>16, <2>1, LeadsReplace
<1> QED
  BY <1>13, <1>17 DEF p, a

\* A call in the place of another, of the same expression under its casts.
LEMMA LeadsCall ==
  ASSUME NEW root, NEW w, NEW q \in Seq(Frame), q # <<>>, NEW t, NEW c, Leads(root, w, q, t, c),
         q[1].do = "call", NEW e \in Exprs, UnderCasts[e] = UnderCasts[q[1].e], Good(Top(c), e),
         NEW p \in Seq(Frame), Len(p) = 1, p[1] = Call(e)
  PROVE  Leads(root, w, p \o Tail(q), t, c)
<1> DEFINE x == Append(t, <<UnderCasts[e], Top(c)>>)
           y == <<t, x>>
           b == <<c, c>>
<1>1. /\ t \in Seq(Label) /\ c \in Cells
      /\ \E u \in Seq(Label), d \in Cells : Does(q[1], t, c, u, d)
  BY LeadsFacts
<1>2. /\ Len(c) >= 1 /\ \A u, d : Does(q[1], t, c, u, d) => u = x /\ d = c
  BY <1>1 DEF Does
<1>3. x \in Seq(Label)
  BY <1>1, <1>2
<1>4. Does(Call(e), t, c, x, c)
  BY <1>2, DoesCall
<1> HIDE DEF x
<1>5. /\ y[1] = t /\ y[2] = x /\ b[1] = c /\ b[2] = c
      /\ y \in [1 .. 2 -> Seq(Label)] /\ b \in [1 .. 2 -> Cells]
  BY <1>1, <1>3
<1> HIDE DEF y, b
<1>6. Follows(y, b, p)
  <2>1. Len(p) + 1 = 2 /\ \A i \in 1 .. Len(p) : i = 1 /\ i + 1 = 2
    OBVIOUS
  <2> QED
    BY <1>4, <1>5, <2>1 DEF Follows
<1>7. Leads(root, w, p \o Tail(q), y[1], b[1])
  <2>1. \A u \in Seq(Label), d \in Cells : Does(q[1], t, c, u, d) =>
          y[Len(p) + 1] = u /\ b[Len(p) + 1] = d
    <3>1. Len(p) + 1 = 2
      OBVIOUS
    <3> QED
      BY <1>2, <1>5, <3>1
  <2> QED
    BY <1>6, <2>1, LeadsReplace
<1> QED
  BY <1>5, <1>7

\* The operand of a cast in its place; a bool is calculated in one bit.
LEMMA LeadsCast ==
  ASSUME NEW root, NEW w, NEW q \in Seq(Frame), q # <<>>, NEW t, NEW c, Leads(root, w, q, t, c),
         q[1].do = "call", NEW e \in Exprs, e = q[1].e, e.op \in {"cast", "bool"}
  PROVE  Leads(root, w, Calls(e.args) \o Tail(q), t, c) /\ Len(c) >= 1
         /\ (e.op = "bool" => Top(c) = 1)
<1>1. /\ t \in Seq(Label) /\ c \in Cells
      /\ \E u \in Seq(Label), d \in Cells : Does(q[1], t, c, u, d)
  BY LeadsFacts
<1>2. Len(c) >= 1 /\ Good(Top(c), e)
  BY <1>1 DEF Does
<1>3. Len(e.args) = 1 /\ DOMAIN e.args = 1 .. 1 /\ e.args[1] \in Exprs
  BY ExprFacts, OperandsOf DEF Arity
<1>4. /\ Good(OperandWidth(e, Top(c), 1), e.args[1]) /\ (e.op = "bool" => Top(c) = 1)
  BY <1>2, <1>3, GoodOperands
<1>5. OperandWidth(e, Top(c), 1) = Top(c)
  BY DEF OperandWidth
<1>6. UnderCasts[e.args[1]] = UnderCasts[e]
  BY UnderCastsOf
<1>7. Calls(e.args) \in Seq(Frame) /\ Len(Calls(e.args)) = 1 /\ Calls(e.args)[1] = Call(e.args[1])
  BY <1>3, CallsFacts
<1>8. Leads(root, w, Calls(e.args) \o Tail(q), t, c)
  BY <1>3, <1>4, <1>5, <1>6, <1>7, LeadsCall
<1> QED
  BY <1>2, <1>4, <1>8

\* One call leads to its label.
LEMMA LeadsStart ==
  ASSUME NEW root, NEW e \in Exprs, UnderCasts[e] = UnderCasts[root], NEW w \in Nat \ {0},
         Good(w, e), NEW q, q = <<Call(e)>>
  PROVE  Leads(root, w, q, <<>>, <<w>>)
<1> DEFINE l == <<UnderCasts[e], w>>
           none == <<>>
           one == <<l>>
           v == <<w>>
           y == <<none, one>>
           b == <<v, v>>
<1>1. l \in Label
  BY UnderCastsType DEF Label
<1>2. <<w>> \in Cells /\ Len(<<w>>) >= 1 /\ Top(<<w>>) = w
  BY DEF Cells, Top
<1> HIDE DEF l
<1>3. <<>> \in Seq(Label) /\ <<l>> \in Seq(Label) /\ Append(<<>>, l) = <<l>>
  BY <1>1
<1>4. Does(Call(e), <<>>, <<w>>, <<l>>, <<w>>)
  <2>1. Does(Call(e), <<>>, <<w>>, Append(<<>>, <<UnderCasts[e], Top(<<w>>)>>), <<w>>)
    BY <1>2, DoesCall
  <2> QED
    BY <1>2, <1>3, <2>1 DEF l
<1>5. Len(q) = 1 /\ q[1] = Call(e) /\ Len(q) + 1 = 2
      /\ \A i \in 1 .. Len(q) : i = 1 /\ i + 1 = 2
  OBVIOUS
<1>6. /\ y \in [1 .. 2 -> Seq(Label)] /\ b \in [1 .. 2 -> Cells]
      /\ y[1] = <<>> /\ y[2] = <<l>> /\ b[1] = <<w>> /\ b[2] = <<w>>
  <2>1. none \in Seq(Label) /\ one \in Seq(Label) /\ v \in Cells
    BY <1>2, <1>3
  <2>2. /\ y \in [1 .. 2 -> Seq(Label)] /\ b \in [1 .. 2 -> Cells]
        /\ y[1] = none /\ y[2] = one /\ b[1] = v /\ b[2] = v
    <3> HIDE DEF none, one, v
    <3> QED
      BY <2>1
  <2> HIDE DEF y, b
  <2> QED
    BY <2>2
<1> HIDE DEF y, b
<1>7. Follows(y, b, q)
  BY <1>4, <1>5, <1>6 DEF Follows
<1>8. <<l>> = <<<<UnderCasts[root], w>>>>
  BY DEF l
<1> QED
  BY <1>5, <1>6, <1>7, <1>8 DEF Leads

-----------------------------------------------------------------------------
(* The calls of printExpr. *)

\* b goes on where a ends.
Prefixed(a, b) == DOMAIN a \subseteq DOMAIN b /\ \A i \in DOMAIN a : b[i] = a[i]

\* A sequence and one element more.
LEMMA AppendPrefixed ==
  ASSUME NEW a, IsSeq(a), NEW x
  PROVE  Prefixed(a, a) /\ Prefixed(a, Append(a, x))
BY AppendIsSeq DEF Prefixed

\* A name denotes what it does when more is labelled and more arguments come.
LEMMA DenotesMore ==
  ASSUME NEW L, NEW M, Prefixed(L, M), NEW al, NEW bl, Prefixed(al, bl),
         NEW nm, NEW l, Denotes(L, al, nm, l)
  PROVE  Denotes(M, bl, nm, l)
BY DEF Denotes, Prefixed

\* A statement means what it does.
LEMMA MeansMore ==
  ASSUME NEW L, NEW M, Prefixed(L, M), NEW al, NEW bl, Prefixed(al, bl),
         NEW st, NEW l, Means(L, al, st, l)
  PROVE  Means(M, bl, st, l)
BY DenotesMore DEF Means

\* More arguments.
LEMMA LabelledArgs ==
  ASSUME NEW L, NEW calc, NEW rb, NEW al, Labelled(L, calc, rb, al), NEW bl, Prefixed(al, bl)
  PROVE  Labelled(L, calc, rb, bl)
<1>1. Prefixed(L, L)
  BY DEF Prefixed
<1>2. \A st, l : Means(L, al, st, l) => Means(L, bl, st, l)
  BY <1>1, MeansMore
<1> QED
  BY <1>2 DEF Labelled

\* A statement more, labelled or not.
LEMMA LabelledMore ==
  ASSUME NEW L, NEW calc, NEW rb, NEW al, Labelled(L, calc, rb, al), IsSeq(rb),
         NEW st \in Statement, NEW w, NEW l \in Label \cup {None}, st.to >= Len(calc),
         l # None => /\ st.to = Len(calc) /\ w = l[2] /\ Means(L, al, st, l)
                     /\ \A i \in DOMAIN st.args : st.args[i][1] = "res" => st.args[i][2] < Len(calc)
  PROVE  Labelled(Append(L, l), Append(calc, st), Append(rb, w), al)
<1> DEFINE M == Append(L, l)
           d == Append(calc, st)
           rc == Append(rb, w)
           n == Len(calc)
<1>1. /\ calc \in Seq(Statement) /\ L \in Seq(Label \cup {None}) /\ Len(L) = n /\ Len(rb) = n
      /\ n \in Nat /\ st.to \in Nat
  <2>1. st.to \in Nat
    BY DEF Statement
  <2>2. Labelled(L, calc, rb, al) => /\ calc \in Seq(Statement) /\ L \in Seq(Label \cup {None})
                                     /\ Len(L) = n /\ Len(rb) = n
    BY DEF Labelled
  <2>3. calc \in Seq(Statement) => n \in Nat
    OBVIOUS
  <2> QED
    BY <2>1, <2>2, <2>3
<1>2. /\ M \in Seq(Label \cup {None}) /\ Len(M) = n + 1 /\ M[n + 1] = l
      /\ \A k \in 1 .. n : M[k] = L[k]
  <2>1. /\ M \in Seq((Label \cup {None}) \cup {l})
        /\ (Label \cup {None}) \cup {l} = Label \cup {None}
        /\ Len(M) = Len(L) + 1 /\ M[Len(L) + 1] = l /\ \A i \in 1 .. Len(L) : M[i] = L[i]
    <3> HIDE DEF M
    <3>1. Label \cup {None} \cup {l} = Label \cup {None}
      OBVIOUS
    <3> QED
      BY <1>1, <3>1, AppendFacts DEF M
  <2> HIDE DEF M
  <2> QED
    BY <1>1, <2>1
<1>3. /\ d \in Seq(Statement) /\ Len(d) = n + 1 /\ d[n + 1] = st
      /\ \A k \in 1 .. n : d[k] = calc[k]
  BY <1>1, StatementMore, AppendFacts
<1>4. /\ Len(rc) = n + 1 /\ rc[n + 1] = w /\ \A k \in 1 .. n : rc[k] = rb[k]
  BY <1>1, AppendIsSeq
<1>5. Prefixed(L, M) /\ Prefixed(al, al)
  <2>1. IsSeq(L)
    BY <1>1, SeqIsSeq
  <2> QED
    BY <2>1, AppendPrefixed DEF Prefixed
<1>6. \A s, m : Means(L, al, s, m) => Means(M, al, s, m)
  BY <1>5, MeansMore
<1> HIDE DEF M, d, rc
<1>7. ASSUME NEW k \in 1 .. n + 1
      PROVE  /\ d[k].to >= k - 1
             /\ M[k] # None =>
                  /\ d[k].to = k - 1 /\ rc[k] = M[k][2] /\ Means(M, al, d[k], M[k])
                  /\ \A i \in DOMAIN d[k].args : d[k].args[i][1] = "res" => d[k].args[i][2] < k - 1
  <2>1. CASE k \in 1 .. n
    <3>1. d[k] = calc[k] /\ rc[k] = rb[k] /\ M[k] = L[k]
      BY <1>2, <1>3, <1>4, <2>1
    <3>2. /\ calc[k].to >= k - 1
          /\ L[k] # None =>
               /\ calc[k].to = k - 1 /\ rb[k] = L[k][2] /\ Means(L, al, calc[k], L[k])
               /\ \A i \in DOMAIN calc[k].args :
                    calc[k].args[i][1] = "res" => calc[k].args[i][2] < k - 1
      <4> HIDE DEF n
      <4> QED
        BY <2>1 DEF Labelled, n
    <3> QED
      BY <1>6, <3>1, <3>2
  <2>2. CASE k = n + 1
    <3>1. d[k] = st /\ rc[k] = w /\ M[k] = l /\ k - 1 = n
      BY <1>1, <1>2, <1>3, <1>4, <2>2
    <3> QED
      BY <1>6, <3>1
  <2> QED
    BY <1>1, <2>1, <2>2
<1> QED
  BY <1>2, <1>3, <1>4, <1>7 DEF Labelled, M, d, rc
-----------------------------------------------------------------------------
\* The names on the stack denote the labels t.
NamesDenote(L, al, s, t) == Len(s) = Len(t) /\ \A i \in 1 .. Len(s) : Denotes(L, al, s[i], t[i])

\* While a concatenation waits, only identifiers are lowered.
KeysLast(q, r) ==
  \A i \in 1 .. Len(q) : IsConcat(q[i]) =>
    q[i].key = r /\ \A j \in 1 .. i - 1 : q[j].do = "call" /\ q[j].e.op = "var"

\* The result that is left is the latest.
TopRes(q, s, r) == q = <<>> /\ s[1][1] = "res" => s[1][2] = r

\* What is lowered of a root has its meaning in w bits, and what is left will have.
Going(L, root, w, al, q, s, c, r) ==
  /\ \E t : Leads(root, w, q, t, c) /\ NamesDenote(L, al, s, t)
  /\ KeysLast(q, r) /\ TopRes(q, s, r)

\* An identifier or a literal returns its name.
LEMMA GoingLeaf ==
  ASSUME NEW L, NEW root, NEW w, NEW al, NEW q \in Seq(Frame), q # <<>>, NEW s \in Seq(Name),
         NEW c, NEW r, Going(L, root, w, al, q, s, c, r), q[1].do = "call",
         q[1].e.op \in {"int", "var"}, NEW nm \in Name, NEW bl, Prefixed(al, bl),
         \A m : Denotes(L, bl, nm, <<q[1].e, m>>), NEW s1, s1 = Left(s, 0, nm)
  PROVE  Going(L, root, w, bl, Tail(q), s1, c, r)
<1>1. PICK t : Leads(root, w, q, t, c) /\ NamesDenote(L, al, s, t)
  BY DEF Going
<1>2. t \in Seq(Label) /\ c \in Cells /\ \E u \in Seq(Label), d \in Cells : Does(q[1], t, c, u, d)
  BY <1>1, LeadsFacts
<1>3. PICK u \in Seq(Label), d \in Cells : Does(q[1], t, c, u, d)
  BY <1>2
<1>4. q[1] \in Frame /\ q[1].e \in Exprs /\ Tail(q) \in Seq(Frame)
  <2>1. q[1] \in Frame /\ Tail(q) \in Seq(Frame)
    BY TailFacts
  <2> QED
    BY <2>1 DEF Frame
<1>5. UnderCasts[q[1].e] = q[1].e
  BY <1>4, UnderCastsOf
<1>6. u = Append(t, <<q[1].e, Top(c)>>) /\ d = c
  BY <1>3, <1>5 DEF Does
<1>7. Leads(root, w, Tail(q), u, c)
  BY <1>1, <1>3, <1>6, LeadsTail
<1>8. /\ Len(u) = Len(t) + 1 /\ u[Len(t) + 1] = <<q[1].e, Top(c)>>
      /\ \A i \in 1 .. Len(t) : u[i] = t[i]
  BY <1>2, <1>6, AppendFacts
<1>9. /\ Len(s) \in Nat /\ Len(s1) = Len(s) + 1 /\ s1[Len(s) + 1] = nm
      /\ \A i \in 1 .. Len(s) : s1[i] = s[i]
  <2>1. 0 \in Nat /\ 0 <= Len(s) /\ Len(s) - 0 = Len(s) /\ Len(s) \in Nat
    OBVIOUS
  <2>2. /\ Len(Left(s, 0, nm)) = Len(s) - 0 + 1 /\ Left(s, 0, nm)[Len(s) - 0 + 1] = nm
        /\ \A i \in 1 .. Len(s) - 0 : Left(s, 0, nm)[i] = s[i]
    <3>1. s \in Seq(Name) /\ nm \in Name
      OBVIOUS
    <3>2. PICK k \in Nat : k = 0
      BY <2>1
    <3>3. k <= Len(s)
      BY <2>1, <3>2
    <3>4. /\ Len(Left(s, k, nm)) = Len(s) - k + 1 /\ Left(s, k, nm)[Len(s) - k + 1] = nm
          /\ \A i \in 1 .. Len(s) - k : Left(s, k, nm)[i] = s[i]
      BY ONLY k \in Nat, <3>1, <3>3, LeftIs
    <3> QED
      BY <3>2, <3>4
  <2> QED
    BY <2>1, <2>2
<1>10. Prefixed(L, L)
  BY DEF Prefixed
<1>11. NamesDenote(L, bl, s1, u)
  <2>1. \A i \in 1 .. Len(s) : Denotes(L, bl, s[i], t[i])
    <3>1. \A n, l : Denotes(L, al, n, l) => Denotes(L, bl, n, l)
      BY <1>10, DenotesMore
    <3> QED
      BY <1>1, <3>1 DEF NamesDenote
  <2>2. Len(s) = Len(t)
    BY <1>1 DEF NamesDenote
  <2>3. Denotes(L, bl, s1[Len(s) + 1], u[Len(s) + 1])
    BY <1>8, <1>9, <2>2
  <2>4. \A i \in 1 .. Len(s) + 1 : i \in 1 .. Len(s) \/ i = Len(s) + 1
    BY <1>9
  <2> QED
    BY <1>8, <1>9, <2>1, <2>2, <2>3, <2>4 DEF NamesDenote
<1>12. KeysLast(Tail(q), r)
  <2>1. /\ Len(q) \in Nat /\ Len(q) >= 1 /\ Len(Tail(q)) = Len(q) - 1
        /\ \A i \in 1 .. Len(q) - 1 : Tail(q)[i] = q[i + 1]
    BY TailFacts
  <2>2. KeysLast(q, r)
    BY DEF Going
  <2>3. ASSUME NEW i \in 1 .. Len(q) - 1, IsConcat(Tail(q)[i])
        PROVE  /\ Tail(q)[i].key = r
               /\ \A j \in 1 .. i - 1 : Tail(q)[j].do = "call" /\ Tail(q)[j].e.op = "var"
    <3>1. i + 1 \in 1 .. Len(q) /\ IsConcat(q[i + 1]) /\ Tail(q)[i] = q[i + 1]
      BY <2>1, <2>3
    <3>2. \A j \in 1 .. i - 1 : j + 1 \in 1 .. (i + 1) - 1 /\ Tail(q)[j] = q[j + 1]
      BY <2>1
    <3>3. q[i + 1].key = r /\ \A j \in 1 .. (i + 1) - 1 : q[j].do = "call" /\ q[j].e.op = "var"
      BY <2>2, <3>1 DEF KeysLast
    <3> QED
      BY <3>1, <3>2, <3>3
  <2> QED
    BY <2>1, <2>3 DEF KeysLast
<1>13. TopRes(Tail(q), s1, r)
  <2>1. ASSUME Tail(q) = <<>> PROVE s1[1][1] # "res"
    <3>1. u = <<<<UnderCasts[root], w>>>>
      <4>1. Leads(root, w, <<>>, u, c)
        BY <1>7, <2>1
      <4> QED
        BY ONLY <4>1, LeadsEnd
    <3>2. Len(u) = 1
      BY <3>1
    <3>3. Len(s1) = 1 /\ s1[1] = nm
      BY <1>9, <1>11, <3>2 DEF NamesDenote
    <3>4. Denotes(L, bl, nm, <<q[1].e, 0>>)
      OBVIOUS
    <3>5. nm[1] # "res"
      BY <3>4 DEF Denotes
    <3> QED
      BY <3>3, <3>5
  <2> QED
    BY <2>1 DEF TopRes
<1> QED
  BY <1>7, <1>11, <1>12, <1>13 DEF Going

\* Frames take the place of the first, which is no identifier.
LEMMA GoingReplace ==
  ASSUME NEW L, NEW root, NEW w, NEW al, NEW q \in Seq(Frame), q # <<>>, NEW s,
         NEW c, NEW r, Going(L, root, w, al, q, s, c, r),
         ~(q[1].do = "call" /\ q[1].e.op = "var"),
         NEW p \in Seq(Frame), Len(p) = 0 => Len(q) > 1, NEW d, NEW n,
         \A t : Leads(root, w, q, t, c) => Leads(root, w, p \o Tail(q), t, d),
         \A i \in 1 .. Len(p) : IsConcat(p[i]) =>
           p[i].key = n /\ \A j \in 1 .. i - 1 : p[j].do = "call" /\ p[j].e.op = "var"
  PROVE  Going(L, root, w, al, p \o Tail(q), s, d, n)
<1> DEFINE j == p \o Tail(q)
<1>1. /\ Len(p) \in Nat /\ Len(q) \in Nat /\ Len(q) >= 1 /\ Len(j) = Len(p) + Len(q) - 1
      /\ \A i \in 1 .. Len(p) : j[i] = p[i]
      /\ \A i \in Len(p) + 1 .. Len(p) + Len(q) - 1 : j[i] = q[i - Len(p) + 1]
  BY ReplacedFacts
<1>2. \E t : Leads(root, w, j, t, d) /\ NamesDenote(L, al, s, t)
  BY DEF Going
<1> HIDE DEF j
<1>3. ASSUME NEW i \in 1 .. Len(j), IsConcat(j[i])
      PROVE  /\ j[i].key = n
             /\ \A k \in 1 .. i - 1 : j[k].do = "call" /\ j[k].e.op = "var"
  <2>1. CASE i <= Len(p)
    <3>1. i \in 1 .. Len(p) /\ \A k \in 1 .. i - 1 : k \in 1 .. Len(p)
      BY <1>1, <2>1
    <3>2. j[i] = p[i] /\ \A k \in 1 .. i - 1 : j[k] = p[k]
      BY <1>1, <3>1
    <3> QED
      BY <1>3, <3>1, <3>2
  <2>2. CASE i > Len(p)
    <3>1. i - Len(p) + 1 \in Int
      BY <1>1
    <3>a. PICK k \in Int : k = i - Len(p) + 1
      BY <3>1
    <3>2. k \in 1 .. Len(q) /\ 1 \in 1 .. k - 1 /\ j[i] = q[k]
      <4>1. i \in Len(p) + 1 .. Len(p) + Len(q) - 1
        BY <1>1, <2>2
      <4>2. j[i] = q[i - Len(p) + 1]
        BY <1>1, <4>1
      <4> QED
        BY <1>1, <3>a, <4>1, <4>2
    <3>3. KeysLast(q, r)
      BY DEF Going
    <3>4. q[1].do = "call" /\ q[1].e.op = "var"
      BY <1>3, <3>2, <3>3 DEF KeysLast
    <3> QED
      BY <3>4
  <2> QED
    BY <1>1, <2>1, <2>2
<1>4. KeysLast(j, n)
  BY <1>3 DEF KeysLast
<1>5. TopRes(j, s, n)
  <2>1. Len(j) >= 1
    BY <1>1
  <2>2. Len(<<>>) = 0
    OBVIOUS
  <2>3. j # <<>>
    BY <2>1, <2>2
  <2> QED
    BY <2>3 DEF TopRes
<1> QED
  BY <1>2, <1>4, <1>5 DEF Going, j

\* The end of a condition.
LEMMA GoingEnd ==
  ASSUME NEW L, NEW root, NEW w, NEW al, NEW q \in Seq(Frame), Len(q) > 1, q # <<>>, NEW s,
         NEW c, NEW r, Going(L, root, w, al, q, s, c, r), q[1].do = "end"
  PROVE  Going(L, root, w, al, Tail(q), s, SubSeq(c, 1, Len(c) - 1), r)
<1> DEFINE d == SubSeq(c, 1, Len(c) - 1)
<1>1. <<>> \o Tail(q) = Tail(q) /\ <<>> \in Seq(Frame) /\ Len(<<>>) = 0
  BY EmptyJoin
<1>2. ASSUME NEW t, Leads(root, w, q, t, c) PROVE Leads(root, w, <<>> \o Tail(q), t, d)
  <2>1. t \in Seq(Label) /\ \E u \in Seq(Label), e \in Cells : Does(q[1], t, c, u, e)
    BY <1>2, LeadsFacts
  <2>2. PICK u \in Seq(Label), e \in Cells : Does(q[1], t, c, u, e)
    BY <2>1
  <2>3. u = t /\ e = d
    BY <2>2 DEF Does
  <2>4. Leads(root, w, Tail(q), u, e)
    BY <1>2, <2>2, LeadsTail
  <2> QED
    BY <1>1, <2>3, <2>4
<1> HIDE DEF d
<1>3. \A t : Leads(root, w, q, t, c) => Leads(root, w, <<>> \o Tail(q), t, d)
  BY <1>2
<1>4. \A i \in 1 .. Len(<<>>) : FALSE
  BY <1>1
<1>5. Going(L, root, w, al, <<>> \o Tail(q), s, d, r)
  <2>1. PICK p \in Seq(Frame) : p = <<>>
    BY <1>1
  <2>2. /\ \A t : Leads(root, w, q, t, c) => Leads(root, w, p \o Tail(q), t, d)
        /\ \A i \in 1 .. Len(p) : FALSE
    BY <1>3, <1>4, <2>1
  <2>3. Going(L, root, w, al, p \o Tail(q), s, d, r)
    BY <2>2, GoingReplace
  <2> QED
    BY <2>1, <2>3
<1> QED
  BY <1>1, <1>5 DEF d

\* The emit at the top of q generates st, of label l, and leaves the names s1.
Emits(L, q, s, c, st, l, s1) ==
  LET e == q[1].e
      k == Len(e.args)
  IN  /\ q[1].do = "emit" /\ k <= Len(s) /\ l = <<e, Top(c)>>
      /\ st.op = e.op /\ st.args = Taken(s, k) /\ s1 = Left(s, k, <<"res", Len(L)>>)

\* A statement calculates what is said of its result.
LEMMA GoingEmit ==
  ASSUME NEW L, L \in Seq(Label \cup {None}), NEW root, NEW w, NEW al,
         NEW q, q \in Seq(Frame), q # <<>>, NEW s, s \in Seq(Name),
         NEW c, NEW r, Going(L, root, w, al, q, s, c, r),
         NEW st, NEW l, NEW s1, Emits(L, q, s, c, st, l, s1)
  PROVE  /\ l \in Label /\ Means(L, al, st, l)
         /\ \A i \in DOMAIN st.args : st.args[i][1] = "res" => st.args[i][2] < Len(L)
         /\ \A i \in 2 .. Len(q) : ~IsConcat(q[i])
         /\ IsConcat(q[1]) => q[1].key = r
         /\ Going(Append(L, l), root, w, al, Tail(q), s1, c, Len(L))
<1>0. PICK e, k, n, M : e = q[1].e /\ k = Len(e.args) /\ n = Len(L) /\ M = Append(L, l)
  OBVIOUS
<1>00. /\ q[1].do = "emit" /\ k <= Len(s) /\ l = <<e, Top(c)>>
       /\ st.op = e.op /\ st.args = Taken(s, k) /\ s1 = Left(s, k, <<"res", n>>)
  BY <1>0 DEF Emits
<1> USE <1>0, <1>00
<1>1. PICK t : Leads(root, w, q, t, c) /\ NamesDenote(L, al, s, t)
  BY DEF Going
<1>2. t \in Seq(Label) /\ c \in Cells /\ \E u \in Seq(Label), d \in Cells : Does(q[1], t, c, u, d)
  BY <1>1, LeadsFacts
<1>3. PICK u \in Seq(Label), d \in Cells : Does(q[1], t, c, u, d)
  BY <1>2
<1>4. /\ Len(c) >= 1 /\ e.op \in Operators \cup {"query", "concat"} /\ d = c
      /\ Len(e.args) <= Len(t)
      /\ \A i \in DOMAIN e.args : t[Len(t) - Len(e.args) + i] = Operand(e, Top(c), i)
      /\ u = Left(t, Len(e.args), <<e, Top(c)>>)
  BY <1>3 DEF Does
<1>5. q[1] \in Frame /\ e \in Exprs /\ Tail(q) \in Seq(Frame)
  <2>1. q[1] \in Frame /\ Tail(q) \in Seq(Frame)
    BY TailFacts
  <2> QED
    BY <2>1 DEF Frame
<1>6. l \in Label /\ Top(c) \in Nat \ {0}
  <2>1. Top(c) \in Nat \ {0}
    BY <1>2, <1>4, TopIs
  <2> QED
    BY <1>5, <2>1 DEF Label
<1>7. k \in Nat /\ DOMAIN e.args = 1 .. k /\ Len(s) \in Nat /\ n \in Nat
  <2>1. k \in Nat /\ DOMAIN e.args = 1 .. k
    BY <1>5, ExprFacts
  <2> QED
    BY <2>1
<1>8. Len(t) = Len(s) /\ \A i \in 1 .. Len(s) : Denotes(L, al, s[i], t[i])
  BY <1>1 DEF NamesDenote
<1>9. /\ DOMAIN st.args = 1 .. k
      /\ \A i \in 1 .. k : st.args[i] = s[Len(s) - k + i] /\ Len(s) - k + i \in 1 .. Len(s)
  <2>1. DOMAIN st.args = 1 .. k /\ \A i \in 1 .. k : st.args[i] = s[Len(s) - k + i]
    <3>1. s \in Seq(Name) /\ k \in Nat /\ k <= Len(s)
      BY <1>7
    <3>2. /\ Taken(s, k) \in Seq(Name) /\ DOMAIN Taken(s, k) = 1 .. k /\ Len(s) \in Nat
          /\ \A i \in 1 .. k : Taken(s, k)[i] = s[Len(s) - k + i]
      BY ONLY <3>1, TakenFacts
    <3> QED
      BY <3>2
  <2>2. \A i \in 1 .. k : Len(s) - k + i \in 1 .. Len(s)
    BY <1>7
  <2> QED
    BY <2>1, <2>2
<1>10. \A i \in 1 .. k : Denotes(L, al, st.args[i], Operand(e, Top(c), i))
  <2>1. \A i \in 1 .. k : t[Len(s) - k + i] = Operand(e, Top(c), i)
    BY <1>4, <1>7, <1>8
  <2> QED
    BY <1>8, <1>9, <2>1
<1>11. Means(L, al, st, l)
  <2>1. l[1] = e /\ l[2] = Top(c)
    OBVIOUS
  <2> QED
    BY <1>4, <1>7, <1>9, <1>10, <2>1 DEF Means
<1>12. ASSUME NEW i \in DOMAIN st.args, st.args[i][1] = "res" PROVE st.args[i][2] < n
  <2>1. st.args[i] \in Name
    <3>1. \A j \in 1 .. Len(s) : s[j] \in Name
      OBVIOUS
    <3> QED
      BY <1>9, <3>1
  <2>2. st.args[i][2] + 1 \in DOMAIN L
    <3>1. st.args[i][1] # "x" /\ st.args[i] # <<"int", Operand(e, Top(c), i)[1].n>>
      BY <1>12
    <3> QED
      BY <1>9, <1>10, <3>1 DEF Denotes
  <2>3. st.args[i][2] \in Nat
    BY <2>1 DEF Name
  <2> QED
    BY <1>7, <2>2, <2>3
<1>13. KeysLast(q, r)
  BY DEF Going
<1>14. \A i \in 2 .. Len(q) : ~IsConcat(q[i])
  <2>1. ASSUME NEW i \in 2 .. Len(q), IsConcat(q[i]) PROVE FALSE
    <3>1. i \in 1 .. Len(q) /\ 1 \in 1 .. i - 1
      OBVIOUS
    <3>2. q[1].do = "call"
      BY <1>13, <2>1, <3>1 DEF KeysLast
    <3> QED
      BY <3>2
  <2> QED
    BY <2>1
<1>15. IsConcat(q[1]) => q[1].key = r
  <2>1. 1 \in 1 .. Len(q)
    BY TailFacts
  <2> QED
    BY <1>13, <2>1 DEF KeysLast
<1>16. Leads(root, w, Tail(q), u, c)
  BY <1>1, <1>3, <1>4, LeadsTail
<1>17. /\ Len(u) = Len(s) - k + 1 /\ u[Len(s) - k + 1] = l
       /\ \A i \in 1 .. Len(s) - k : u[i] = t[i]
  <2>1. t \in Seq(Label) /\ k \in Nat /\ k <= Len(t) /\ l \in Label
    BY <1>2, <1>4, <1>6, <1>7
  <2>2. /\ Left(t, k, l) \in Seq(Label) /\ Len(Left(t, k, l)) = Len(t) - k + 1
        /\ Left(t, k, l)[Len(t) - k + 1] = l
        /\ \A i \in 1 .. Len(t) - k : Left(t, k, l)[i] = t[i]
    <3>1. t \in Seq(Label)
      BY <2>1
    <3>2. k \in Nat
      BY <2>1
    <3>3. k <= Len(t)
      BY <2>1
    <3>4. l \in Label
      BY <2>1
    <3> QED
      BY ONLY <3>1, <3>2, <3>3, <3>4, LeftIs
  <2> QED
    BY <1>4, <1>8, <2>2
<1>18. /\ Len(s1) = Len(s) - k + 1 /\ s1[Len(s) - k + 1] = <<"res", n>>
       /\ \A i \in 1 .. Len(s) - k : s1[i] = s[i]
  <2>1. PICK x \in Name : x = <<"res", n>>
    BY <1>7 DEF Name
  <2>2. s \in Seq(Name) /\ k \in Nat /\ k <= Len(s) /\ x \in Name
    BY <1>7
  <2>3. /\ Left(s, k, x) \in Seq(Name) /\ Len(Left(s, k, x)) = Len(s) - k + 1
        /\ Left(s, k, x)[Len(s) - k + 1] = x
        /\ \A i \in 1 .. Len(s) - k : Left(s, k, x)[i] = s[i]
    <3>1. s \in Seq(Name)
      OBVIOUS
    <3>2. k \in Nat
      BY <2>2
    <3>3. k <= Len(s)
      BY <2>2
    <3>4. x \in Name
      BY <2>2
    <3> QED
      BY ONLY <3>1, <3>2, <3>3, <3>4, LeftIs, SMTT(30)
  <2> QED
    BY <2>1, <2>3
<1>19. Prefixed(L, M) /\ Prefixed(al, al) /\ n + 1 \in DOMAIN M /\ M[n + 1] = l
  <2>1. IsSeq(L)
    BY SeqIsSeq
  <2> QED
    BY <1>7, <2>1, AppendPrefixed, AppendIsSeq DEF Prefixed
<1>20. NamesDenote(M, al, s1, u)
  <2>1. \A m, o : Denotes(L, al, m, o) => Denotes(M, al, m, o)
    BY <1>19, DenotesMore
  <2>2. ASSUME NEW i \in 1 .. Len(s) - k PROVE Denotes(M, al, s1[i], u[i])
    <3>1. i \in 1 .. Len(s)
      BY <1>7
    <3> QED
      BY <1>8, <1>17, <1>18, <2>1, <3>1
  <2>3. Denotes(M, al, <<"res", n>>, l)
    <3>1. l[1].op \notin {"int", "var"}
      BY <1>4 DEF Operators
    <3> QED
      BY <1>19, <3>1 DEF Denotes
  <2>4. \A i \in 1 .. Len(s) - k + 1 : i \in 1 .. Len(s) - k \/ i = Len(s) - k + 1
    <3>1. k \in Int /\ Len(s) \in Int
      BY <1>7
    <3> QED
      BY ONLY <3>1
  <2>5. Denotes(M, al, s1[Len(s) - k + 1], u[Len(s) - k + 1])
    BY <1>17, <1>18, <2>3
  <2>6. \A i \in 1 .. Len(s) - k + 1 : Denotes(M, al, s1[i], u[i])
    BY <2>2, <2>4, <2>5
  <2> QED
    BY <1>17, <1>18, <2>6 DEF NamesDenote
<1>21. KeysLast(Tail(q), n)
  <2>1. /\ Len(q) \in Nat /\ Len(Tail(q)) = Len(q) - 1
        /\ \A i \in 1 .. Len(q) - 1 : Tail(q)[i] = q[i + 1] /\ i + 1 \in 2 .. Len(q)
    BY TailFacts
  <2>2. \A i \in 1 .. Len(Tail(q)) : ~IsConcat(Tail(q)[i])
    BY <1>14, <2>1
  <2> QED
    BY <2>2 DEF KeysLast
<1>22. TopRes(Tail(q), s1, n)
  <2>1. ASSUME Tail(q) = <<>> PROVE s1[1][2] = n
    <3>1. u = <<<<UnderCasts[root], w>>>>
      <4>1. Leads(root, w, <<>>, u, c)
        BY <1>16, <2>1
      <4> QED
        BY ONLY <4>1, LeadsEnd
    <3>2. Len(u) = 1
      BY <3>1
    <3>3. s1[1] = <<"res", n>>
      <4>1. Len(s) - k + 1 = 1
        BY <1>17, <3>2
      <4> QED
        BY <1>18, <4>1
    <3>4. <<"res", n>>[2] = n
      BY ONLY TRUE
    <3> QED
      BY ONLY <3>3, <3>4
  <2> QED
    BY <2>1 DEF TopRes
<1> QED
  BY <1>6, <1>11, <1>12, <1>14, <1>15, <1>16, <1>20, <1>21, <1>22 DEF Going

-----------------------------------------------------------------------------
(* The arguments of a unit. *)

\* The arguments of g are identifiers, in their widths.
ArgsOK(g, iw) ==
  \A i \in DOMAIN g.argList : g.argList[i] \in DOMAIN iw /\ g.argBW[i] = iw[g.argList[i]]

\* What is called reads identifiers only.
CallsOK(q, iw) ==
  \A i \in 1 .. Len(q) : q[i].do = "call" => Identifiers[q[i].e] \subseteq DOMAIN iw

\* So it is with what is generated and what is left to do.
ArgInv ==
  /\ Inv
  /\ unit <= Len(body) => ArgsOK(gen, body[unit].inBW) /\ CallsOK(todo, body[unit].inBW)

\* The first frame is left, or others take its place.
LEMMA CallsOKReplace ==
  ASSUME NEW q \in Seq(Frame), q # <<>>, NEW iw, CallsOK(q, iw)
  PROVE  /\ CallsOK(Tail(q), iw)
         /\ \A p \in Seq(Frame) : CallsOK(p, iw) => CallsOK(p \o Tail(q), iw)
<1>1. CallsOK(Tail(q), iw)
  <2>1. /\ Len(q) \in Nat /\ Len(Tail(q)) = Len(q) - 1
        /\ \A i \in 1 .. Len(q) - 1 : Tail(q)[i] = q[i + 1]
    BY TailFacts
  <2>2. \A i \in 1 .. Len(q) - 1 : i + 1 \in 1 .. Len(q)
    BY <2>1
  <2> QED
    BY <2>1, <2>2 DEF CallsOK
<1>2. ASSUME NEW p \in Seq(Frame), CallsOK(p, iw) PROVE CallsOK(p \o Tail(q), iw)
  <2> DEFINE j == p \o Tail(q)
  <2>1. /\ Len(p) \in Nat /\ Len(q) \in Nat /\ Len(q) >= 1 /\ Len(j) = Len(p) + Len(q) - 1
        /\ \A i \in 1 .. Len(p) : j[i] = p[i]
        /\ \A i \in Len(p) + 1 .. Len(p) + Len(q) - 1 : j[i] = q[i - Len(p) + 1]
    BY ReplacedFacts
  <2> HIDE DEF j
  <2>2. \A i \in 1 .. Len(j) :
          \/ i \in 1 .. Len(p)
          \/ i \in Len(p) + 1 .. Len(p) + Len(q) - 1 /\ i - Len(p) + 1 \in 1 .. Len(q)
    BY <2>1
  <2>3. \A i \in 1 .. Len(j) : \/ \E k \in 1 .. Len(p) : j[i] = p[k]
                               \/ \E k \in 1 .. Len(q) : j[i] = q[k]
    BY <2>1, <2>2
  <2>4. CallsOK(j, iw)
    BY <1>2, <2>3 DEF CallsOK
  <2> QED
    BY <2>4 DEF j
<1> QED
  BY <1>1, <1>2

\* An expression calls its operands.
LEMMA OperandsOK ==
  ASSUME NEW e \in Exprs, NEW iw, Identifiers[e] \subseteq DOMAIN iw
  PROVE  /\ CallsOK(Calls(e.args), iw) /\ Calls(e.args) \in Seq(Frame)
         /\ \A key \in Nat : /\ CallsOK(OperandFrames(e, key), iw)
                             /\ OperandFrames(e, key) \in Seq(Frame)
         /\ e.op = "query" => CallsOK(QueryFrames(e), iw) /\ QueryFrames(e) \in Seq(Frame)
<1>1. /\ \A i \in DOMAIN e.args : Identifiers[e.args[i]] \subseteq DOMAIN iw
      /\ Len(e.args) \in Nat /\ DOMAIN e.args = 1 .. Len(e.args)
      /\ \A i \in 1 .. Len(e.args) : e.args[i] \in Exprs
  BY IdentifiersIs, ExprFacts, OperandsOf
<1>2. \A i \in 1 .. Len(e.args) : Call(e.args[i]).e = e.args[i]
  BY DEF Call
<1>3. CallsOK(Calls(e.args), iw) /\ Calls(e.args) \in Seq(Frame)
  <2>1. /\ Calls(e.args) \in Seq(Frame) /\ Len(Calls(e.args)) = Len(e.args)
        /\ \A i \in 1 .. Len(e.args) : Calls(e.args)[i] = Call(e.args[i])
    BY CallsFacts
  <2> QED
    BY <1>1, <1>2, <2>1 DEF CallsOK
<1>4. ASSUME NEW key \in Nat
      PROVE  CallsOK(OperandFrames(e, key), iw) /\ OperandFrames(e, key) \in Seq(Frame)
  <2>1. /\ OperandFrames(e, key) \in Seq(Frame)
        /\ Len(OperandFrames(e, key)) = Len(e.args) + 1
        /\ OperandFrames(e, key)[Len(e.args) + 1] = Emit(e, key)
        /\ \A i \in 1 .. Len(e.args) : OperandFrames(e, key)[i] = Call(e.args[i])
    BY OperandFramesFacts
  <2>2. Emit(e, key).do # "call"
    BY DEF Emit
  <2>3. \A i \in 1 .. Len(e.args) + 1 : i \in 1 .. Len(e.args) \/ i = Len(e.args) + 1
    BY <1>1
  <2> QED
    BY <1>1, <1>2, <2>1, <2>2, <2>3 DEF CallsOK
<1>5. ASSUME e.op = "query"
      PROVE  CallsOK(QueryFrames(e), iw) /\ QueryFrames(e) \in Seq(Frame)
  <2> DEFINE p == QueryFrames(e)
  <2>1. DOMAIN e.args = 1 .. 3 /\ \A i \in 1 .. 3 : e.args[i] \in Exprs
    BY <1>1, <1>5, ExprFacts DEF Arity
  <2>2. 0 \in Nat
    OBVIOUS
  <2>3. Emit(e, 0) \in Frame /\ EndCondition(e) \in Frame
    BY <2>2, FrameFacts
  <2>4. \A i \in 1 .. 3 : Call(e.args[i]) \in Frame
    BY <2>1, <2>2, FrameFacts
  <2>5. /\ p \in Seq(Frame) /\ Len(p) = 5 /\ p[1] = Call(e.args[1]) /\ p[2] = EndCondition(e)
        /\ p[3] = Call(e.args[2]) /\ p[4] = Call(e.args[3]) /\ p[5] = Emit(e, 0)
    BY <2>3, <2>4 DEF QueryFrames
  <2> HIDE DEF p
  <2>6. /\ Emit(e, 0).do # "call" /\ EndCondition(e).do # "call"
        /\ \A i \in 1 .. 3 : Call(e.args[i]).e = e.args[i]
    BY DEF Emit, EndCondition, Call
  <2>7. \A i \in 1 .. 3 : Identifiers[Call(e.args[i]).e] \subseteq DOMAIN iw
    BY <1>1, <2>1, <2>6
  <2>8. \A i \in 1 .. 5 : i = 1 \/ i = 2 \/ i = 3 \/ i = 4 \/ i = 5
    OBVIOUS
  <2>9. \A i \in 1 .. 5 : p[i].do = "call" => Identifiers[p[i].e] \subseteq DOMAIN iw
    BY <2>5, <2>6, <2>7, <2>8
  <2>10. CallsOK(p, iw)
    BY <2>5, <2>9 DEF CallsOK
  <2> QED
    BY <2>5, <2>10 DEF p
<1> QED
  BY <1>3, <1>4, <1>5

\* No argument is added.
LEMMA SameArgs ==
  ASSUME ArgInv, Inv', UNCHANGED <<body, unit>>,
         gen'.argList = gen.argList, gen'.argBW = gen.argBW,
         unit <= Len(body) => CallsOK(todo', body[unit].inBW)
  PROVE  ArgInv'
BY DEF ArgInv, ArgsOK

\* Operands take the place of the first call.
LEMMA CallArgs ==
  ASSUME ArgInv, Inv', CallCast \/ CallBool \/ CallOperator \/ CallQuery \/ CallConcat
  PROVE  ArgInv'
<1>0. Inv
  BY DEF ArgInv
<1>1. UNCHANGED <<body, unit, gen>>
  BY DEF CallCast, CallBool, CallOperator, CallQuery, CallConcat, genVars
<1>2. \E ops : At("call", ops)
  BY DEF CallCast, CallBool, CallOperator, CallQuery, CallConcat
<1>3. /\ Lowers /\ todo # <<>> /\ todo \in Seq(Frame) /\ Next1 = todo[1] /\ todo[1].e \in Exprs
      /\ todo[1].do = "call" /\ resSuffix \in Int /\ resSuffix >= -1
  BY <1>0, <1>2, AtFacts
<1> DEFINE e == todo[1].e
           iw == body[unit].inBW
<1>4. ASSUME unit <= Len(body) PROVE CallsOK(todo', iw)
  <2>1. CallsOK(todo, iw)
    BY <1>4 DEF ArgInv
  <2>2. Identifiers[e] \subseteq DOMAIN iw
    <3>1. 1 \in 1 .. Len(todo)
      BY <1>3, TailFacts
    <3> QED
      BY <1>3, <2>1, <3>1 DEF CallsOK
  <2>3. /\ CallsOK(Calls(e.args), iw) /\ Calls(e.args) \in Seq(Frame)
        /\ \A key \in Nat : /\ CallsOK(OperandFrames(e, key), iw)
                            /\ OperandFrames(e, key) \in Seq(Frame)
        /\ e.op = "query" => CallsOK(QueryFrames(e), iw) /\ QueryFrames(e) \in Seq(Frame)
    BY <1>3, <2>2, OperandsOK
  <2>4. \E p \in Seq(Frame) : todo' = p \o Tail(todo) /\ CallsOK(p, iw)
    <3>1. CASE CallCast \/ CallBool
      BY <1>3, <2>3, <3>1 DEF CallCast, CallBool
    <3>2. CASE CallOperator
      <4>1. todo' = OperandFrames(e, 0) \o Tail(todo) /\ 0 \in Nat
        BY <1>3, <3>2 DEF CallOperator, OperandFrames
      <4> QED
        BY <2>3, <4>1
    <3>3. CASE CallConcat
      <4>1. todo' = OperandFrames(e, resSuffix + 1) \o Tail(todo) /\ resSuffix + 1 \in Nat
        BY <1>3, <3>3 DEF CallConcat, OperandFrames
      <4> QED
        BY <2>3, <4>1
    <3>4. CASE CallQuery
      <4>1. todo' = QueryFrames(e) \o Tail(todo) /\ e.op = "query"
        BY <1>3, <3>4 DEF CallQuery, QueryFrames, At
      <4> QED
        BY <2>3, <4>1
    <3> QED
      BY <3>1, <3>2, <3>3, <3>4
  <2> QED
    BY <1>3, <2>1, <2>4, CallsOKReplace
<1> QED
  BY <1>1, <1>4, SameArgs

\* What generate does to the arguments: nothing.
LEMMA GenerateArgs ==
  ASSUME Inv, NEW to, NEW key, NEW op, NEW operands, NEW w, Generate(to, key, op, operands, w)
  PROVE  gen'.argList = gen.argList /\ gen'.argBW = gen.argBW
<1>1. PICK a, b, rb, c, h :
        gen = [argList |-> a, argBW |-> b, resBWList |-> rb, calc |-> c, hidden |-> h]
  BY DEF Inv, Collected, GenOK
<1>2. gen' = [argList |-> a, argBW |-> b, resBWList |-> Append(rb, w),
              calc |-> Append(c, [to |-> to, op |-> op, args |-> operands]),
              hidden |-> Told(h, key, [to |-> to, op |-> op, args |-> operands], w)]
  BY ONLY <1>1, Generate(to, key, op, operands, w) DEF Generate, Told
<1> QED
  BY ONLY <1>1, <1>2

\* The first frame is left.
LEMMA TailArgs ==
  ASSUME ArgInv, Inv', UNCHANGED <<body, unit>>, todo # <<>>, todo \in Seq(Frame),
         todo' = Tail(todo), gen'.argList = gen.argList, gen'.argBW = gen.argBW
  PROVE  ArgInv'
<1>1. unit <= Len(body) => CallsOK(todo', body[unit].inBW)
  BY CallsOKReplace DEF ArgInv
<1> QED
  BY <1>1, SameArgs

\* Steps that return a name, and do not take an argument.
LEMMA ReturnArgs ==
  ASSUME ArgInv, Inv', CallInt \/ ReturnCondition \/ EmitOperator \/ EmitQuery \/ EmitConcat
  PROVE  ArgInv'
<1>0. Inv
  BY DEF ArgInv
<1>1. \E do, ops : At(do, ops)
  BY DEF CallInt, ReturnCondition, EmitOperator, EmitQuery, EmitConcat
<1>2. todo # <<>> /\ todo \in Seq(Frame)
  BY <1>0, <1>1, AtFacts
<1>3. todo' = Tail(todo) /\ UNCHANGED <<body, unit>>
  BY DEF CallInt, ReturnCondition, EmitOperator, EmitQuery, EmitConcat
<1>4. gen'.argList = gen.argList /\ gen'.argBW = gen.argBW
  <2>1. CASE CallInt \/ ReturnCondition
    BY <2>1 DEF CallInt, ReturnCondition, genVars
  <2>2. CASE EmitOperator \/ EmitQuery \/ EmitConcat
    <3>1. \E to, key, op, operands, w : Generate(to, key, op, operands, w)
      BY <2>2 DEF EmitOperator, EmitQuery, EmitConcat
    <3> QED
      BY <1>0, <3>1, GenerateArgs
  <2> QED
    BY <2>1, <2>2
<1> QED
  BY <1>2, <1>3, <1>4, TailArgs

\* An identifier becomes an argument in its width.
LEMMA VarArgs == ASSUME ArgInv, Inv', CallVar PROVE ArgInv'
<1>0. Inv
  BY DEF ArgInv
<1>1. At("call", {"var"}) /\ todo' = Tail(todo) /\ UNCHANGED <<body, unit>>
  BY DEF CallVar
<1>2. /\ Lowers /\ todo # <<>> /\ todo \in Seq(Frame) /\ Next1 = todo[1] /\ todo[1].e \in Exprs
      /\ todo[1].do = "call" /\ todo[1].e.op = "var"
  BY <1>0, <1>1, AtFacts
<1> DEFINE id == todo[1].e.n
           iw == body[unit].inBW
<1>3. CASE gen' = gen
  BY <1>1, <1>2, <1>3, TailArgs
<1>4. CASE gen' = [gen EXCEPT !.argList = Append(@, id), !.argBW = Append(@, iw[id])]
  <2>1. PICK a, b, rb, c, h :
          gen = [argList |-> a, argBW |-> b, resBWList |-> rb, calc |-> c, hidden |-> h]
    BY <1>0 DEF Inv, Collected, GenOK
  <2>2. a = gen.argList /\ b = gen.argBW
    BY ONLY <2>1
  <2>3. IsSeq(a) /\ IsSeq(b) /\ Len(a) = Len(b)
    BY <1>0, <2>2 DEF Inv, Collected, GenOK
  <2>4. gen'.argList = Append(a, id) /\ gen'.argBW = Append(b, iw[id])
    <3> HIDE DEF id, iw
    <3>1. gen' = [argList |-> Append(a, id), argBW |-> Append(b, iw[id]), resBWList |-> rb,
                  calc |-> c, hidden |-> h]
      BY ONLY <1>4, <2>1
    <3> QED
      BY ONLY <3>1
  <2>5. ASSUME unit <= Len(body)
        PROVE  ArgsOK(gen', iw) /\ CallsOK(todo', iw)
    <3>1. ArgsOK(gen, iw) /\ CallsOK(todo, iw)
      BY <2>5 DEF ArgInv
    <3>2. CallsOK(todo', iw)
      BY <1>1, <1>2, <3>1, CallsOKReplace
    <3>3. id \in DOMAIN iw
      <4>1. 1 \in 1 .. Len(todo)
        BY <1>2, TailFacts
      <4>2. Identifiers[todo[1].e] \subseteq DOMAIN iw
        BY <1>2, <3>1, <4>1 DEF CallsOK
      <4> QED
        BY <1>2, <4>2, IdentifiersIs
    <3> HIDE DEF id, iw
    <3>4. /\ DOMAIN a = 1 .. Len(a) /\ DOMAIN gen'.argList = 1 .. Len(a) + 1
          /\ gen'.argList[Len(a) + 1] = id /\ \A i \in 1 .. Len(a) : gen'.argList[i] = a[i]
          /\ Len(a) \in Nat
      BY <2>3, <2>4, AppendIsSeq
    <3>5. /\ gen'.argBW[Len(a) + 1] = iw[id] /\ \A i \in 1 .. Len(a) : gen'.argBW[i] = b[i]
      BY <2>3, <2>4, AppendIsSeq
    <3>6. \A i \in 1 .. Len(a) : a[i] \in DOMAIN iw /\ b[i] = iw[a[i]]
      BY <2>2, <3>1, <3>4 DEF ArgsOK
    <3>7. \A i \in 1 .. Len(a) + 1 : i \in 1 .. Len(a) \/ i = Len(a) + 1
      BY <3>4
    <3>8. ArgsOK(gen', iw)
      BY <3>3, <3>4, <3>5, <3>6, <3>7 DEF ArgsOK
    <3> QED
      BY <3>2, <3>8
  <2> QED
    BY <1>1, <2>5 DEF ArgInv
<1>5. gen' = gen \/ gen' = [gen EXCEPT !.argList = Append(@, id), !.argBW = Append(@, iw[id])]
  BY <1>2 DEF CallVar
<1> QED
  BY <1>3, <1>4, <1>5

\* The start and the end of a part: a root calls identifiers of its unit.
LEMMA PartArgs == ASSUME ArgInv, Inv', CreateSource \/ LowerPart \/ EndPart PROVE ArgInv'
<1>0. Inv
  BY DEF ArgInv
<1>1. UNCHANGED <<body, unit>>
  BY DEF CreateSource, LowerPart, EndPart
<1>2. gen'.argList = gen.argList /\ gen'.argBW = gen.argBW
  <2>1. CASE UNCHANGED gen
    BY <2>1
  <2>2. CASE \E to, key, op, operands, w : Generate(to, key, op, operands, w)
    BY <1>0, <2>2, GenerateArgs
  <2>3. UNCHANGED gen \/ \E to, key, op, operands, w : Generate(to, key, op, operands, w)
    BY DEF CreateSource, LowerPart, EndPart, genVars
  <2> QED
    BY <2>1, <2>2, <2>3
<1>3. CASE todo' = todo
  BY <1>0, <1>1, <1>2, <1>3, SameArgs DEF ArgInv
<1>4. CASE LowerPart
  <2>1. todo' = <<Call(Root)>> /\ unit <= Len(body) /\ part <= Len(body[unit].exprs)
    BY <1>4 DEF LowerPart, Between
  <2>2. unit \in 1 .. Len(body) /\ part \in Nat \ {0} /\ DOMAIN body = 1 .. Len(body)
    <3>1. body \in Seq({body[i] : i \in DOMAIN body})
      BY <1>0, BodyAssumption DEF Inv
    <3> QED
      BY <1>0, <2>1, <3>1, UnitFacts DEF Inv
  <2>3. body[unit].exprs \in Seq(Exprs)
    BY <1>0, <2>2, UnitFacts
  <2>4. part \in DOMAIN body[unit].exprs
    BY <2>1, <2>2, <2>3
  <2>5. Identifiers[Root] \subseteq DOMAIN body[unit].inBW
    BY <1>0, <2>2, <2>4, BodyAssumption DEF Inv, Root
  <2>6. /\ Len(todo') = 1 /\ todo'[1] = Call(Root)
    BY <2>1
  <2>7. Call(Root).e = Root
    BY DEF Call
  <2>8. CallsOK(todo', body[unit].inBW)
    <3>1. \A i \in 1 .. 1 : i = 1
      OBVIOUS
    <3> QED
      BY <2>5, <2>6, <2>7, <3>1 DEF CallsOK
  <2> QED
    BY <1>1, <1>2, <2>8, SameArgs
<1>5. LowerPart \/ todo' = todo
  BY DEF CreateSource, EndPart
<1> QED
  BY <1>3, <1>4, <1>5

\* The next unit has no arguments yet.
LEMMA PrintArgs == ASSUME ArgInv, Inv', PrintUnit PROVE ArgInv'
<1>1. gen' = EmptyGen /\ todo' = <<>>
  BY DEF PrintUnit, Between
<1>2. \A iw : ArgsOK(EmptyGen, iw) /\ CallsOK(<<>>, iw)
  <2>1. EmptyGen.argList = <<>> /\ DOMAIN <<>> = {} /\ Len(<<>>) = 0
    BY EmptyFacts DEF EmptyGen
  <2> QED
    BY <2>1 DEF ArgsOK, CallsOK
<1> QED
  BY <1>1, <1>2 DEF ArgInv

\* Every step preserves the invariant.
LEMMA NextArgs == ASSUME ArgInv, [Next]_vars PROVE ArgInv'
<1>1. Inv'
  BY NextInv DEF ArgInv
<1>2. CASE UNCHANGED vars \/ RejectQuery
  <2>1. UNCHANGED <<body, unit, todo, gen>>
    BY <1>2 DEF vars, RejectQuery, genVars
  <2> QED
    BY <1>1, <2>1 DEF ArgInv
<1> QED
  BY <1>1, <1>2, CallArgs, ReturnArgs, VarArgs, PartArgs, PrintArgs DEF Next

\* Nothing is called and nothing read at the start.
LEMMA InitArgs == Init => ArgInv
<1> SUFFICES ASSUME Init PROVE ArgInv
  OBVIOUS
<1>1. gen = EmptyGen /\ todo = <<>>
  BY DEF Init
<1>2. \A iw : ArgsOK(EmptyGen, iw) /\ CallsOK(<<>>, iw)
  <2>1. EmptyGen.argList = <<>> /\ DOMAIN <<>> = {} /\ Len(<<>>) = 0
    BY EmptyFacts DEF EmptyGen
  <2> QED
    BY <2>1 DEF ArgsOK, CallsOK
<1> QED
  BY <1>1, <1>2, InitInv DEF ArgInv

-----------------------------------------------------------------------------
(* What the lowering of a unit has made. *)

\* The width in which part p of unit b is calculated, if it keeps the low bits, and
\* what its result then is.
PartWidth(e, w) == IF e.op = "bool" THEN 1 ELSE w
WidthAtPart(b, p) == PartWidth(b.exprs[p], b.outBW[p])
GoodPart(b, p) == Good(WidthAtPart(b, p), b.exprs[p])
LabelOf(b, p) == <<UnderCasts[b.exprs[p]], WidthAtPart(b, p)>>

\* The results sent for the parts of b before p are what they should be.
OutputAt(es, p) == Cardinality({m \in Calculated(es) : m <= p})
OutsMean(L, b, o, p) ==
  \A q \in Calculated(b.exprs) : (q < p /\ GoodPart(b, q)) =>
    /\ o[OutputAt(b.exprs, q)].res \in Int /\ o[OutputAt(b.exprs, q)].res + 1 \in DOMAIN L
    /\ L[o[OutputAt(b.exprs, q)].res + 1] = LabelOf(b, q)

\* A bool is about to be lowered, in the width of its output.
Starts(root, q, s, c) == root.op = "bool" /\ q = <<Call(root)>> /\ s = <<>> /\ Len(c) = 1

\* The part is at its start, or on its way to the label of its root.
InPart(L, b, p, al, q, s, c, r) ==
  GoodPart(b, p) => \/ Starts(b.exprs[p], q, s, c)
                    \/ Going(L, b.exprs[p], WidthAtPart(b, p), al, q, s, c, r)

\* L says what the unit being generated calculates.
UnitMeans(L) ==
  /\ Labelled(L, gen.calc, gen.resBWList, gen.argList)
  /\ OutsMean(L, body[unit], outs, part)
  /\ Idles \/ InPart(L, body[unit], part, gen.argList, todo, names, resBW, resSuffix)

\* What is generated can be labelled.
MeanInv == NameInv /\ ArgInv /\ (unit <= Len(body) => \E L : UnitMeans(L))

\* The results sent stay what they are.
LEMMA OutsMeanMore ==
  ASSUME NEW L, NEW M, Prefixed(L, M), NEW b, NEW o, NEW p, OutsMean(L, b, o, p)
  PROVE  OutsMean(M, b, o, p)
BY DEF OutsMean, Prefixed

\* In the middle of a part, no statement is generated.
LEMMA SilentMean ==
  ASSUME MeanInv, NameInv', ArgInv', UNCHANGED <<body, unit, part, outs>>, ~Idles,
         gen'.calc = gen.calc, gen'.resBWList = gen.resBWList, Prefixed(gen.argList, gen'.argList),
         \A L : InPart(L, body[unit], part, gen.argList, todo, names, resBW, resSuffix)
                  /\ GoodPart(body[unit], part) =>
                InPart(L, body[unit], part, gen'.argList, todo', names', resBW', resSuffix')
  PROVE  MeanInv'
<1>1. ASSUME unit <= Len(body) PROVE \E L : UnitMeans(L)'
  <2>1. PICK L : UnitMeans(L)
    BY <1>1 DEF MeanInv
  <2>2. Labelled(L, gen'.calc, gen'.resBWList, gen'.argList)
    BY <2>1, LabelledArgs DEF UnitMeans
  <2>4. InPart(L, body[unit], part, gen'.argList, todo', names', resBW', resSuffix')
    BY <2>1 DEF UnitMeans, InPart
  <2> QED
    BY <2>1, <2>2, <2>4 DEF UnitMeans
<1> QED
  BY <1>1 DEF MeanInv

\* In the middle of a part, a statement is generated.
LEMMA StatementMean ==
  ASSUME MeanInv, NameInv', ArgInv', UNCHANGED <<body, unit, part, outs>>, ~Idles,
         NEW st \in Statement, NEW w, gen'.calc = Append(gen.calc, st),
         gen'.resBWList = Append(gen.resBWList, w), gen'.argList = gen.argList,
         st.to >= Len(gen.calc),
         \A L \in Seq(Label \cup {None}) :
           (/\ InPart(L, body[unit], part, gen.argList, todo, names, resBW, resSuffix)
            /\ GoodPart(body[unit], part) /\ Len(L) = Len(gen.calc)) =>
           \E l \in Label :
             /\ st.to = Len(gen.calc) /\ w = l[2] /\ Means(L, gen.argList, st, l)
             /\ \A i \in DOMAIN st.args : st.args[i][1] = "res" => st.args[i][2] < Len(gen.calc)
             /\ InPart(Append(L, l), body[unit], part, gen.argList, todo', names', resBW',
                       resSuffix')
  PROVE  MeanInv'
<1>0. IsSeq(gen.resBWList)
  BY DEF MeanInv, NameInv, Inv, Collected, GenOK
<1>1. ASSUME unit <= Len(body) PROVE \E L : UnitMeans(L)'
  <2>1. PICK L : UnitMeans(L)
    BY <1>1 DEF MeanInv
  <2>2. Labelled(L, gen.calc, gen.resBWList, gen.argList)
    BY <2>1 DEF UnitMeans
  <2>3. L \in Seq(Label \cup {None}) /\ Len(L) = Len(gen.calc)
    BY <2>2 DEF Labelled
  <2>4. InPart(L, body[unit], part, gen.argList, todo, names, resBW, resSuffix)
    BY <2>1 DEF UnitMeans
  <2>5. PICK l \in Label \cup {None} :
          /\ l # None =>
               /\ st.to = Len(gen.calc) /\ w = l[2] /\ Means(L, gen.argList, st, l)
               /\ \A i \in DOMAIN st.args :
                    st.args[i][1] = "res" => st.args[i][2] < Len(gen.calc)
          /\ InPart(Append(L, l), body[unit], part, gen.argList, todo', names', resBW',
                    resSuffix')
    <3>1. CASE GoodPart(body[unit], part)
      BY <2>3, <2>4, <3>1
    <3>2. CASE ~GoodPart(body[unit], part)
      BY <3>2 DEF InPart
    <3> QED
      BY <3>1, <3>2
  <2>6. Labelled(Append(L, l), gen'.calc, gen'.resBWList, gen'.argList)
    BY <1>0, <2>2, <2>5, LabelledMore
  <2>7. Prefixed(L, Append(L, l))
    BY <2>3, SeqIsSeq, AppendPrefixed
  <2>8. OutsMean(Append(L, l), body[unit], outs, part)
    BY <2>1, <2>7, OutsMeanMore DEF UnitMeans
  <2> QED
    BY <2>5, <2>6, <2>8 DEF UnitMeans
<1> QED
  BY <1>1 DEF MeanInv

\* A frame that is not the call of a bool, is not the start of one.
LEMMA NotStarts ==
  ASSUME NEW L, NEW b, NEW p, NEW al, NEW q, NEW s, NEW c, NEW r,
         InPart(L, b, p, al, q, s, c, r), GoodPart(b, p),
         q[1].do # "call" \/ q[1].e.op # "bool"
  PROVE  Going(L, b.exprs[p], WidthAtPart(b, p), al, q, s, c, r)
<1>1. ASSUME Starts(b.exprs[p], q, s, c) PROVE FALSE
  <2>1. q[1] = Call(b.exprs[p]) /\ b.exprs[p].op = "bool"
    BY <1>1 DEF Starts
  <2> QED
    BY <2>1 DEF Call
<1> QED
  BY <1>1 DEF InPart

\* A literal.
LEMMA IntMean == ASSUME MeanInv, NameInv', ArgInv', CallInt PROVE MeanInv'
<1>0. Inv
  BY DEF MeanInv, NameInv
<1>1. /\ At("call", {"int"}) /\ todo' = Tail(todo) /\ names' = Left(names, 0, <<"int", Next1.e.n>>)
      /\ UNCHANGED <<body, unit, part, resBW, gen, resSuffix, outs>>
  BY DEF CallInt, genVars, Return, Left
<1>2. /\ todo # <<>> /\ todo \in Seq(Frame) /\ names \in Seq(Name)
      /\ Next1 = todo[1] /\ todo[1].e \in Exprs /\ todo[1].do = "call" /\ todo[1].e.op = "int"
  BY <1>0, <1>1, AtFacts
<1> DEFINE nm == <<"int", todo[1].e.n>>
<1>3. nm \in Name
  BY <1>2, ExprFacts DEF Name
<1>4. ASSUME NEW L PROVE \A m : Denotes(L, gen.argList, nm, <<todo[1].e, m>>)
  BY <1>2 DEF Denotes
<1>5. Prefixed(gen.argList, gen.argList)
  BY DEF Prefixed
<1> HIDE DEF nm
<1>6. ASSUME NEW L, InPart(L, body[unit], part, gen.argList, todo, names, resBW, resSuffix),
             GoodPart(body[unit], part)
      PROVE  InPart(L, body[unit], part, gen.argList, todo', names', resBW', resSuffix')
  <2>1. Going(L, body[unit].exprs[part], WidthAtPart(body[unit], part), gen.argList, todo, names,
              resBW, resSuffix)
    BY <1>2, <1>6, NotStarts
  <2>2. names' = Left(names, 0, nm)
    BY <1>1, <1>2 DEF nm
  <2>3. Going(L, body[unit].exprs[part], WidthAtPart(body[unit], part), gen.argList, Tail(todo),
              names', resBW, resSuffix)
    BY <1>2, <1>3, <1>4, <1>5, <2>1, <2>2, GoingLeaf
  <2> QED
    BY <1>1, <2>3 DEF InPart
<1>7. ~Idles
  BY <1>2 DEF Idles
<1> QED
  BY <1>1, <1>5, <1>6, <1>7, SilentMean

-----------------------------------------------------------------------------
(* The steps. *)

\* An identifier returns the argument that it is.
LEMMA VarMean == ASSUME MeanInv, NameInv', ArgInv', CallVar PROVE MeanInv'
<1>0. Inv
  BY DEF MeanInv, NameInv
<1>1. /\ At("call", {"var"}) /\ todo' = Tail(todo)
      /\ UNCHANGED <<body, unit, part, resBW, resSuffix, outs>>
  BY DEF CallVar
<1>2. /\ todo # <<>> /\ todo \in Seq(Frame) /\ names \in Seq(Name)
      /\ Next1 = todo[1] /\ todo[1].e \in Exprs /\ todo[1].do = "call" /\ todo[1].e.op = "var"
  BY <1>0, <1>1, AtFacts
<1> DEFINE id == todo[1].e.n
           al == gen.argList
           old == {i \in DOMAIN al : al[i] = id}
<1>3. IsSeq(al) /\ Len(al) \in Nat /\ DOMAIN al = 1 .. Len(al)
  <2>1. IsSeq(al)
    BY <1>0 DEF Inv, Collected, GenOK
  <2> QED
    BY <2>1, AppendIsSeq
<1>4. PICK nm : /\ names' = Left(names, 0, nm) /\ nm \in Name /\ nm[1] = "x"
                /\ nm[2] + 1 \in DOMAIN gen'.argList /\ gen'.argList[nm[2] + 1] = id
                /\ gen'.calc = gen.calc /\ gen'.resBWList = gen.resBWList
                /\ Prefixed(al, gen'.argList)
  <2>1. CASE old = {}
    <3>1. /\ gen' = [gen EXCEPT !.argList = Append(@, id),
                                !.argBW = Append(@, body[unit].inBW[id])]
          /\ names' = Left(names, 0, <<"x", Len(al)>>)
      BY <1>2, <2>1 DEF CallVar, Return, Left
    <3>2. PICK a, b, rb, c, h :
            gen = [argList |-> a, argBW |-> b, resBWList |-> rb, calc |-> c, hidden |-> h]
      BY <1>0 DEF Inv, Collected, GenOK
    <3>3. a = al /\ rb = gen.resBWList /\ c = gen.calc
      BY ONLY <3>2
    <3>4. gen'.argList = Append(a, id) /\ gen'.calc = c /\ gen'.resBWList = rb
      <4> HIDE DEF id, al, old
      <4>1. gen' = [argList |-> Append(a, id), argBW |-> Append(b, body[unit].inBW[id]),
                    resBWList |-> rb, calc |-> c, hidden |-> h]
        BY ONLY <3>1, <3>2
      <4> QED
        BY ONLY <4>1
    <3> HIDE DEF al, old, id
    <3>5. /\ Len(al) + 1 \in DOMAIN gen'.argList /\ gen'.argList[Len(al) + 1] = id
          /\ Prefixed(al, gen'.argList)
      <4>1. gen'.argList = Append(al, id)
        BY <3>3, <3>4
      <4>2. Prefixed(al, Append(al, id)) /\ DOMAIN Append(al, id) = 1 .. Len(al) + 1
            /\ Append(al, id)[Len(al) + 1] = id
        BY <1>3, AppendPrefixed, AppendIsSeq
      <4>3. Len(al) + 1 \in 1 .. Len(al) + 1
        BY <1>3
      <4> QED
        BY <4>1, <4>2, <4>3
    <3>6. PICK nm : nm = <<"x", Len(al)>>
      OBVIOUS
    <3>7. nm \in Name /\ nm[1] = "x" /\ nm[2] = Len(al)
      BY <1>3, <3>6 DEF Name
    <3> QED
      BY <3>1, <3>3, <3>4, <3>5, <3>6, <3>7
  <2>2. CASE old # {}
    <3> DEFINE i == CHOOSE i \in old : TRUE
    <3>1. gen' = gen /\ names' = Left(names, 0, <<"x", i - 1>>)
      BY <1>2, <2>2 DEF CallVar, Return, Left
    <3>2. i \in DOMAIN al /\ al[i] = id
      BY <2>2
    <3> HIDE DEF i
    <3>3. i \in Nat /\ i >= 1 /\ i - 1 \in Nat /\ i - 1 + 1 = i
      BY <1>3, <3>2
    <3>4. PICK nm : nm = <<"x", i - 1>>
      OBVIOUS
    <3>5. nm \in Name /\ nm[1] = "x" /\ nm[2] + 1 = i
      BY <3>3, <3>4 DEF Name
    <3> QED
      BY <3>1, <3>2, <3>4, <3>5 DEF Prefixed
  <2> QED
    BY <2>1, <2>2
<1>5. ASSUME NEW L PROVE \A m : Denotes(L, gen'.argList, nm, <<todo[1].e, m>>)
  BY <1>2, <1>4 DEF Denotes
<1> HIDE DEF al, old, id
<1>6. ASSUME NEW L, InPart(L, body[unit], part, gen.argList, todo, names, resBW, resSuffix),
             GoodPart(body[unit], part)
      PROVE  InPart(L, body[unit], part, gen'.argList, todo', names', resBW', resSuffix')
  <2>1. Going(L, body[unit].exprs[part], WidthAtPart(body[unit], part), gen.argList, todo, names,
              resBW, resSuffix)
    BY <1>2, <1>6, NotStarts
  <2>2. Going(L, body[unit].exprs[part], WidthAtPart(body[unit], part), gen'.argList, Tail(todo),
              names', resBW, resSuffix)
    BY <1>2, <1>4, <1>5, <2>1, GoingLeaf DEF al
  <2> QED
    BY <1>1, <2>2 DEF InPart
<1>7. ~Idles
  BY <1>2 DEF Idles
<1> QED
  BY <1>1, <1>4, <1>6, <1>7, SilentMean DEF al

\* What is called calculates its expression well in the width in scope.
LEMMA GoingGood ==
  ASSUME NEW L, NEW root, NEW w, NEW al, NEW q, NEW s, NEW c, NEW r,
         Going(L, root, w, al, q, s, c, r), q \in Seq(Frame), q # <<>>, q[1].do = "call"
  PROVE  Len(c) >= 1 /\ Good(Top(c), q[1].e)
<1>1. PICK t : Leads(root, w, q, t, c)
  BY DEF Going
<1>2. \E u \in Seq(Label), d \in Cells : Does(q[1], t, c, u, d)
  BY <1>1, LeadsFacts
<1> QED
  BY <1>2 DEF Does

\* The operands of an operator, and its statement, take the place of its call.
LEMMA GoingOperands ==
  ASSUME NEW L, NEW root, NEW w, NEW al, NEW q, NEW s, NEW c, NEW r,
         Going(L, root, w, al, q, s, c, r), q \in Seq(Frame), q # <<>>, q[1].do = "call",
         NEW e \in Exprs, e = q[1].e, e.op \in Operators \cup {"concat"}, NEW key \in Nat,
         NEW n, IF e.op = "concat" THEN n = key ELSE n = r
  PROVE  Going(L, root, w, al, OperandFrames(e, key) \o Tail(q), s, c, n)
<1> DEFINE p == OperandFrames(e, key)
<1>1. /\ p \in Seq(Frame) /\ Len(e.args) \in Nat /\ Len(p) = Len(e.args) + 1
      /\ p[Len(e.args) + 1] = Emit(e, key)
      /\ \A i \in 1 .. Len(e.args) : p[i] = Call(e.args[i])
  BY OperandFramesFacts
<1>2. \A t : Leads(root, w, q, t, c) => Leads(root, w, p \o Tail(q), t, c)
  BY LeadsOperands
<1> HIDE DEF p
<1>3. ASSUME NEW i \in 1 .. Len(p), IsConcat(p[i])
      PROVE  p[i].key = n /\ \A j \in 1 .. i - 1 : p[j].do = "call" /\ p[j].e.op = "var"
  <2>0. \A x : Call(x).do = "call" /\ Call(x).e = x
    BY DEF Call
  <2>1. i \in 1 .. Len(e.args) \/ i = Len(e.args) + 1
    BY <1>1
  <2>2. i \notin 1 .. Len(e.args)
    BY <1>1, <1>3, <2>0 DEF IsConcat
  <2>3. i = Len(e.args) + 1 /\ p[i] = Emit(e, key)
    BY <1>1, <2>1, <2>2
  <2>4. e.op = "concat" /\ p[i].key = key
    BY <1>3, <2>3 DEF IsConcat, Emit
  <2>5. \A j \in DOMAIN e.args : e.args[j].op = "var"
    BY <2>4, GoingGood, GoodOperands
  <2>6. DOMAIN e.args = 1 .. Len(e.args)
    BY <1>1, ExprFacts
  <2>7. \A j \in 1 .. i - 1 : j \in 1 .. Len(e.args)
    BY <1>1, <2>3
  <2>8. \A j \in 1 .. i - 1 : p[j] = Call(e.args[j]) /\ e.args[j].op = "var"
    BY <1>1, <2>5, <2>6, <2>7
  <2>9. p[i].key = n
    BY <2>4
  <2> QED
    BY <2>0, <2>8, <2>9
<1>4. Len(p) # 0
  BY <1>1
<1>5. q[1].e.op # "var"
  BY DEF Operators
<1>6. Going(L, root, w, al, p \o Tail(q), s, c, n)
  BY <1>1, <1>2, <1>3, <1>4, <1>5, GoingReplace
<1> QED
  BY <1>6 DEF p

\* The operand of a cast.
LEMMA GoingCast ==
  ASSUME NEW L, NEW root, NEW w, NEW al, NEW q, NEW s, NEW c, NEW r,
         Going(L, root, w, al, q, s, c, r), q \in Seq(Frame), q # <<>>, q[1].do = "call",
         NEW e \in Exprs, e = q[1].e, e.op \in {"cast", "bool"}
  PROVE  /\ Going(L, root, w, al, Calls(e.args) \o Tail(q), s, c, r)
         /\ Len(c) >= 1 /\ (e.op = "bool" => Top(c) = 1)
<1> DEFINE p == Calls(e.args)
<1>1. \A t : Leads(root, w, q, t, c) =>
        Leads(root, w, p \o Tail(q), t, c) /\ Len(c) >= 1 /\ (e.op = "bool" => Top(c) = 1)
  BY LeadsCast
<1>2. \E t : Leads(root, w, q, t, c)
  BY DEF Going
<1>3. p \in Seq(Frame) /\ Len(p) = 1 /\ p[1] = Call(e.args[1])
  <2>1. Len(e.args) = 1
    BY ExprFacts DEF Arity
  <2> QED
    BY <2>1, CallsFacts
<1> HIDE DEF p
<1>4. \A i \in 1 .. Len(p) : ~IsConcat(p[i])
  <2>1. \A i \in 1 .. Len(p) : i = 1
    BY <1>3
  <2> QED
    BY <1>3, <2>1 DEF IsConcat, Call
<1>5. Len(p) # 0 /\ q[1].e.op # "var"
  BY <1>3
<1>6. \A t : Leads(root, w, q, t, c) => Leads(root, w, p \o Tail(q), t, c)
  BY <1>1
<1>7. Going(L, root, w, al, p \o Tail(q), s, c, r)
  BY <1>3, <1>4, <1>5, <1>6, GoingReplace
<1> QED
  BY <1>1, <1>2, <1>7 DEF p

\* The condition of a query, and the rest.
LEMMA GoingQuery ==
  ASSUME NEW L, NEW root, NEW w, NEW al, NEW q, NEW s, NEW c, NEW r,
         Going(L, root, w, al, q, s, c, r), q \in Seq(Frame), q # <<>>, q[1].do = "call",
         NEW e \in Exprs, e = q[1].e, e.op = "query"
  PROVE  Going(L, root, w, al, QueryFrames(e) \o Tail(q), s, Append(c, 1), r)
<1> DEFINE p == QueryFrames(e)
           d == Append(c, 1)
<1>1. \A t : Leads(root, w, q, t, c) => Leads(root, w, p \o Tail(q), t, d)
  BY LeadsQuery
<1>2. p \in Seq(Frame) /\ Len(p) = 5
  <2>1. DOMAIN e.args = 1 .. 3
    BY ExprFacts DEF Arity
  <2>2. \A i \in 1 .. 3 : e.args[i] \in Exprs
    BY <2>1, OperandsOf
  <2>3. 0 \in Nat
    OBVIOUS
  <2>4. /\ Emit(e, 0) \in Frame /\ EndCondition(e) \in Frame
        /\ \A i \in 1 .. 3 : Call(e.args[i]) \in Frame
    BY <2>2, <2>3, FrameFacts
  <2> QED
    BY <2>4 DEF QueryFrames
<1>3. \A i \in 1 .. 5 : ~IsConcat(p[i])
  <2>1. \A i \in 1 .. 5 : i = 1 \/ i = 2 \/ i = 3 \/ i = 4 \/ i = 5
    OBVIOUS
  <2>2. /\ p[1] = Call(e.args[1]) /\ p[2] = EndCondition(e) /\ p[3] = Call(e.args[2])
        /\ p[4] = Call(e.args[3]) /\ p[5] = Emit(e, 0)
    BY DEF QueryFrames
  <2> HIDE DEF p
  <2>3. /\ ~IsConcat(p[1]) /\ ~IsConcat(p[2]) /\ ~IsConcat(p[3]) /\ ~IsConcat(p[4])
        /\ ~IsConcat(p[5])
    BY <2>2 DEF IsConcat, Call, Emit, EndCondition
  <2> QED
    BY <2>1, <2>3
<1> HIDE DEF p, d
<1>4. /\ Len(p) # 0 /\ q[1].e.op # "var" /\ \A i \in 1 .. Len(p) : ~IsConcat(p[i])
  BY <1>2, <1>3
<1>5. Going(L, root, w, al, p \o Tail(q), s, d, r)
  BY <1>1, <1>2, <1>4, GoingReplace
<1> QED
  BY <1>5 DEF p, d

\* A bool is lowered in one bit.
LEMMA GoingBool ==
  ASSUME NEW L, NEW b, NEW p, b.exprs[p] \in Exprs, NEW al, NEW q, NEW s, NEW c, NEW r,
         InPart(L, b, p, al, q, s, c, r), GoodPart(b, p), q \in Seq(Frame), q # <<>>,
         q[1].do = "call", NEW e \in Exprs, e = q[1].e, e.op = "bool",
         NEW d, d = [c EXCEPT ![Len(c)] = 1]
  PROVE  Going(L, b.exprs[p], WidthAtPart(b, p), al, Calls(e.args) \o Tail(q), s, d, r)
<1> DEFINE root == b.exprs[p]
           w == WidthAtPart(b, p)
<1>1. CASE Going(L, root, w, al, q, s, c, r)
  <2>1. /\ Going(L, root, w, al, Calls(e.args) \o Tail(q), s, c, r)
        /\ Len(c) >= 1 /\ Top(c) = 1
    BY <1>1, GoingCast
  <2>2. c \in Cells
    <3>1. PICK t : Leads(root, w, q, t, c)
      BY <1>1 DEF Going
    <3> QED
      BY <3>1, LeadsFacts
  <2>3. d = c
    <3>1. c \in Seq(Nat \ {0}) /\ Len(c) \in DOMAIN c /\ c[Len(c)] = 1
      BY <2>1, <2>2 DEF Cells, Top
    <3>2. c = [i \in DOMAIN c |-> c[i]]
      BY <3>1
    <3> QED
      BY <3>1, <3>2
  <2> QED
    BY <2>1, <2>3
<1>2. CASE Starts(root, q, s, c)
  <2>1. root.op = "bool" /\ q = <<Call(root)>> /\ s = <<>> /\ Len(c) = 1
    BY <1>2 DEF Starts
  <2>2. e = root /\ Tail(q) = <<>>
    BY <2>1 DEF Call
  <2>3. w = 1 /\ Good(1, root)
    BY <2>1 DEF WidthAtPart, PartWidth, GoodPart
  <2>4. DOMAIN e.args = 1 .. 1 /\ Len(e.args) = 1
    BY ExprFacts DEF Arity
  <2>5. e.args[1] \in Exprs /\ UnderCasts[e.args[1]] = UnderCasts[e]
    BY <2>4, OperandsOf, UnderCastsOf
  <2>6. Good(1, e.args[1])
    <3>1. OperandWidth(e, 1, 1) = 1
      BY DEF OperandWidth
    <3>2. 1 \in DOMAIN e.args
      BY <2>4
    <3>3. Good(OperandWidth(e, 1, 1), e.args[1])
      BY <2>2, <2>3, <3>2, GoodOperands
    <3> QED
      BY <3>1, <3>3
  <2>7. Calls(e.args) = <<Call(e.args[1])>> /\ Calls(e.args) \in Seq(Frame)
    <3>1. PICK cs, o : cs = Calls(e.args) /\ o = <<Call(e.args[1])>>
      OBVIOUS
    <3>2. cs \in Seq(Frame) /\ Len(cs) = 1 /\ cs[1] = Call(e.args[1])
      BY <2>4, <3>1, CallsFacts, SMTT(30)
    <3>3. Call(e.args[1]) \in Frame
      <4>1. 0 \in Nat
        OBVIOUS
      <4> QED
        BY <2>5, <4>1, FrameFacts
    <3>4. o \in Seq(Frame) /\ Len(o) = 1 /\ o[1] = Call(e.args[1])
      BY <3>1, <3>3
    <3>5. \A i \in 1 .. Len(cs) : cs[i] = o[i]
      <4>1. \A i \in 1 .. Len(cs) : i = 1
        BY <3>2
      <4> QED
        BY <3>2, <3>4, <4>1
    <3>6. Len(cs) = Len(o) /\ cs \in Seq(Frame) /\ o \in Seq(Frame)
      BY <3>2, <3>4
    <3>7. cs = o
      BY ONLY <3>5, <3>6, SameElements
    <3> QED
      BY ONLY <3>1, <3>2, <3>7
  <2>8. Calls(e.args) \o Tail(q) = <<Call(e.args[1])>>
    <3>1. \A z \in Seq(Frame) : z \o <<>> = z
      OBVIOUS
    <3> QED
      BY ONLY <2>2, <2>7, <3>1
  <2>9. d = <<1>>
    BY <2>1
  <2> HIDE DEF root, w
  <2>10. Leads(root, 1, <<Call(e.args[1])>>, <<>>, <<1>>)
    <3>1. 1 \in Nat \ {0}
      OBVIOUS
    <3> QED
      BY <2>2, <2>5, <2>6, <3>1, LeadsStart
  <2>11. NamesDenote(L, al, s, <<>>)
    BY <2>1 DEF NamesDenote
  <2>12. KeysLast(<<Call(e.args[1])>>, r)
    <3>1. ~IsConcat(Call(e.args[1]))
      BY DEF IsConcat, Call
    <3>2. Len(<<Call(e.args[1])>>) = 1 /\ \A i \in 1 .. 1 : i = 1
      OBVIOUS
    <3> QED
      BY <3>1, <3>2 DEF KeysLast
  <2>13. TopRes(<<Call(e.args[1])>>, s, r)
    BY DEF TopRes
  <2> QED
    BY <2>3, <2>8, <2>9, <2>10, <2>11, <2>12, <2>13 DEF Going, root, w
<1> QED
  BY <1>1, <1>2 DEF InPart

\* The calls that leave their operands.
LEMMA CallsMean ==
  ASSUME MeanInv, NameInv', ArgInv', CallCast \/ CallBool \/ CallOperator \/ CallQuery \/ CallConcat
  PROVE  MeanInv'
<1>0. Inv
  BY DEF MeanInv, NameInv
<1>1. UNCHANGED <<body, unit, part, names, gen, outs>>
  BY DEF CallCast, CallBool, CallOperator, CallQuery, CallConcat, genVars
<1>2. \E ops : At("call", ops)
  BY DEF CallCast, CallBool, CallOperator, CallQuery, CallConcat
<1>3. /\ Lowers /\ todo # <<>> /\ todo \in Seq(Frame) /\ Next1 = todo[1] /\ todo[1].e \in Exprs
      /\ todo[1].do = "call" /\ resSuffix \in Int /\ resSuffix >= -1
  BY <1>0, <1>2, AtFacts
<1>4. PICK e \in Exprs : e = todo[1].e
  BY <1>3
<1>5. ~Idles
  BY <1>3 DEF Idles
<1>6. body[unit].exprs[part] \in Exprs
  BY <1>3 DEF Lowers, Root
<1>7. ASSUME NEW L, InPart(L, body[unit], part, gen.argList, todo, names, resBW, resSuffix),
             GoodPart(body[unit], part)
      PROVE  Going(L, body[unit].exprs[part], WidthAtPart(body[unit], part), gen.argList, todo',
                   names, resBW', resSuffix')
  <2>1. CASE CallBool
    <3>1. /\ todo' = Calls(e.args) \o Tail(todo) /\ resBW' = [resBW EXCEPT ![Len(resBW)] = 1]
          /\ resSuffix' = resSuffix /\ e.op = "bool"
      BY <1>3, <1>4, <2>1 DEF CallBool, At, genVars
    <3> QED
      BY <1>3, <1>4, <1>6, <1>7, <3>1, GoingBool
  <2>2. ASSUME e.op # "bool"
        PROVE  Going(L, body[unit].exprs[part], WidthAtPart(body[unit], part), gen.argList, todo,
                     names, resBW, resSuffix)
    BY <1>4, <1>7, <2>2, NotStarts
  <2>3. CASE CallCast
    <3>1. /\ todo' = Calls(e.args) \o Tail(todo) /\ resBW' = resBW
          /\ resSuffix' = resSuffix /\ e.op = "cast"
      BY <1>3, <1>4, <2>3 DEF CallCast, At, genVars
    <3> QED
      BY <1>3, <1>4, <2>2, <3>1, GoingCast
  <2>4. CASE CallOperator
    <3>1. /\ todo' = OperandFrames(e, 0) \o Tail(todo) /\ resBW' = resBW
          /\ resSuffix' = resSuffix /\ e.op \in Operators
      BY <1>3, <1>4, <2>4 DEF CallOperator, At, genVars, OperandFrames
    <3>2. e.op # "bool" /\ e.op # "concat" /\ 0 \in Nat
      BY <3>1 DEF Operators
    <3> QED
      BY <1>3, <1>4, <2>2, <3>1, <3>2, GoingOperands
  <2>5. CASE CallConcat
    <3>1. /\ todo' = OperandFrames(e, resSuffix + 1) \o Tail(todo) /\ resBW' = resBW
          /\ resSuffix' = resSuffix + 1 /\ e.op = "concat" /\ resSuffix + 1 \in Nat
      BY <1>3, <1>4, <2>5 DEF CallConcat, At, OperandFrames
    <3> QED
      BY <1>3, <1>4, <2>2, <3>1, GoingOperands
  <2>6. CASE CallQuery
    <3>1. /\ todo' = QueryFrames(e) \o Tail(todo) /\ resBW' = Append(resBW, 1)
          /\ resSuffix' = resSuffix /\ e.op = "query"
      BY <1>3, <1>4, <2>6 DEF CallQuery, At, genVars, QueryFrames
    <3> QED
      BY <1>3, <1>4, <2>2, <3>1, GoingQuery
  <2> QED
    BY <2>1, <2>3, <2>4, <2>5, <2>6
<1>8. ASSUME NEW L, InPart(L, body[unit], part, gen.argList, todo, names, resBW, resSuffix),
             GoodPart(body[unit], part)
      PROVE  InPart(L, body[unit], part, gen'.argList, todo', names', resBW', resSuffix')
  BY <1>1, <1>7, <1>8 DEF InPart
<1>9. Prefixed(gen.argList, gen'.argList) /\ gen'.calc = gen.calc /\ gen'.resBWList = gen.resBWList
  BY <1>1 DEF Prefixed
<1> QED
  BY <1>1, <1>5, <1>8, <1>9, SilentMean

\* The condition of a query has its result.
LEMMA EndMean == ASSUME MeanInv, NameInv', ArgInv', ReturnCondition PROVE MeanInv'
<1>0. Inv
  BY DEF MeanInv, NameInv
<1>1. /\ At("end", {"query"}) /\ todo' = Tail(todo)
      /\ resBW' = SubSeq(resBW, 1, Len(resBW) - 1)
      /\ UNCHANGED <<body, unit, part, names, gen, resSuffix, outs>>
  BY DEF ReturnCondition, genVars
<1>2. /\ Lowers /\ todo # <<>> /\ todo \in Seq(Frame) /\ todo[1].do = "end"
  BY <1>0, <1>1, AtFacts
<1>3. Len(todo) > 1
  <2>1. Linked(Root, todo, names)
    BY <1>2 DEF Lowers, Walk
  <2>2. Len(todo) \in Nat /\ Len(todo) >= 1
    BY <1>2, TailFacts
  <2>3. Len(todo) = 1 => FALSE
    BY <1>2, <2>1 DEF Linked
  <2> QED
    BY <2>2, <2>3
<1>4. ASSUME NEW L, InPart(L, body[unit], part, gen.argList, todo, names, resBW, resSuffix),
             GoodPart(body[unit], part)
      PROVE  InPart(L, body[unit], part, gen'.argList, todo', names', resBW', resSuffix')
  <2>1. Going(L, body[unit].exprs[part], WidthAtPart(body[unit], part), gen.argList, todo, names,
              resBW, resSuffix)
    BY <1>2, <1>4, NotStarts
  <2>2. Going(L, body[unit].exprs[part], WidthAtPart(body[unit], part), gen.argList, Tail(todo),
              names, SubSeq(resBW, 1, Len(resBW) - 1), resSuffix)
    BY <1>2, <1>3, <2>1, GoingEnd
  <2> QED
    BY <1>1, <2>2 DEF InPart
<1>5. ~Idles
  BY <1>2 DEF Idles
<1>6. Prefixed(gen.argList, gen'.argList) /\ gen'.calc = gen.calc /\ gen'.resBWList = gen.resBWList
  BY <1>1 DEF Prefixed
<1> QED
  BY <1>1, <1>4, <1>5, <1>6, SilentMean

\* The names taken, when no concatenation waits below the first frame.
LEMMA KeysOne ==
  ASSUME NEW q \in Seq(Frame), q # <<>>, \A i \in 2 .. Len(q) : ~IsConcat(q[i])
  PROVE  /\ ~IsConcat(q[1]) => Cardinality(Keys(q)) = 0
         /\ IsConcat(q[1]) => Cardinality(Keys(q)) = 1
<1>1. Len(q) \in Nat /\ Len(q) >= 1
  BY TailFacts
<1>2. \A i \in 1 .. Len(q) : IsConcat(q[i]) => i = 1
  <2>1. \A i \in 1 .. Len(q) : i = 1 \/ i \in 2 .. Len(q)
    BY <1>1
  <2> QED
    BY <2>1
<1>3. 1 \in 1 .. Len(q)
  BY <1>1
<1>4. ASSUME ~IsConcat(q[1]) PROVE Keys(q) = {}
  BY <1>2, <1>4 DEF Keys
<1>5. ASSUME IsConcat(q[1]) PROVE Keys(q) = {q[1].key}
  BY <1>2, <1>3, <1>5 DEF Keys
<1> QED
  BY <1>4, <1>5, FS_EmptySet, FS_Singleton

\* An emit generates a statement that means its expression.
LEMMA EmitMean ==
  ASSUME MeanInv, NameInv', ArgInv', NEW ops, At("emit", ops), NEW to, NEW key,
         Generate(to, key, Next1.e.op, Operands(Len(Next1.e.args)), Width),
         Return(Len(Next1.e.args), <<"res", key>>), todo' = Tail(todo), resSuffix' = to,
         Next1.e.op # "concat" => to = resSuffix + 1 /\ key = to,
         Next1.e.op = "concat" => to = resSuffix /\ key = Next1.key,
         UNCHANGED <<body, unit, part, resBW, outs>>
  PROVE  MeanInv'
<1>0. Inv
  BY DEF MeanInv, NameInv
<1>1. /\ Lowers /\ todo # <<>> /\ todo \in Seq(Frame) /\ names \in Seq(Name)
      /\ Next1 = todo[1] /\ todo[1].e \in Exprs /\ todo[1].do = "emit"
      /\ Len(todo[1].e.args) <= Len(names) /\ resSuffix \in Int /\ resSuffix >= -1
  BY <1>0, AtFacts
<1>2. PICK k \in Nat : k = Len(todo[1].e.args)
  BY <1>1, ExprFacts
<1>3. PICK st : st = [to |-> to, op |-> todo[1].e.op, args |-> Operands(k)]
  OBVIOUS
<1>4. /\ Ledger(gen.calc, todo, names, outs, resSuffix)
      /\ IsConcat(todo[1]) <=> todo[1].e.op = "concat"
  BY <1>0, <1>1 DEF Inv, Collected, IsConcat
<1>5. /\ Len(gen.calc) \in Nat /\ Cardinality(Keys(todo)) \in Nat
      /\ Len(gen.calc) + Cardinality(Keys(todo)) = resSuffix + 1
  <2>1. /\ gen.calc \in Seq(Statement) /\ Keys(todo) \subseteq 0 .. resSuffix
        /\ Len(gen.calc) + Cardinality(Keys(todo)) = resSuffix + 1
    BY <1>4 DEF Ledger
  <2> QED
    BY <1>1, <2>1, KeysFinite
<1>6. to \in Nat /\ to >= Len(gen.calc)
  <2>1. CASE todo[1].e.op # "concat"
    BY <1>1, <1>5, <2>1
  <2>2. CASE todo[1].e.op = "concat"
    <3>1. IsFiniteSet(Keys(todo)) /\ todo[1].key \in Keys(todo)
      BY <1>1, <1>4, <2>2, KeysFinite, KeysTailConcat DEF Ledger
    <3>2. Cardinality(Keys(todo)) # 0
      BY <3>1, FS_EmptySet
    <3>3. to = resSuffix
      BY <1>1, <2>2
    <3> QED
      BY ONLY <1>1, <1>5, <3>2, <3>3
  <2> QED
    BY <2>1, <2>2
<1>7. Operands(k) = Taken(names, k) /\ Operands(k) \in Seq(Name)
  <2>1. Operands(k) = Taken(names, k)
    BY DEF Operands, Taken
  <2> QED
    BY <1>1, <1>2, <2>1, TakenFacts
<1>8. st \in Statement
  <2>1. todo[1].e.op \in Ops
    BY <1>1, ExprFacts
  <2> QED
    BY <1>3, <1>6, <1>7, <2>1 DEF Statement
<1>9. /\ gen'.calc = Append(gen.calc, st) /\ gen'.resBWList = Append(gen.resBWList, Width)
      /\ gen'.argList = gen.argList
  <2>1. Rest(gen') = Stated(Rest(gen), to, key, Next1.e.op, Operands(Len(Next1.e.args)), Width)
    BY <1>0, GenerateRest
  <2> QED
    BY <1>1, <1>2, <1>3, <2>1 DEF Rest, Stated
<1>10. names' = Left(names, k, <<"res", key>>)
  BY <1>1, <1>2 DEF Return, Left
<1>11. ASSUME NEW L \in Seq(Label \cup {None}),
              InPart(L, body[unit], part, gen.argList, todo, names, resBW, resSuffix),
              GoodPart(body[unit], part), Len(L) = Len(gen.calc)
       PROVE  \E l \in Label :
                /\ st.to = Len(gen.calc) /\ Width = l[2] /\ Means(L, gen.argList, st, l)
                /\ \A i \in DOMAIN st.args : st.args[i][1] = "res" => st.args[i][2] < Len(gen.calc)
                /\ InPart(Append(L, l), body[unit], part, gen.argList, todo', names', resBW',
                          resSuffix')
  <2> DEFINE root == body[unit].exprs[part]
             w == WidthAtPart(body[unit], part)
  <2>1. Going(L, root, w, gen.argList, todo, names, resBW, resSuffix)
    BY <1>1, <1>11, NotStarts
  <2>2. PICK l, n, s1 : /\ l = <<todo[1].e, Top(resBW)>> /\ n = Len(L)
                        /\ s1 = Left(names, k, <<"res", n>>)
    OBVIOUS
  <2>3. st.op = todo[1].e.op /\ st.args = Taken(names, k) /\ st.to = to
    BY <1>3, <1>7
  <2>4. Emits(L, todo, names, resBW, st, l, s1)
    BY <1>1, <1>2, <2>2, <2>3 DEF Emits
  <2> HIDE DEF root, w
  <2>5. /\ l \in Label /\ Means(L, gen.argList, st, l)
        /\ \A i \in DOMAIN st.args : st.args[i][1] = "res" => st.args[i][2] < n
        /\ \A i \in 2 .. Len(todo) : ~IsConcat(todo[i])
        /\ IsConcat(todo[1]) => todo[1].key = resSuffix
        /\ Going(Append(L, l), root, w, gen.argList, Tail(todo), s1, resBW, n)
    <3>1. todo \in Seq(Frame) /\ todo # <<>> /\ names \in Seq(Name)
      BY <1>1
    <3>2. L \in Seq(Label \cup {None})
      BY <1>11
    <3>3. n = Len(L)
      BY <2>2
    <3> QED
      BY ONLY <2>1, <2>4, <3>1, <3>2, <3>3, GoingEmit
  <2>6. to = n /\ key = n
    <3>1. /\ ~IsConcat(todo[1]) => Cardinality(Keys(todo)) = 0
          /\ IsConcat(todo[1]) => Cardinality(Keys(todo)) = 1
      BY <1>1, <2>5, KeysOne
    <3>2. n = Len(gen.calc)
      BY <1>11, <2>2
    <3>3. /\ ~IsConcat(todo[1]) => to = resSuffix + 1 /\ key = to
          /\ IsConcat(todo[1]) => to = resSuffix /\ key = to
      BY <1>1, <1>4, <2>5
    <3> QED
      BY ONLY <1>1, <1>5, <3>1, <3>2, <3>3
  <2>7. n = Len(gen.calc) /\ names' = s1 /\ resSuffix' = n /\ Width = l[2]
    BY <1>10, <1>11, <2>2, <2>6 DEF Width, Top
  <2>8. InPart(Append(L, l), body[unit], part, gen.argList, todo', names', resBW', resSuffix')
    BY <2>5, <2>7 DEF InPart, root, w
  <2> QED
    BY <2>2, <2>3, <2>5, <2>6, <2>7, <2>8
<1>12. ~Idles
  BY <1>1 DEF Idles
<1>13. /\ st.to >= Len(gen.calc)
  BY <1>3, <1>6
<1> QED
  BY <1>8, <1>9, <1>11, <1>12, <1>13, StatementMean

\* The statement of an operator, a query or a concatenation.
LEMMA EmitsMean ==
  ASSUME MeanInv, NameInv', ArgInv', EmitOperator \/ EmitQuery \/ EmitConcat
  PROVE  MeanInv'
<1>0. Inv
  BY DEF MeanInv, NameInv
<1>1. CASE EmitOperator
  <2>1. /\ At("emit", Operators) /\ resSuffix' = resSuffix + 1
        /\ Generate(resSuffix + 1, resSuffix + 1, Next1.e.op, Operands(Len(Next1.e.args)), Width)
        /\ Return(Len(Next1.e.args), <<"res", resSuffix + 1>>) /\ todo' = Tail(todo)
        /\ UNCHANGED <<body, unit, part, resBW, outs>>
    BY <1>1 DEF EmitOperator
  <2>2. Next1.e.op # "concat"
    BY <2>1 DEF At, Operators
  <2> QED
    BY <2>1, <2>2, EmitMean
<1>2. CASE EmitQuery
  <2>1. /\ At("emit", {"query"}) /\ resSuffix' = resSuffix + 1
        /\ Generate(resSuffix + 1, resSuffix + 1, "query", Operands(3), Width)
        /\ Return(3, <<"res", resSuffix + 1>>) /\ todo' = Tail(todo)
        /\ UNCHANGED <<body, unit, part, resBW, outs>>
    BY <1>2 DEF EmitQuery
  <2>2. Next1.e.op = "query" /\ Len(Next1.e.args) = 3
    <3>1. Next1.e.op = "query"
      BY <2>1 DEF At
    <3>2. Next1.e \in Exprs
      BY <1>0, <2>1, AtFacts
    <3>3. Arity(Next1.e.op) = 3
      BY <3>1 DEF Arity
    <3> QED
      BY <3>1, <3>2, <3>3, ExprFacts
  <2>3. /\ Generate(resSuffix + 1, resSuffix + 1, Next1.e.op, Operands(Len(Next1.e.args)), Width)
        /\ Return(Len(Next1.e.args), <<"res", resSuffix + 1>>) /\ Next1.e.op # "concat"
    BY <2>1, <2>2
  <2> QED
    BY <2>1, <2>3, EmitMean
<1>3. CASE EmitConcat
  <2>1. /\ At("emit", {"concat"})
        /\ Generate(resSuffix, Next1.key, "concat", Operands(Len(Next1.e.args)), Width)
        /\ Return(Len(Next1.e.args), <<"res", Next1.key>>) /\ todo' = Tail(todo)
        /\ resSuffix' = resSuffix /\ UNCHANGED <<body, unit, part, resBW, outs>>
    BY <1>3 DEF EmitConcat
  <2>2. Next1.e.op = "concat"
    BY <2>1 DEF At
  <2>3. Generate(resSuffix, Next1.key, Next1.e.op, Operands(Len(Next1.e.args)), Width)
    BY <2>1, <2>2
  <2> QED
    BY <2>1, <2>2, <2>3, EmitMean
<1> QED
  BY <1>1, <1>2, <1>3

\* The call of a root alone.
LEMMA GoingStart ==
  ASSUME NEW L, NEW root \in Exprs, NEW w \in Nat \ {0}, NEW al, NEW r, Good(w, root)
  PROVE  Going(L, root, w, al, <<Call(root)>>, <<>>, <<w>>, r)
<1>1. Leads(root, w, <<Call(root)>>, <<>>, <<w>>)
  BY LeadsStart
<1>2. NamesDenote(L, al, <<>>, <<>>)
  BY DEF NamesDenote
<1>3. KeysLast(<<Call(root)>>, r)
  <2>1. ~IsConcat(Call(root))
    BY DEF IsConcat, Call
  <2>2. Len(<<Call(root)>>) = 1 /\ \A i \in 1 .. 1 : i = 1
    OBVIOUS
  <2> QED
    BY <2>1, <2>2 DEF KeysLast
<1>4. TopRes(<<Call(root)>>, <<>>, r)
  BY DEF TopRes
<1> QED
  BY <1>1, <1>2, <1>3, <1>4 DEF Going

\* The outputs of the unit being generated.
LEMMA OutFacts ==
  ASSUME Inv, unit \in 1 .. Len(body)
  PROVE  /\ body[unit].exprs \in Seq(Exprs) /\ DOMAIN body[unit].exprs = 1 .. Len(body[unit].exprs)
         /\ Len(body[unit].exprs) \in Nat
         /\ \A p \in 1 .. Len(body[unit].exprs) :
              body[unit].exprs[p] \in Exprs /\ body[unit].outBW[p] \in Nat \ {0}
<1>1. body \in Bodies /\ unit \in DOMAIN body
  <2>1. body \in Bodies /\ body \in Seq({body[i] : i \in DOMAIN body})
    BY BodyAssumption DEF Inv
  <2> QED
    BY <2>1
<1>2. /\ body[unit].exprs \in Seq(Exprs) /\ body[unit].outBW \in Seq(Nat \ {0})
      /\ Len(body[unit].exprs) = Len(body[unit].outBW)
  BY <1>1, BodyAssumption
<1> QED
  BY <1>2

\* A literal is done, and nothing sent.
LEMMA SourceMean == ASSUME MeanInv, NameInv', ArgInv', CreateSource PROVE MeanInv'
<1>0. Inv
  BY DEF MeanInv, NameInv
<1>1. /\ unit <= Len(body) /\ todo = <<>> /\ names = <<>> /\ body[unit].exprs[part].op = "int"
      /\ part' = part + 1 /\ UNCHANGED <<body, unit, todo, names, resBW, resSuffix, gen, outs>>
  BY DEF CreateSource, Between, Root, genVars
<1>2. PICK L : UnitMeans(L)
  BY <1>1 DEF MeanInv
<1>3. part \in Nat
  BY <1>0 DEF Inv
<1>4. ASSUME NEW q \in Calculated(body[unit].exprs), q < part + 1 PROVE q < part
  <2>1. unit \in 1 .. Len(body)
    BY <1>0, <1>1, UnitFacts
  <2>2. q \in Nat /\ body[unit].exprs[q].op # "int"
    BY <1>0, <2>1, OutFacts DEF Calculated
  <2>3. q # part
    BY <1>1, <2>2
  <2> QED
    BY <1>3, <1>4, <2>2, <2>3
<1>5. OutsMean(L, body[unit], outs, part + 1)
  BY <1>2, <1>4 DEF UnitMeans, OutsMean
<1>6. UnitMeans(L)'
  BY <1>1, <1>2, <1>5 DEF UnitMeans, Idles
<1> QED
  BY <1>6 DEF MeanInv

\* A root is called in the width of its output.
LEMMA LowerPartMean == ASSUME MeanInv, NameInv', ArgInv', LowerPart PROVE MeanInv'
<1>0. Inv
  BY DEF MeanInv, NameInv
<1> DEFINE root == body[unit].exprs[part]
           w == body[unit].outBW[part]
<1>1. /\ unit <= Len(body) /\ todo = <<>> /\ names = <<>> /\ part <= Len(body[unit].exprs)
      /\ todo' = <<Call(root)>> /\ resBW' = <<w>>
      /\ UNCHANGED <<body, unit, part, names, resSuffix, gen, outs>>
  BY DEF LowerPart, Between, Root, genVars
<1>2. PICK L : UnitMeans(L)
  BY <1>1 DEF MeanInv
<1>3. root \in Exprs /\ w \in Nat \ {0}
  <2>1. unit \in 1 .. Len(body) /\ part \in Nat /\ part # 0
    BY <1>0, <1>1, UnitFacts DEF Inv
  <2>2. part \in 1 .. Len(body[unit].exprs)
    BY <1>0, <1>1, <2>1, OutFacts
  <2> QED
    BY <1>0, <2>1, <2>2, OutFacts
<1> HIDE DEF root, w
<1>4. InPart(L, body[unit], part, gen.argList, todo', <<>>, resBW', resSuffix)
  <2>1. CASE root.op = "bool"
    <3>1. Starts(root, todo', <<>>, resBW')
      BY <1>1, <2>1 DEF Starts
    <3> QED
      BY <3>1 DEF InPart, root
  <2>2. CASE root.op # "bool"
    <3>1. WidthAtPart(body[unit], part) = w
      BY <2>2 DEF WidthAtPart, PartWidth, root, w
    <3>2. ASSUME GoodPart(body[unit], part)
          PROVE  Going(L, root, w, gen.argList, todo', <<>>, resBW', resSuffix)
      <4>1. Good(w, root)
        BY <3>1, <3>2 DEF GoodPart, root
      <4> QED
        BY <1>1, <1>3, <4>1, GoingStart
    <3> QED
      BY <3>1, <3>2 DEF InPart, root
  <2> QED
    BY <2>1, <2>2
<1>5. UnitMeans(L)'
  BY <1>1, <1>2, <1>4 DEF UnitMeans
<1> QED
  BY <1>5 DEF MeanInv

\* The results for the parts of b before p+1, when that for p is sent.
LEMMA OutsMeanNext ==
  ASSUME NEW L, NEW M, Prefixed(L, M), NEW b, b.exprs \in Seq(Exprs), NEW o,
         NEW p \in 1 .. Len(b.exprs), p \in Calculated(b.exprs),
         NEW w, Sized(b.exprs, w, o, p), OutsMean(L, b, o, p),
         NEW x, x.res \in Int,
         GoodPart(b, p) => x.res + 1 \in DOMAIN M /\ M[x.res + 1] = LabelOf(b, p)
  PROVE  OutsMean(M, b, Append(o, x), p + 1)
<1> DEFINE es == b.exprs
<1>1. /\ IsSeq(o) /\ Len(o) = Cardinality({m \in Calculated(es) : m < p})
  BY DEF Sized
<1>2. /\ Len(o) \in Nat /\ DOMAIN o = 1 .. Len(o) /\ Append(o, x)[Len(o) + 1] = x
      /\ \A i \in 1 .. Len(o) : Append(o, x)[i] = o[i]
  <2>1. IsSeq(o)
    BY <1>1
  <2> QED
    BY ONLY <2>1, AppendIsSeq
<1>3. OutputAt(es, p) = Len(o) + 1
  BY <1>1, CountParts DEF OutputAt
<1>4. ASSUME NEW q \in Calculated(es), q < p
      PROVE  Append(o, x)[OutputAt(es, q)] = o[OutputAt(es, q)]
  <2>1. OutputAt(es, q) \in Nat /\ OutputAt(es, q) >= 1 /\ OutputAt(es, q) <= Len(o)
    BY <1>1, <1>4, CountFewer DEF OutputAt
  <2> QED
    BY <1>2, <2>1
<1>5. OutsMean(M, b, o, p)
  BY OutsMeanMore
<1>6. ASSUME NEW q \in Calculated(es), q < p + 1, GoodPart(b, q)
      PROVE  /\ Append(o, x)[OutputAt(es, q)].res \in Int
             /\ Append(o, x)[OutputAt(es, q)].res + 1 \in DOMAIN M
             /\ M[Append(o, x)[OutputAt(es, q)].res + 1] = LabelOf(b, q)
  <2>1. q \in Nat /\ p \in Nat
    BY DEF Calculated
  <2>2. CASE q = p
    BY <1>2, <1>3, <1>6, <2>2
  <2>3. CASE q < p
    BY <1>4, <1>5, <1>6, <2>3 DEF OutsMean
  <2>4. q = p \/ q < p
    BY <1>6, <2>1
  <2> QED
    BY <2>2, <2>3, <2>4
<1>7. \A q \in Calculated(es) : (q < p + 1 /\ GoodPart(b, q)) =>
        /\ Append(o, x)[OutputAt(es, q)].res \in Int
        /\ Append(o, x)[OutputAt(es, q)].res + 1 \in DOMAIN M
        /\ M[Append(o, x)[OutputAt(es, q)].res + 1] = LabelOf(b, q)
  BY ONLY <1>6
<1> QED
  BY ONLY <1>7 DEF OutsMean

\* What is left of a root when nothing is left to do is its label.
LEMMA GoingDone ==
  ASSUME NEW L, NEW root \in Exprs, NEW w, NEW al, NEW s, NEW c, NEW r,
         Going(L, root, w, al, <<>>, s, c, r)
  PROVE  /\ Len(s) = 1 /\ Denotes(L, al, s[1], <<UnderCasts[root], w>>) /\ c = <<w>>
         /\ s[1][1] = "res" => s[1][2] = r
<1>1. PICK t : Leads(root, w, <<>>, t, c) /\ NamesDenote(L, al, s, t)
  BY DEF Going
<1>2. <<>> \in Seq(Frame)
  OBVIOUS
<1>3. t = <<<<UnderCasts[root], w>>>> /\ c = <<w>>
  BY <1>1, LeadsEnd
<1>4. Len(t) = 1 /\ t[1] = <<UnderCasts[root], w>>
  BY <1>3
<1>5. Len(s) = 1 /\ Denotes(L, al, s[1], t[1])
  <2>1. Len(s) = 1 /\ 1 \in 1 .. 1
    BY <1>1, <1>4 DEF NamesDenote
  <2> QED
    BY <1>1, <2>1 DEF NamesDenote
<1>6. s[1][1] = "res" => s[1][2] = r
  BY DEF Going, TopRes
<1> QED
  BY <1>3, <1>4, <1>5, <1>6

\* The root is lowered, and its result is sent.
LEMMA EndPartMean == ASSUME MeanInv, NameInv', ArgInv', EndPart PROVE MeanInv'
<1> DEFINE b == body[unit]
           root == b.exprs[part]
           w == WidthAtPart(b, part)
<1>0. Inv
  BY DEF MeanInv, NameInv
<1>1. todo = <<>> /\ names # <<>> /\ part' = part + 1 /\ names' = <<>>
      /\ outs' = Append(outs, [res |-> resSuffix', bw |-> b.outBW[part]])
      /\ UNCHANGED <<body, unit, todo>>
  BY DEF EndPart
<1>2. ~Idles /\ Lowers
  BY <1>0, <1>1 DEF Idles, Inv
<1>3. /\ unit \in 1 .. Len(body) /\ part \in 1 .. Len(b.exprs) /\ root \in Exprs /\ root.op # "int"
      /\ b.exprs \in Seq(Exprs) /\ part \in Calculated(b.exprs) /\ unit <= Len(body)
      /\ UnderCasts[root].op # "int" /\ names \in Seq(Name) /\ resSuffix \in Int
  <2>1. unit \in 1 .. Len(body) /\ part \in 1 .. Len(b.exprs) /\ root.op # "int"
    BY <1>2 DEF Lowers, Root
  <2>2. b.exprs \in Seq(Exprs) /\ root \in Exprs /\ UnderCasts[root].op # "int"
    BY <1>0, <2>1, BodyFacts DEF Inv
  <2>3. part \in Calculated(b.exprs)
    BY <2>1, <2>2 DEF Calculated
  <2>4. unit <= Len(body)
    <3>1. Len(body) \in Nat
      BY <1>0, UnitFacts
    <3> QED
      BY <2>1, <3>1
  <2>5. names \in Seq(Name) /\ resSuffix \in Int
    BY <1>2, WalkFacts DEF Lowers
  <2> QED
    BY <2>1, <2>2, <2>3, <2>4, <2>5
<1>4. PICK L : UnitMeans(L)
  BY <1>3 DEF MeanInv
<1>5. InPart(L, b, part, gen.argList, <<>>, names, resBW, resSuffix)
  BY <1>1, <1>2, <1>4 DEF UnitMeans
<1>6. /\ Labelled(L, gen.calc, gen.resBWList, gen.argList) /\ OutsMean(L, b, outs, part)
      /\ L \in Seq(Label \cup {None}) /\ Len(L) = Len(gen.calc)
  BY <1>4 DEF UnitMeans, Labelled
<1>7. Sized(b.exprs, OutWidths(b), outs, part)
  BY <1>3 DEF MeanInv, NameInv
<1>8. ASSUME GoodPart(b, part)
      PROVE  /\ Len(names) = 1 /\ Denotes(L, gen.argList, names[1], <<UnderCasts[root], w>>)
             /\ resBW = <<w>>
             /\ names[1][1] = "res" => names[1][2] = resSuffix
  <2>1. ~Starts(root, <<>>, names, resBW)
    BY DEF Starts
  <2>2. Going(L, root, w, gen.argList, <<>>, names, resBW, resSuffix)
    BY <1>5, <1>8, <2>1 DEF InPart
  <2> HIDE DEF root, w
  <2> QED
    BY <1>3, <2>2, GoingDone
<1>9. Len(gen.calc) = resSuffix + 1
  <2>1. /\ Ledger(gen.calc, todo, names, outs, resSuffix)
    BY <1>0 DEF Inv, Collected
  <2>2. Keys(todo) = {} /\ Cardinality({}) = 0
    BY <1>1, EmptyFacts, FS_EmptySet
  <2>3. Len(gen.calc) + Cardinality(Keys(todo)) = resSuffix + 1 /\ gen.calc \in Seq(Statement)
    BY <2>1 DEF Ledger
  <2>4. Len(gen.calc) \in Nat
    BY <2>3
  <2> QED
    BY <2>2, <2>3, <2>4
<1> HIDE DEF w
<1>10. CASE OnlyVar(Root)
  <2>1. resSuffix' = resSuffix + 1 /\ UnderCasts[root].op = "var"
        /\ Generate(resSuffix + 1, resSuffix + 1, "port", names, Width)
    BY <1>10 DEF EndPart, OnlyVar, Root
  <2>2. PICK st : st = [to |-> resSuffix + 1, op |-> "port", args |-> names]
    OBVIOUS
  <2>3. st \in Statement /\ st.to = Len(gen.calc)
    <3>1. resSuffix + 1 \in Nat
      BY <1>6, <1>9
    <3> QED
      BY <1>3, <1>9, <2>2, <3>1 DEF Statement
  <2>4. /\ gen'.calc = Append(gen.calc, st) /\ gen'.resBWList = Append(gen.resBWList, Width)
        /\ gen'.argList = gen.argList
    <3>1. Rest(gen') = Stated(Rest(gen), resSuffix + 1, resSuffix + 1, "port", names, Width)
      BY <1>0, <2>1, GenerateRest
    <3> QED
      BY <2>2, <3>1 DEF Rest, Stated
  <2>5. PICK l : l = IF GoodPart(b, part) THEN <<UnderCasts[root], w>> ELSE None
    OBVIOUS
  <2>6. l \in Label \cup {None} /\ (l # None => GoodPart(b, part))
    <3>1. ASSUME GoodPart(b, part) PROVE l \in Label
      <4>1. UnderCasts[root] \in Exprs
        BY <1>3, UnderCastsType
      <4>2. w \in Nat \ {0}
        BY <1>0, <1>3, OutFacts DEF w, WidthAtPart, PartWidth
      <4> QED
        BY <2>5, <3>1, <4>1, <4>2 DEF Label
    <3> QED
      BY <2>5, <3>1
  <2>7. ASSUME l # None
        PROVE  /\ Width = l[2] /\ Means(L, gen.argList, st, l)
               /\ \A i \in DOMAIN st.args : st.args[i][1] = "res" => st.args[i][2] < Len(gen.calc)
    <3>1. l = <<UnderCasts[root], w>> /\ GoodPart(b, part)
      BY <2>5, <2>6, <2>7
    <3>2. l[1] = UnderCasts[root] /\ l[2] = w
      BY ONLY <3>1
    <3>3. Len(names) = 1 /\ Denotes(L, gen.argList, names[1], l) /\ resBW = <<w>>
      <4>1. /\ Len(names) = 1 /\ resBW = <<w>>
            /\ Denotes(L, gen.argList, names[1], <<UnderCasts[root], w>>)
        BY <1>8, <3>1
      <4> QED
        BY ONLY <3>1, <4>1, Zenon
    <3>4. Width = w
      BY <3>3 DEF Width
    <3>5. DOMAIN st.args = {1} /\ st.args[1] = names[1] /\ st.op = "port"
      <4>1. DOMAIN names = {1}
        BY <1>3, <3>3
      <4> QED
        BY <2>2, <4>1
    <3>6. names[1][1] = "x"
      BY <2>1, <3>2, <3>3 DEF Denotes
    <3>7. Means(L, gen.argList, st, l)
      BY <2>1, <3>2, <3>3, <3>5 DEF Means
    <3> QED
      BY <3>2, <3>4, <3>5, <3>6, <3>7
  <2>8. PICK M : M = Append(L, l)
    OBVIOUS
  <2>9. Labelled(M, gen'.calc, gen'.resBWList, gen'.argList)
    <3>1. IsSeq(gen.resBWList)
      BY <1>0 DEF Inv, Collected, GenOK
    <3>2. st.to >= Len(gen.calc)
      BY <1>6, <2>3
    <3>3. l # None => /\ st.to = Len(gen.calc) /\ Width = l[2] /\ Means(L, gen.argList, st, l)
                      /\ \A i \in DOMAIN st.args :
                           st.args[i][1] = "res" => st.args[i][2] < Len(gen.calc)
      BY <2>3, <2>7
    <3>4. Labelled(Append(L, l), Append(gen.calc, st), Append(gen.resBWList, Width), gen.argList)
      BY <1>6, <2>3, <2>6, <3>1, <3>2, <3>3, LabelledMore
    <3> QED
      BY <2>4, <2>8, <3>4
  <2>10. Prefixed(L, M) /\ Len(L) + 1 \in DOMAIN M /\ M[Len(L) + 1] = l
    <3>1. IsSeq(L)
      BY <1>6, SeqIsSeq
    <3>2. /\ Prefixed(L, Append(L, l)) /\ Len(L) \in Nat
          /\ DOMAIN Append(L, l) = 1 .. Len(L) + 1 /\ Append(L, l)[Len(L) + 1] = l
      BY <3>1, AppendPrefixed, AppendIsSeq
    <3> QED
      BY <2>8, <3>2
  <2>11. PICK x : x = [res |-> resSuffix', bw |-> b.outBW[part]]
    OBVIOUS
  <2>12. /\ x.res \in Int
         /\ GoodPart(b, part) => x.res + 1 \in DOMAIN M /\ M[x.res + 1] = LabelOf(b, part)
    <3>1. x.res = Len(L)
      BY <1>6, <1>9, <2>1, <2>11
    <3>2. x.res \in Int
      BY <1>3, <2>1, <2>11
    <3> QED
      BY <2>5, <2>10, <3>1, <3>2 DEF LabelOf, w
  <2>13. OutsMean(M, b, outs', part + 1)
    <3> HIDE DEF b
    <3>1. outs' = Append(outs, x)
      BY <1>1, <2>11
    <3> QED
      BY <1>3, <1>6, <1>7, <2>10, <2>12, <3>1, OutsMeanNext
  <2>14. UnitMeans(M)'
    BY <1>1, <2>9, <2>13 DEF UnitMeans, Idles
  <2> QED
    BY <2>14 DEF MeanInv
<1>11. CASE ~OnlyVar(Root)
  <2>1. UNCHANGED <<resSuffix, gen>> /\ UnderCasts[root].op # "var"
    BY <1>11 DEF EndPart, OnlyVar, Root, genVars
  <2>2. PICK x : x = [res |-> resSuffix', bw |-> b.outBW[part]]
    OBVIOUS
  <2>3. /\ x.res \in Int
        /\ GoodPart(b, part) => x.res + 1 \in DOMAIN L /\ L[x.res + 1] = LabelOf(b, part)
    <3>1. ASSUME GoodPart(b, part)
          PROVE  /\ names[1][1] = "res" /\ names[1][2] + 1 \in DOMAIN L
                 /\ L[names[1][2] + 1] = <<UnderCasts[root], w>>
      <4>1. PICK l : l = <<UnderCasts[root], w>>
        OBVIOUS
      <4>2. l[1].op \notin {"int", "var"}
        BY <1>3, <2>1, <4>1
      <4>3. Denotes(L, gen.argList, names[1], l)
        BY <1>8, <3>1, <4>1
      <4> QED
        BY <4>1, <4>2, <4>3 DEF Denotes
    <3>2. x.res = resSuffix
      BY <2>1, <2>2
    <3>3. ASSUME GoodPart(b, part)
          PROVE  names[1][2] = x.res /\ LabelOf(b, part) = <<UnderCasts[root], w>>
      BY <1>8, <3>1, <3>2, <3>3 DEF LabelOf, w
    <3>4. x.res \in Int
      BY <1>3, <3>2
    <3> QED
      BY ONLY <3>1, <3>3, <3>4
  <2>4. Prefixed(L, L)
    BY DEF Prefixed
  <2>5. OutsMean(L, b, outs', part + 1)
    <3> HIDE DEF b
    <3>1. outs' = Append(outs, x)
      BY <1>1, <2>2
    <3> QED
      BY <1>3, <1>6, <1>7, <2>3, <2>4, <3>1, OutsMeanNext
  <2>6. UnitMeans(L)'
    BY <1>1, <1>6, <2>1, <2>5 DEF UnitMeans, Idles
  <2> QED
    BY <2>6 DEF MeanInv
<1> QED
  BY <1>10, <1>11

\* Nothing is calculated when a unit starts.
LEMMA EmptyMeans ==
  ASSUME NEW b, b.exprs \in Seq(Exprs)
  PROVE  /\ Labelled(<<>>, EmptyGen.calc, EmptyGen.resBWList, EmptyGen.argList)
         /\ OutsMean(<<>>, b, <<>>, 1)
<1>1. EmptyGen.calc = <<>> /\ EmptyGen.resBWList = <<>> /\ EmptyGen.argList = <<>>
  BY DEF EmptyGen
<1>2. <<>> \in Seq(Statement) /\ <<>> \in Seq(Label \cup {None}) /\ Len(<<>>) = 0 /\ 1 .. 0 = {}
  OBVIOUS
<1>3. Labelled(<<>>, <<>>, <<>>, <<>>)
  BY <1>2 DEF Labelled
<1>4. \A q \in Calculated(b.exprs) : ~(q < 1)
  BY DEF Calculated
<1> QED
  BY <1>1, <1>3, <1>4 DEF OutsMean

\* The next unit starts.
LEMMA PrintMean == ASSUME MeanInv, NameInv', ArgInv', PrintUnit PROVE MeanInv'
<1>0. Inv
  BY DEF MeanInv, NameInv
<1>1. /\ todo = <<>> /\ names = <<>> /\ unit' = unit + 1 /\ part' = 1 /\ gen' = EmptyGen
      /\ outs' = <<>> /\ UNCHANGED <<body, todo, names>>
  BY DEF PrintUnit, Between
<1>2. ASSUME unit + 1 <= Len(body) PROVE UnitMeans(<<>>)'
  <2>1. unit + 1 \in 1 .. Len(body)
    BY <1>0, <1>2, UnitFacts
  <2>2. body[unit + 1].exprs \in Seq(Exprs)
    BY <1>0, <2>1, UnitFacts
  <2> QED
    BY <1>1, <2>2, EmptyMeans DEF UnitMeans, Idles
<1> QED
  BY <1>1, <1>2 DEF MeanInv

\* A step that does not lower.
LEMMA SameMean ==
  ASSUME MeanInv, NameInv', ArgInv',
         UNCHANGED <<body, unit, part, todo, names, resBW, resSuffix, gen, outs>>
  PROVE  MeanInv'
<1>1. ASSUME NEW L, UnitMeans(L) PROVE UnitMeans(L)'
  BY <1>1 DEF UnitMeans, Idles
<1> QED
  BY <1>1 DEF MeanInv

\* Every step preserves the invariant.
LEMMA NextMean == ASSUME MeanInv, [Next]_vars PROVE MeanInv'
<1>1. NameInv' /\ ArgInv'
  BY NextNamed, NextArgs DEF MeanInv
<1>2. CASE CallInt \/ CallVar
  BY <1>1, <1>2, IntMean, VarMean
<1>3. CASE CallCast \/ CallBool \/ CallOperator \/ CallQuery \/ CallConcat
  BY <1>1, <1>3, CallsMean
<1>4. CASE ReturnCondition
  BY <1>1, <1>4, EndMean
<1>5. CASE EmitOperator \/ EmitQuery \/ EmitConcat
  BY <1>1, <1>5, EmitsMean
<1>6. CASE CreateSource
  BY <1>1, <1>6, SourceMean
<1>7. CASE LowerPart
  BY <1>1, <1>7, LowerPartMean
<1>8. CASE EndPart
  BY <1>1, <1>8, EndPartMean
<1>9. CASE PrintUnit
  BY <1>1, <1>9, PrintMean
<1>10. CASE RejectQuery \/ UNCHANGED vars
  <2>1. UNCHANGED <<body, unit, part, todo, names, resBW, resSuffix, gen, outs>>
    BY <1>10 DEF RejectQuery, vars, genVars
  <2> QED
    BY <1>1, <2>1, SameMean
<1> QED
  BY <1>2, <1>3, <1>4, <1>5, <1>6, <1>7, <1>8, <1>9, <1>10 DEF Next

\* Nothing is calculated at the start.
LEMMA InitMean == Init => MeanInv
<1> SUFFICES ASSUME Init PROVE MeanInv
  OBVIOUS
<1>1. NameInv /\ ArgInv
  BY InitNamed, InitArgs
<1>2. todo = <<>> /\ names = <<>> /\ unit = 1 /\ part = 1 /\ gen = EmptyGen /\ outs = <<>>
  BY DEF Init
<1>3. ASSUME unit <= Len(body) PROVE UnitMeans(<<>>)
  <2>1. body[unit].exprs \in Seq(Exprs)
    BY <1>1, <1>3, UnitFacts DEF NameInv
  <2> QED
    BY <1>2, <2>1, EmptyMeans DEF UnitMeans, Idles
<1> QED
  BY <1>1, <1>3 DEF MeanInv

-----------------------------------------------------------------------------
(* The order of the arguments. *)

\* What a unit has left to do and its arguments: all that its next step depends on,
\* but for the widths.
Control(K) == <<K[1], K[2], K[3], K[5], K[6].argList>>

\* Generating a statement takes no argument.
LEMMA StatedArgs ==
  ASSUME NEW g, NEW to, NEW key, NEW op, NEW operands, NEW w
  PROVE  Stated(g, to, key, op, operands, w).argList = g.argList
BY DEF Stated

\* The control after a step of a part.
LEMMA PartControl ==
  ASSUME NEW es, NEW p, NEW s, NEW r, NEW g, NEW h, g.argList = h.argList,
         NEW w, NEW v, NEW c, NEW d, NEW o, NEW u
  PROVE  Control(PartStep(es, w, p, s, c, r, g, o)) = Control(PartStep(es, v, p, s, d, r, h, u))
<1>1. CASE s = <<>>
  BY <1>1 DEF PartStep, Control
<1>2. CASE s # <<>>
  <2>1. CASE UnderCasts[es[p]].op = "var"
    <3>1. /\ PartStep(es, w, p, s, c, r, g, o) =
               <<p + 1, <<>>, <<>>, <<>>, r + 1, Stated(g, r + 1, r + 1, "port", s, c[Len(c)]),
                 Append(o, [res |-> r + 1, bw |-> w[p]])>>
          /\ PartStep(es, v, p, s, d, r, h, u) =
               <<p + 1, <<>>, <<>>, <<>>, r + 1, Stated(h, r + 1, r + 1, "port", s, d[Len(d)]),
                 Append(u, [res |-> r + 1, bw |-> v[p]])>>
      BY <1>2, <2>1 DEF PartStep
    <3>2. Stated(g, r + 1, r + 1, "port", s, c[Len(c)]).argList =
            Stated(h, r + 1, r + 1, "port", s, d[Len(d)]).argList
      BY StatedArgs
    <3> QED
      BY ONLY <3>1, <3>2 DEF Control
  <2>2. CASE UnderCasts[es[p]].op # "var"
    <3>1. /\ PartStep(es, w, p, s, c, r, g, o) =
               <<p + 1, <<>>, <<>>, <<>>, r, g, Append(o, [res |-> r, bw |-> w[p]])>>
          /\ PartStep(es, v, p, s, d, r, h, u) =
               <<p + 1, <<>>, <<>>, <<>>, r, h, Append(u, [res |-> r, bw |-> v[p]])>>
      BY <1>2, <2>2 DEF PartStep
    <3> QED
      BY <3>1 DEF Control
  <2> QED
    BY <2>1, <2>2
<1> QED
  BY <1>1, <1>2

\* After an identifier.
LEMMA VarControl ==
  ASSUME NEW id, NEW p, NEW q, NEW s, NEW r, NEW g, NEW h, g.argList = h.argList,
         NEW c, NEW d, NEW o, NEW u
  PROVE  Control(VarStep(id, p, q, s, c, r, g, o)) = Control(VarStep(id, p, q, s, d, r, h, u))
<1> DEFINE old == {i \in DOMAIN g.argList : g.argList[i] = id}
<1>1. CASE old = {}
  <2>1. PICK l, y, z :
          /\ l = Left(s, 0, <<"x", Len(g.argList)>>)
          /\ y = [argList |-> Append(g.argList, id), resBWList |-> g.resBWList, calc |-> g.calc,
                  hidden |-> g.hidden]
          /\ z = [argList |-> Append(g.argList, id), resBWList |-> h.resBWList, calc |-> h.calc,
                  hidden |-> h.hidden]
    OBVIOUS
  <2>2. /\ VarStep(id, p, q, s, c, r, g, o) = <<p, q, l, c, r, y, o>>
        /\ VarStep(id, p, q, s, d, r, h, u) = <<p, q, l, d, r, z, u>>
    BY <1>1, <2>1 DEF VarStep
  <2>3. y.argList = z.argList
    BY ONLY <2>1
  <2> QED
    BY ONLY <2>2, <2>3 DEF Control
<1>2. CASE old # {}
  <2>1. /\ VarStep(id, p, q, s, c, r, g, o) =
             <<p, q, Left(s, 0, <<"x", (CHOOSE i \in old : TRUE) - 1>>), c, r, g, o>>
        /\ VarStep(id, p, q, s, d, r, h, u) =
             <<p, q, Left(s, 0, <<"x", (CHOOSE i \in old : TRUE) - 1>>), d, r, h, u>>
    BY <1>2 DEF VarStep
  <2> QED
    BY <2>1 DEF Control
<1> QED
  BY <1>1, <1>2

\* After a call.
LEMMA CallControl ==
  ASSUME NEW e, NEW p, NEW q, NEW s, NEW r, NEW g, NEW h, g.argList = h.argList,
         NEW c, NEW d, NEW o, NEW u
  PROVE  Control(CallStep(e, p, q, s, c, r, g, o)) = Control(CallStep(e, p, q, s, d, r, h, u))
<1>1. CASE e.op = "int"
  <2>1. /\ CallStep(e, p, q, s, c, r, g, o) = <<p, q, Left(s, 0, <<"int", e.n>>), c, r, g, o>>
        /\ CallStep(e, p, q, s, d, r, h, u) = <<p, q, Left(s, 0, <<"int", e.n>>), d, r, h, u>>
    BY <1>1 DEF CallStep
  <2> QED
    BY <2>1 DEF Control
<1>2. CASE e.op = "var"
  <2>1. /\ CallStep(e, p, q, s, c, r, g, o) = VarStep(e.n, p, q, s, c, r, g, o)
        /\ CallStep(e, p, q, s, d, r, h, u) = VarStep(e.n, p, q, s, d, r, h, u)
    BY <1>2 DEF CallStep
  <2> QED
    BY <2>1, VarControl
<1>3. CASE e.op = "cast"
  <2>1. /\ CallStep(e, p, q, s, c, r, g, o) = <<p, Calls(e.args) \o q, s, c, r, g, o>>
        /\ CallStep(e, p, q, s, d, r, h, u) = <<p, Calls(e.args) \o q, s, d, r, h, u>>
    BY <1>3 DEF CallStep
  <2> QED
    BY <2>1 DEF Control
<1>4. CASE e.op = "bool"
  <2>1. /\ CallStep(e, p, q, s, c, r, g, o) =
             <<p, Calls(e.args) \o q, s, [c EXCEPT ![Len(c)] = 1], r, g, o>>
        /\ CallStep(e, p, q, s, d, r, h, u) =
             <<p, Calls(e.args) \o q, s, [d EXCEPT ![Len(d)] = 1], r, h, u>>
    BY <1>4 DEF CallStep
  <2> QED
    BY <2>1 DEF Control
<1>5. CASE e.op = "query"
  <2>1. /\ CallStep(e, p, q, s, c, r, g, o) = <<p, QueryFrames(e) \o q, s, Append(c, 1), r, g, o>>
        /\ CallStep(e, p, q, s, d, r, h, u) = <<p, QueryFrames(e) \o q, s, Append(d, 1), r, h, u>>
    BY <1>5 DEF CallStep, QueryFrames
  <2> QED
    BY <2>1 DEF Control
<1>6. CASE e.op = "concat"
  <2>1. /\ CallStep(e, p, q, s, c, r, g, o) =
             <<p, Calls(e.args) \o <<Emit(e, r + 1)>> \o q, s, c, r + 1, g, o>>
        /\ CallStep(e, p, q, s, d, r, h, u) =
             <<p, Calls(e.args) \o <<Emit(e, r + 1)>> \o q, s, d, r + 1, h, u>>
    BY <1>6 DEF CallStep
  <2> QED
    BY <2>1 DEF Control
<1>7. CASE e.op \notin {"var", "int", "cast", "bool", "query", "concat"}
  <2>1. /\ CallStep(e, p, q, s, c, r, g, o) =
             <<p, Calls(e.args) \o <<Emit(e, 0)>> \o q, s, c, r, g, o>>
        /\ CallStep(e, p, q, s, d, r, h, u) =
             <<p, Calls(e.args) \o <<Emit(e, 0)>> \o q, s, d, r, h, u>>
    BY <1>7 DEF CallStep
  <2> QED
    BY <2>1 DEF Control
<1> QED
  BY <1>1, <1>2, <1>3, <1>4, <1>5, <1>6, <1>7

\* After an emit.
LEMMA EmitControl ==
  ASSUME NEW t, NEW p, NEW q, NEW s, NEW r, NEW g, NEW h, g.argList = h.argList,
         NEW c, NEW d, NEW o, NEW u
  PROVE  Control(EmitStepOf(t, p, q, s, c, r, g, o)) = Control(EmitStepOf(t, p, q, s, d, r, h, u))
<1> DEFINE k == Len(t.e.args)
           last == SubSeq(s, Len(s) - k + 1, Len(s))
<1>1. CASE t.e.op = "concat"
  <2>1. /\ EmitStepOf(t, p, q, s, c, r, g, o) =
             <<p, q, Left(s, k, <<"res", t.key>>), c, r,
               Stated(g, r, t.key, "concat", last, c[Len(c)]), o>>
        /\ EmitStepOf(t, p, q, s, d, r, h, u) =
             <<p, q, Left(s, k, <<"res", t.key>>), d, r,
               Stated(h, r, t.key, "concat", last, d[Len(d)]), u>>
    BY <1>1 DEF EmitStepOf
  <2> HIDE DEF k, last
  <2>2. Stated(g, r, t.key, "concat", last, c[Len(c)]).argList =
          Stated(h, r, t.key, "concat", last, d[Len(d)]).argList
    BY StatedArgs
  <2> QED
    BY ONLY <2>1, <2>2 DEF Control
<1>2. CASE t.e.op # "concat"
  <2>1. /\ EmitStepOf(t, p, q, s, c, r, g, o) =
             <<p, q, Left(s, k, <<"res", r + 1>>), c, r + 1,
               Stated(g, r + 1, r + 1, t.e.op, last, c[Len(c)]), o>>
        /\ EmitStepOf(t, p, q, s, d, r, h, u) =
             <<p, q, Left(s, k, <<"res", r + 1>>), d, r + 1,
               Stated(h, r + 1, r + 1, t.e.op, last, d[Len(d)]), u>>
    BY <1>2 DEF EmitStepOf
  <2> HIDE DEF k, last
  <2>2. Stated(g, r + 1, r + 1, t.e.op, last, c[Len(c)]).argList =
          Stated(h, r + 1, r + 1, t.e.op, last, d[Len(d)]).argList
    BY StatedArgs
  <2> QED
    BY ONLY <2>1, <2>2 DEF Control
<1> QED
  BY <1>1, <1>2

\* A step depends on the control and makes the next one of it, whatever the widths.
LEMMA SameControl ==
  ASSUME NEW es, NEW w, NEW v, NEW K, NEW M, Control(K) = Control(M)
  PROVE  /\ Control(Bare(Advance(es, w, K))) = Control(Bare(Advance(es, v, M)))
         /\ Ended(es, K) <=> Ended(es, M)
<1>1. K[1] = M[1] /\ K[2] = M[2] /\ K[3] = M[3] /\ K[5] = M[5] /\ K[6].argList = M[6].argList
  BY DEF Control
<1>2. ASSUME NEW X PROVE Control(Bare(X)) = Control(X)
  BY DEF Control, Bare
<1>3. Control(Advance(es, w, K)) = Control(Advance(es, v, M))
  <2>1. CASE K[2] = <<>>
    <3>1. /\ Advance(es, w, K) = PartStep(es, w, K[1], K[3], K[4], K[5], K[6], K[7])
          /\ Advance(es, v, M) = PartStep(es, v, K[1], K[3], M[4], K[5], M[6], M[7])
      BY <1>1, <2>1 DEF Advance
    <3> QED
      BY <1>1, <3>1, PartControl
  <2>2. CASE K[2] # <<>> /\ Head(K[2]).do = "call"
    <3>1. /\ Advance(es, w, K) =
               CallStep(Head(K[2]).e, K[1], Tail(K[2]), K[3], K[4], K[5], K[6], K[7])
          /\ Advance(es, v, M) =
               CallStep(Head(K[2]).e, K[1], Tail(K[2]), K[3], M[4], K[5], M[6], M[7])
      BY <1>1, <2>2 DEF Advance
    <3> QED
      BY <1>1, <3>1, CallControl
  <2>3. CASE K[2] # <<>> /\ Head(K[2]).do = "end"
    <3>1. /\ Advance(es, w, K) = <<K[1], Tail(K[2]), K[3], SubSeq(K[4], 1, Len(K[4]) - 1), K[5],
                                   K[6], K[7]>>
          /\ Advance(es, v, M) = <<K[1], Tail(K[2]), K[3], SubSeq(M[4], 1, Len(M[4]) - 1), K[5],
                                   M[6], M[7]>>
      BY <1>1, <2>3 DEF Advance
    <3> QED
      BY <1>1, <3>1 DEF Control
  <2>4. CASE K[2] # <<>> /\ Head(K[2]).do \notin {"call", "end"}
    <3>1. /\ Advance(es, w, K) =
               EmitStepOf(Head(K[2]), K[1], Tail(K[2]), K[3], K[4], K[5], K[6], K[7])
          /\ Advance(es, v, M) =
               EmitStepOf(Head(K[2]), K[1], Tail(K[2]), K[3], M[4], K[5], M[6], M[7])
      BY <1>1, <2>4 DEF Advance
    <3> QED
      BY <1>1, <3>1, EmitControl
  <2> QED
    BY <2>1, <2>2, <2>3, <2>4
<1>4. Ended(es, K) <=> Ended(es, M)
  BY <1>1 DEF Ended
<1> QED
  BY <1>2, <1>3, <1>4

\* So units of the same expressions have the same arguments, whatever their widths.
LEMMA SameArguments ==
  ASSUME NEW es, NEW w, NEW v, NEW K, NEW M, Reached(es, w, K), Reached(es, v, M),
         Ended(es, K), Ended(es, M)
  PROVE  K[6].argList = M[6].argList
<1>1. PICK n \in Nat : \E f : Traced(es, w, f, n, K)
  BY DEF Reached
<1>2. PICK f : Traced(es, w, f, n, K)
  BY <1>1
<1>3. PICK m \in Nat : \E g : Traced(es, v, g, m, M)
  BY DEF Reached
<1>4. PICK g : Traced(es, v, g, m, M)
  BY <1>3
<1> DEFINE Odd == {i \in Nat : i <= n /\ i <= m /\ Control(f[i]) # Control(g[i])}
<1>5. Odd = {}
  <2> SUFFICES ASSUME Odd # {} PROVE FALSE
    OBVIOUS
  <2>1. PICK i \in Odd : \A j \in Odd : i <= j
    <3>1. Odd \in SUBSET Nat
      OBVIOUS
    <3> HIDE DEF Odd
    <3> QED
      BY <3>1, SmallestOf
  <2>2. i # 0
    BY <1>2, <1>4 DEF Traced
  <2>3. i - 1 \in Nat /\ i - 1 < n /\ i - 1 < m /\ i - 1 + 1 = i /\ i - 1 \notin Odd
    BY <2>1, <2>2
  <2>4. Control(f[i - 1]) = Control(g[i - 1])
    BY <2>1, <2>3
  <2>5. f[i] = Bare(Advance(es, w, f[i - 1])) /\ g[i] = Bare(Advance(es, v, g[i - 1]))
    <3>1. /\ f[i - 1 + 1] = Bare(Advance(es, w, f[i - 1]))
         /\ g[i - 1 + 1] = Bare(Advance(es, v, g[i - 1]))
      BY <1>2, <1>4, <2>3 DEF Traced
    <3> QED
      BY <2>3, <3>1
  <2>6. Control(f[i]) = Control(g[i])
    BY <2>4, <2>5, SameControl
  <2> QED
    BY <2>1, <2>6
<1>6. ~(n < m)
  <2> SUFFICES ASSUME n < m PROVE FALSE
    OBVIOUS
  <2>1. Control(f[n]) = Control(g[n]) /\ f[n] = K
    BY <1>2, <1>5 DEF Traced
  <2>2. ~Ended(es, g[n])
    BY <1>4 DEF Traced
  <2> QED
    BY <2>1, <2>2, SameControl
<1>7. ~(m < n)
  <2> SUFFICES ASSUME m < n PROVE FALSE
    OBVIOUS
  <2>1. Control(f[m]) = Control(g[m]) /\ g[m] = M
    BY <1>4, <1>5 DEF Traced
  <2>2. ~Ended(es, f[m])
    BY <1>2 DEF Traced
  <2> QED
    BY <2>1, <2>2, SameControl
<1>8. n = m
  BY <1>6, <1>7
<1>9. Control(K) = Control(M)
  BY <1>2, <1>4, <1>5, <1>8 DEF Traced
<1> QED
  BY <1>9 DEF Control

-----------------------------------------------------------------------------
(* The library. *)

\* A unit u printed for body b: what its statements and outputs calculate.
PrintedMeans(b, u) ==
  /\ u.of \in 1 .. Len(b) /\ u.name = b[u.of].exprs /\ ArgsOK(u.gen, b[u.of].inBW)
  /\ \E K : /\ Reached(b[u.of].exprs, OutWidths(b[u.of]), K) /\ Ended(b[u.of].exprs, K)
            /\ K[6].argList = u.gen.argList
  /\ \E L : /\ Labelled(L, u.gen.calc, u.gen.resBWList, u.gen.argList)
            /\ OutsMean(L, b[u.of], u.outs, Len(b[u.of].exprs) + 1)

\* Process p was printed for unit u.
PrintedFor(p, u) ==
  /\ p.of = u.of /\ p.name = u.name /\ p.calc = u.gen.calc /\ p.resBWList = u.gen.resBWList
  /\ p.outs = u.outs

\* Every unit printed has a process, and every process was printed for a unit.
LibInv ==
  /\ MeanInv /\ PrintInv
  /\ \A n \in DOMAIN instances : /\ PrintedMeans(body, instances[n])
                                 /\ instances[n].name \in PrintedNames
  /\ \A m \in DOMAIN chpLib : \E u : PrintedMeans(body, u) /\ PrintedFor(chpLib[m], u)

\* A step that does not print.
LEMMA SameLib ==
  ASSUME LibInv, MeanInv', PrintInv', UNCHANGED <<body, instances, chpLib>>
  PROVE  LibInv'
BY DEF LibInv, PrintedNames

\* The unit that is printed calculates what it should.
LEMMA UnitPrinted ==
  ASSUME MeanInv, PrintUnit, NEW u, u.of = unit, u.name = body[unit].exprs, u.gen = gen,
         u.outs = outs
  PROVE  PrintedMeans(body, u)
<1> DEFINE b == body[unit]
           es == b.exprs
<1>0. Inv
  BY DEF MeanInv, NameInv
<1>1. unit <= Len(body) /\ todo = <<>> /\ names = <<>> /\ part > Len(es)
  BY DEF PrintUnit, Between
<1>2. unit \in 1 .. Len(body) /\ es \in Seq(Exprs) /\ part \in Nat
  <2>1. unit \in 1 .. Len(body)
    BY <1>0, <1>1, UnitFacts
  <2> QED
    BY <1>0, <2>1, UnitFacts DEF Inv
<1>3. ArgsOK(u.gen, b.inBW)
  BY <1>1 DEF MeanInv, ArgInv
<1>4. /\ Reached(es, OutWidths(b), Bare(Progress)) /\ Ended(es, Bare(Progress))
      /\ Bare(Progress)[6].argList = u.gen.argList
  <2>1. Reached(es, OutWidths(b), Bare(Progress))
    BY <1>1 DEF MeanInv, NameInv
  <2>2. Bare(Progress) = <<part, <<>>, <<>>, <<>>, resSuffix, Rest(gen), outs>>
    BY <1>1 DEF Bare, Progress
  <2>3. Ended(es, Bare(Progress))
    BY <1>1, <2>2 DEF Ended
  <2> QED
    BY <2>1, <2>2, <2>3 DEF Rest
<1>5. PICK L : UnitMeans(L)
  BY <1>1 DEF MeanInv
<1>6. \A q \in Calculated(es) : q < part
  <2>1. \A q \in Calculated(es) : q \in 1 .. Len(es)
    BY <1>2 DEF Calculated
  <2> HIDE DEF es
  <2> QED
    BY <1>1, <1>2, <2>1
<1>7. OutsMean(L, b, outs, Len(es) + 1)
  BY <1>5, <1>6 DEF UnitMeans, OutsMean
<1>8. Labelled(L, u.gen.calc, u.gen.resBWList, u.gen.argList)
  BY <1>5 DEF UnitMeans
<1> QED
  BY <1>2, <1>3, <1>4, <1>7, <1>8 DEF PrintedMeans

\* A unit is printed.
LEMMA PrintLib == ASSUME LibInv, MeanInv', PrintInv', PrintUnit PROVE LibInv'
<1>0. Inv /\ MeanInv
  BY DEF LibInv, MeanInv, NameInv
<1>1. body' = body
  BY DEF PrintUnit
<1>2. CASE gen.calc = <<>>
  <2>1. UNCHANGED <<instances, chpLib>>
    BY <1>2 DEF PrintUnit, libVars
  <2> QED
    BY <1>1, <2>1, SameLib
<1>3. CASE gen.calc # <<>>
  <2> DEFINE name == ProcName(body[unit])
             i == [name |-> name, of |-> unit, gen |-> gen, outs |-> outs,
                   instance |-> FUName(body[unit], gen.argBW, outs)]
             p == [name |-> name, resBWList |-> gen.resBWList, calc |-> gen.calc, outs |-> outs,
                   of |-> unit]
  <2>1. /\ instances' = Append(instances, i)
        /\ Remembered(name) => chpLib' = chpLib
        /\ ~Remembered(name) => chpLib' = Append(chpLib, p)
    BY <1>3 DEF PrintUnit
  <2>2. /\ i.name = name /\ i.of = unit /\ i.gen = gen /\ i.outs = outs
        /\ p.name = name /\ p.of = unit /\ p.calc = gen.calc /\ p.resBWList = gen.resBWList
        /\ p.outs = outs /\ name = body[unit].exprs
    BY DEF ProcName
  <2> HIDE DEF i, p, name
  <2>3. PrintedMeans(body, i) /\ PrintedFor(p, i)
    BY <1>0, <2>2, UnitPrinted DEF PrintedFor
  <2>4. IsSeq(instances) /\ IsSeq(chpLib)
    <3>1. \E S : chpLib \in Seq(S)
      BY DEF LibInv, PrintInv, Filling
    <3> QED
      BY <1>0, <3>1, SeqIsSeq DEF Inv, Past
  <2>5. /\ DOMAIN instances = 1 .. Len(instances) /\ Len(instances) \in Nat
        /\ DOMAIN instances' = 1 .. Len(instances) + 1 /\ instances'[Len(instances) + 1] = i
        /\ \A n \in 1 .. Len(instances) : instances'[n] = instances[n]
    BY <2>1, <2>4, AppendIsSeq
  <2>6. ASSUME ~Remembered(name)
        PROVE  /\ DOMAIN chpLib = 1 .. Len(chpLib) /\ Len(chpLib) \in Nat
               /\ DOMAIN chpLib' = 1 .. Len(chpLib) + 1 /\ chpLib'[Len(chpLib) + 1] = p
               /\ \A n \in 1 .. Len(chpLib) : chpLib'[n] = chpLib[n]
    BY <2>1, <2>4, <2>6, AppendIsSeq
  <2>7. PrintedNames \subseteq PrintedNames' /\ name \in PrintedNames'
    <3>1. CASE Remembered(name)
      <4>1. name \in Table /\ Table \subseteq PrintedNames
        BY <3>1 DEF Remembered, Table, LibInv, PrintInv, Filling
      <4> QED
        BY <2>1, <3>1, <4>1 DEF PrintedNames
    <3>2. CASE ~Remembered(name)
      <4>1. PrintedNames \subseteq PrintedNames'
        BY <2>6, <3>2 DEF PrintedNames
      <4>2. Len(chpLib) + 1 \in DOMAIN chpLib'
        BY <2>6, <3>2
      <4> QED
        BY <2>2, <2>6, <3>2, <4>1, <4>2 DEF PrintedNames
    <3> QED
      BY <3>1, <3>2
  <2>8. ASSUME NEW n \in DOMAIN instances'
        PROVE  PrintedMeans(body, instances'[n]) /\ instances'[n].name \in PrintedNames'
    <3>1. n \in 1 .. Len(instances) \/ n = Len(instances) + 1
      BY <2>5
    <3> QED
      BY <2>2, <2>3, <2>5, <2>7, <3>1 DEF LibInv
  <2>9. ASSUME NEW m \in DOMAIN chpLib'
        PROVE  \E u : PrintedMeans(body, u) /\ PrintedFor(chpLib'[m], u)
    <3>1. CASE Remembered(name)
      BY <2>1, <3>1 DEF LibInv
    <3>2. CASE ~Remembered(name)
      <4>1. m \in 1 .. Len(chpLib) \/ m = Len(chpLib) + 1
        BY <2>6, <3>2
      <4> QED
        BY <2>3, <2>6, <3>2, <4>1 DEF LibInv
    <3> QED
      BY <3>1, <3>2
  <2> QED
    BY <1>1, <2>8, <2>9 DEF LibInv
<1> QED
  BY <1>2, <1>3

\* Every step preserves the invariant.
LEMMA NextLib == ASSUME LibInv, [Next]_vars PROVE LibInv'
<1>1. MeanInv' /\ PrintInv'
  BY NextMean, NextPrint DEF LibInv
<1>2. CASE PrintUnit
  BY <1>1, <1>2, PrintLib
<1>3. CASE CallInt \/ CallVar \/ CallCast \/ CallBool \/ CallOperator \/ CallQuery
  BY <1>1, <1>3, SameLib DEF CallInt, CallVar, CallCast, CallBool, CallOperator, CallQuery, libVars
<1>4. CASE CallConcat \/ EmitOperator \/ ReturnCondition \/ EmitQuery \/ RejectQuery \/ EmitConcat
  BY <1>1, <1>4, SameLib
  DEF CallConcat, EmitOperator, ReturnCondition, EmitQuery, RejectQuery, EmitConcat, libVars
<1>5. CASE CreateSource \/ LowerPart \/ EndPart \/ UNCHANGED vars
  BY <1>1, <1>5, SameLib DEF CreateSource, LowerPart, EndPart, vars, libVars
<1> QED
  BY <1>2, <1>3, <1>4, <1>5 DEF Next

\* Nothing is printed at the start.
LEMMA InitLib == Init => LibInv
<1> SUFFICES ASSUME Init PROVE LibInv
  OBVIOUS
<1>1. instances = <<>> /\ chpLib = <<>> /\ DOMAIN <<>> = {}
  BY EmptyFacts DEF Init
<1> QED
  BY <1>1, InitMean, InitPrint DEF LibInv

\* What a part keeps, its calculation keeps.
LEMMA KeepsPartIs ==
  ASSUME NEW iw, NEW wide, NEW e \in Exprs, KeepsPart(e, iw, wide)
  PROVE  /\ Keeps(iw, PartWidth(e, wide))[e]
         /\ e.op = "bool" => Exact(iw, 1)[e]
<1>1. CASE e.op # "bool"
  BY <1>1 DEF KeepsPart, PartWidth
<1>2. CASE e.op = "bool"
  <2>1. Exact(iw, 1)[e]
    <3>1. CASE Keeps(iw, wide)[e]
      <4>1. Exact(iw, wide)[e]
        <5>1. KeepsAt(WidthOf(iw), wide, Exact(iw, wide), Exact(iw, 1), Keeps(iw, wide), e)
          BY <3>1, KeepsIs
        <5> QED
          BY <1>2, <5>1 DEF KeepsAt
      <4>2. ExactAt(WidthOf(iw), wide, Exact(iw, wide), e)
        BY <4>1, ExactIs
      <4>3. wide = 1
        BY <1>2, <4>2 DEF ExactAt
      <4> QED
        BY <4>1, <4>3
    <3>2. CASE ~Keeps(iw, wide)[e]
      <4>1. WidthOf(iw)[e.args[1]] = 1 /\ Exact(iw, 1)[e.args[1]]
        BY <3>2 DEF KeepsPart
      <4>2. ExactAt(WidthOf(iw), 1, Exact(iw, 1), e)
        BY <1>2, <4>1 DEF ExactAt
      <4> QED
        BY <4>2, ExactIs
    <3> QED
      BY <3>1, <3>2
  <2>2. Keeps(iw, 1)[e]
    BY <2>1, ExactKeeps
  <2> QED
    BY <1>2, <2>1, <2>2 DEF PartWidth
<1> QED
  BY <1>1, <1>2

\* A right result of what is under the casts has the low bits of the expression.
LEMMA RightLow ==
  ASSUME NEW iw, Given(iw), NEW x, Valued(iw, x), NEW e \in Exprs, NEW W \in Nat,
         Keeps(iw, W)[e], NEW r, Right(iw, x, <<UnderCasts[e], W>>, r)
  PROVE  /\ r \in Nat /\ r % Pow2[W] = ValueOf(iw, x)[e] % Pow2[W]
         /\ (Exact(iw, W)[e] /\ WidthOf(iw)[e] <= W) => r = ValueOf(iw, x)[e]
<1>1. PICK l : l = <<UnderCasts[e], W>>
  OBVIOUS
<1>2. l[1] = UnderCasts[e] /\ l[2] = W
  BY ONLY <1>1
<1>3. UnderCasts[e] \in Exprs /\ ValueOf(iw, x)[e] \in Nat
  BY UnderCastsType, ValueBounded
<1>4. CASE UnderCasts[e].op = "var"
  <2>1. PICK v : v = ValueOf(iw, x)[UnderCasts[e]]
    OBVIOUS
  <2>2. r \in Nat /\ r % Pow2[W] = v % Pow2[W]
    BY <1>1, <1>2, <1>4, <2>1 DEF Right
  <2>3. Held(iw, x, W, UnderCasts[e], v)
    BY <1>3, <2>1, ValueHeld
  <2>4. Held(iw, x, W, e, v)
    BY <2>3, CastHeld
  <2>5. r % Pow2[W] = ValueOf(iw, x)[e] % Pow2[W]
    BY <2>2, <2>4 DEF Held
  <2>6. ASSUME Exact(iw, W)[e], WidthOf(iw)[e] <= W PROVE r = ValueOf(iw, x)[e]
    <3>1. r < Pow2[W]
      BY <1>1, <1>2, <1>4 DEF Right
    <3>2. r % Pow2[W] = r
      BY <2>2, <3>1, FitsMod
    <3>3. ValueOf(iw, x)[e] < Pow2[WidthOf(iw)[e]] /\ WidthOf(iw)[e] \in Nat
      BY ValueBounded, WidthIs
    <3>4. ValueOf(iw, x)[e] < Pow2[W]
      BY <1>3, <2>6, <3>3, MoreBits
    <3>5. ValueOf(iw, x)[e] % Pow2[W] = ValueOf(iw, x)[e]
      BY <1>3, <3>4, FitsMod
    <3> QED
      BY ONLY <2>5, <3>2, <3>5
  <2> QED
    BY <2>2, <2>5, <2>6
<1>5. CASE UnderCasts[e].op # "var"
  <2>1. Held(iw, x, W, UnderCasts[e], r)
    BY <1>1, <1>2, <1>5 DEF Right
  <2>2. Held(iw, x, W, e, r)
    BY <2>1, CastHeld
  <2> QED
    BY <2>2 DEF Held
<1> QED
  BY <1>4, <1>5

\* So has the result of a part, in no more bits than it was calculated in.
LEMMA PartRight ==
  ASSUME NEW iw, Given(iw), NEW x, Valued(iw, x), NEW e \in Exprs, NEW wide \in Nat,
         KeepsPart(e, iw, wide), NEW r, Right(iw, x, <<UnderCasts[e], PartWidth(e, wide)>>, r),
         NEW w \in Nat, w <= wide
  PROVE  r % Pow2[w] = ValueOf(iw, x)[e] % Pow2[w]
<1> DEFINE W == PartWidth(e, wide)
<1>1. Keeps(iw, W)[e] /\ (e.op = "bool" => Exact(iw, 1)[e])
  BY KeepsPartIs
<1>2. W \in Nat
  BY DEF PartWidth
<1>3. /\ r \in Nat /\ r % Pow2[W] = ValueOf(iw, x)[e] % Pow2[W]
      /\ (Exact(iw, W)[e] /\ WidthOf(iw)[e] <= W) => r = ValueOf(iw, x)[e]
  <2> HIDE DEF W
  <2>1. Right(iw, x, <<UnderCasts[e], W>>, r)
    BY DEF W
  <2> QED
    BY <1>1, <1>2, <2>1, RightLow
<1>4. CASE e.op = "bool"
  <2>1. W = 1 /\ Exact(iw, W)[e]
    BY <1>1, <1>4 DEF PartWidth
  <2>2. WidthOf(iw)[e] = 1
    BY <1>4, WidthIs, WidthCases
  <2> QED
    BY <1>3, <2>1, <2>2
<1>5. CASE e.op # "bool"
  <2>1. W = wide
    BY <1>5 DEF PartWidth
  <2>2. PICK v \in Nat : v = ValueOf(iw, x)[e]
    BY ValueBounded
  <2>3. r % Pow2[wide] = v % Pow2[wide]
    BY <1>3, <2>1, <2>2
  <2>4. /\ (r % Pow2[wide]) % Pow2[w] = r % Pow2[w]
        /\ (v % Pow2[wide]) % Pow2[w] = v % Pow2[w]
    <3>1. r \in Int /\ v \in Int
      BY <1>3, <2>2
    <3> QED
      BY <3>1, FewerBits
  <2> QED
    BY ONLY <2>2, <2>3, <2>4
<1> QED
  BY <1>4, <1>5

\* The process of a unit is one of its name.
LEMMA ProcessPrinted ==
  ASSUME LibInv, NEW n \in DOMAIN instances
  PROVE  \E m \in DOMAIN chpLib :
           ProcessOf(instances[n]) = chpLib[m] /\ chpLib[m].name = instances[n].name
<1> DEFINE name == instances[n].name
           Is(i) == chpLib[i].name = name /\ \A j \in 1 .. i - 1 : chpLib[j].name # name
           S == {i \in DOMAIN chpLib : chpLib[i].name = name}
<1>1. S # {}
  BY DEF LibInv, PrintedNames
<1>2. DOMAIN chpLib = 1 .. Len(chpLib) /\ Len(chpLib) \in Nat
  <2>1. \E T : chpLib \in Seq(T)
    BY DEF LibInv, PrintInv, Filling
  <2> QED
    BY <2>1
<1>3. PICK i \in S : \A k \in S : i <= k
  <2>1. S \in SUBSET Nat
    BY <1>2
  <2> HIDE DEF S
  <2> QED
    BY <1>1, <2>1, SmallestOf
<1>4. ASSUME NEW j \in 1 .. i - 1 PROVE chpLib[j].name # name
  <2>1. i \in 1 .. Len(chpLib)
    BY <1>2
  <2>2. j \in DOMAIN chpLib /\ ~(i <= j)
    BY <1>2, <2>1
  <2> QED
    BY <1>3, <2>2
<1>5. \E k \in DOMAIN chpLib : Is(k)
  BY <1>4
<1>6. ProcessOf(instances[n]) = chpLib[CHOOSE k \in DOMAIN chpLib : Is(k)]
  BY DEF ProcessOf
<1>7. /\ (CHOOSE k \in DOMAIN chpLib : Is(k)) \in DOMAIN chpLib
      /\ Is(CHOOSE k \in DOMAIN chpLib : Is(k))
  <2> HIDE DEF Is
  <2> QED
    BY <1>5
<1> QED
  BY <1>6, <1>7

-----------------------------------------------------------------------------
(* The theorem. *)

\* The units of the translated process are expressions with widths.
LEMMA BodyUnit ==
  ASSUME Inv, NEW i \in 1 .. Len(body)
  PROVE  /\ DOMAIN body[i].exprs = 1 .. Len(body[i].exprs) /\ Len(body[i].exprs) \in Nat
         /\ Given(body[i].inBW)
         /\ \A q \in DOMAIN body[i].exprs :
              body[i].exprs[q] \in Exprs /\ body[i].outBW[q] \in Nat \ {0}
<1>1. body \in Bodies /\ i \in DOMAIN body
  <2>1. body \in Bodies /\ body \in Seq({body[j] : j \in DOMAIN body})
    BY BodyAssumption DEF Inv
  <2> QED
    BY <2>1
<1>2. /\ body[i].exprs \in Seq(Exprs) /\ body[i].outBW \in Seq(Nat \ {0})
      /\ Len(body[i].exprs) = Len(body[i].outBW) /\ body[i].inBW \in Seq(Nat \ {0})
  BY <1>1, BodyAssumption
<1>3. Given(body[i].inBW)
  <2>1. \A j \in DOMAIN body[i].inBW : body[i].inBW[j] \in Nat
    BY <1>2
  <2> QED
    BY <2>1 DEF Given
<1> QED
  BY <1>2, <1>3

\* An input gives every identifier a value of its width.
LEMMA InputValued == ASSUME NEW u, NEW x \in Inputs(u), Given(body[u.of].inBW)
                     PROVE  Valued(body[u.of].inBW, x)
<1> DEFINE bw == body[u.of].inBW
<1>1. /\ x \in [DOMAIN bw -> UNION {0 .. Pow2[bw[i]] - 1 : i \in DOMAIN bw}]
      /\ \A i \in DOMAIN bw : x[i] < Pow2[bw[i]]
  BY DEF Inputs, Unit
<1>2. ASSUME NEW i \in DOMAIN bw PROVE x[i] \in Nat
  <2>1. PICK j \in DOMAIN bw : x[i] \in 0 .. Pow2[bw[j]] - 1
    BY <1>1
  <2> QED
    BY <2>1
<1> QED
  BY <1>1, <1>2 DEF Valued

\* A program that is labelled leaves, in the result of output q, what the
\* expression of q is worth in the bits asked for, if it is calculated in enough.
LEMMA ProgramComputes ==
  ASSUME NEW u, NEW p, NEW x, NEW iw, Given(iw), Valued(iw, x), ArgsOK(u.gen, iw),
         NEW L, Labelled(L, p.calc, p.resBWList, u.gen.argList),
         NEW e \in Exprs, NEW wide \in Nat \ {0}, KeepsPart(e, iw, wide),
         NEW res, res + 1 \in DOMAIN L, L[res + 1] = <<UnderCasts[e], PartWidth(e, wide)>>,
         res \in Int, NEW w \in Nat, w <= wide
  PROVE  Executed(p, u, x)[res] % Pow2[w] = ValueOf(iw, x)[e] % Pow2[w]
<1>1. PICK calc, rb, al, args, argBW : /\ calc = p.calc /\ rb = p.resBWList
        /\ al = u.gen.argList /\ args = ArgsOf(u, x) /\ argBW = u.gen.argBW
  OBVIOUS
<1>2. Labelled(L, calc, rb, al)
  BY <1>1
<1>3. Len(calc) \in Nat /\ DOMAIN L = 1 .. Len(calc)
  <2>1. calc \in Seq(Statement) /\ L \in Seq(Label \cup {None}) /\ Len(L) = Len(calc)
    BY <1>2 DEF Labelled
  <2> QED
    BY <2>1
<1>4. PICK k \in 1 .. Len(calc) : k = res + 1
  BY <1>3
<1>5. L[k] # None
  <2>1. <<UnderCasts[e], PartWidth(e, wide)>> \in Label
    BY UnderCastsType DEF Label, PartWidth
  <2> QED
    BY <1>4, <2>1, LabelIs
<1>6. Passed(al, args, argBW, iw, x)
  BY <1>1 DEF Passed, ArgsOK, ArgsOf
<1>7. PICK f : /\ Runs(f, Len(calc), calc, args, argBW, BWOf(rb))
               /\ Executed(p, u, x) = f[Len(calc)]
  <2> DEFINE f == CHOOSE g : Runs(g, Len(calc), calc, args, argBW, BWOf(rb))
  <2>1. Executed(p, u, x) = f[Len(calc)]
    BY <1>1, ExecutedIs
  <2>2. \E g : Runs(g, Len(calc), calc, args, argBW, BWOf(rb))
    BY <1>3, RunExists
  <2>3. Runs(f, Len(calc), calc, args, argBW, BWOf(rb))
    BY ONLY <2>2
  <2> QED
    BY <2>1, <2>3
<1>8. Right(iw, x, L[k], f[Len(calc)][k - 1])
  BY <1>2, <1>5, <1>6, <1>7, ProgramRight
<1>9. PICK r : r = f[Len(calc)][k - 1]
  OBVIOUS
<1>10. Right(iw, x, <<UnderCasts[e], PartWidth(e, wide)>>, r)
  BY <1>4, <1>8, <1>9
<1>11. r % Pow2[w] = ValueOf(iw, x)[e] % Pow2[w]
  BY <1>10, PartRight
<1>12. k - 1 = res
  BY <1>4
<1> QED
  BY <1>7, <1>9, <1>11, <1>12

\* Units of one name read their identifiers in one order, so that the process
\* printed for one of them is labelled for the other too.
LEMMA SharedProcess ==
  ASSUME LibInv, NEW n \in DOMAIN instances
  PROVE  \E v, L : /\ PrintedMeans(body, v) /\ ProcessOf(instances[n]).of = v.of
                   /\ body[v.of].exprs = body[instances[n].of].exprs
                   /\ Labelled(L, ProcessOf(instances[n]).calc,
                               ProcessOf(instances[n]).resBWList, instances[n].gen.argList)
                   /\ OutsMean(L, body[v.of], ProcessOf(instances[n]).outs,
                               Len(body[v.of].exprs) + 1)
<1>1. PICK u, p : u = instances[n] /\ p = ProcessOf(u)
  OBVIOUS
<1>2. PrintedMeans(body, u)
  BY <1>1 DEF LibInv
<1>3. PICK m \in DOMAIN chpLib : p = chpLib[m] /\ chpLib[m].name = u.name
  BY <1>1, ProcessPrinted
<1>4. PICK v : PrintedMeans(body, v) /\ PrintedFor(p, v)
  BY <1>3 DEF LibInv
<1>5. body[v.of].exprs = body[u.of].exprs
  BY <1>2, <1>3, <1>4 DEF PrintedMeans, PrintedFor
<1>6. PICK es : es = body[u.of].exprs
  OBVIOUS
<1>7. PICK K : Reached(es, OutWidths(body[u.of]), K) /\ Ended(es, K) /\ K[6].argList = u.gen.argList
  BY <1>2, <1>6 DEF PrintedMeans
<1>8. PICK M : Reached(es, OutWidths(body[v.of]), M) /\ Ended(es, M) /\ M[6].argList = v.gen.argList
  BY <1>4, <1>5, <1>6 DEF PrintedMeans
<1>9. K[6].argList = M[6].argList
  <2>1. Reached(es, OutWidths(body[u.of]), K) /\ Reached(es, OutWidths(body[v.of]), M)
    BY <1>7, <1>8
  <2>2. Ended(es, K) /\ Ended(es, M)
    BY <1>7, <1>8
  <2> QED
    BY ONLY <2>1, <2>2, SameArguments
<1>10. v.gen.argList = u.gen.argList
  BY <1>7, <1>8, <1>9
<1>11. PICK L : /\ Labelled(L, v.gen.calc, v.gen.resBWList, v.gen.argList)
                /\ OutsMean(L, body[v.of], v.outs, Len(body[v.of].exprs) + 1)
  BY <1>4 DEF PrintedMeans
<1> QED
  BY <1>1, <1>4, <1>5, <1>10, <1>11 DEF PrintedFor

\* What is printed computes the expressions.
LEMMA InstanceComputes ==
  ASSUME LibInv, NEW n \in DOMAIN instances, NEW u, NEW p, u = instances[n], p = ProcessOf(u),
         NEW q \in Calculates(u), body[u.of].outBW[q] <= body[p.of].outBW[q],
         KeepsPart(body[u.of].exprs[q], body[u.of].inBW, body[p.of].outBW[q]),
         NEW x \in Inputs(u)
  PROVE  Executed(p, u, x)[p.outs[OutputOf(u, q)].res] % Pow2[body[u.of].outBW[q]] =
           ValueOf(body[u.of].inBW, x)[body[u.of].exprs[q]] % Pow2[body[u.of].outBW[q]]
<1>1. PICK v, L : /\ PrintedMeans(body, v) /\ p.of = v.of
                  /\ body[v.of].exprs = body[u.of].exprs
                  /\ Labelled(L, p.calc, p.resBWList, u.gen.argList)
                  /\ OutsMean(L, body[v.of], p.outs, Len(body[v.of].exprs) + 1)
  BY SharedProcess
<1>2. PICK iw, e, w, wide : /\ iw = body[u.of].inBW /\ e = body[u.of].exprs[q]
                            /\ w = body[u.of].outBW[q] /\ wide = body[p.of].outBW[q]
  OBVIOUS
<1>3. PrintedMeans(body, u)
  BY DEF LibInv
<1>4. Inv /\ u.of \in 1 .. Len(body) /\ v.of \in 1 .. Len(body)
  BY <1>1, <1>3 DEF LibInv, MeanInv, NameInv, PrintedMeans
<1>5. /\ q \in DOMAIN body[u.of].exprs /\ e \in Exprs /\ e.op # "int"
      /\ q \in 1 .. Len(body[v.of].exprs) /\ Len(body[v.of].exprs) \in Nat
      /\ w \in Nat /\ wide \in Nat \ {0} /\ Given(iw)
  <2>1. q \in DOMAIN body[u.of].exprs /\ e.op # "int"
    BY <1>2 DEF Calculates, Unit
  <2>2. e \in Exprs /\ w \in Nat /\ Given(iw)
    BY <1>2, <1>4, <2>1, BodyUnit
  <2>3. /\ wide \in Nat \ {0} /\ q \in 1 .. Len(body[v.of].exprs)
        /\ Len(body[v.of].exprs) \in Nat
    BY <1>1, <1>2, <1>4, <2>1, BodyUnit
  <2> QED
    BY <2>1, <2>2, <2>3
<1>6. Valued(iw, x)
  BY <1>2, <1>5, InputValued
<1>7. PICK res : res = p.outs[OutputOf(u, q)].res
  OBVIOUS
<1>8. OutputOf(u, q) = OutputAt(body[v.of].exprs, q) /\ q \in Calculated(body[v.of].exprs)
  BY <1>1 DEF OutputOf, OutputAt, Calculates, Calculated, Unit
<1>9. KeepsPart(e, iw, wide)
  BY <1>2
<1>10. WidthAtPart(body[v.of], q) = PartWidth(e, wide) /\ body[v.of].exprs[q] = e
  BY <1>1, <1>2 DEF WidthAtPart
<1>11. GoodPart(body[v.of], q)
  <2>1. Keeps(iw, PartWidth(e, wide))[e]
    BY <1>5, <1>9, KeepsPartIs
  <2> QED
    BY <1>10, <2>1 DEF GoodPart, Good
<1>12. res \in Int /\ res + 1 \in DOMAIN L /\ L[res + 1] = <<UnderCasts[e], PartWidth(e, wide)>>
  <2>1. q < Len(body[v.of].exprs) + 1
    BY <1>5
  <2>2. res \in Int /\ res + 1 \in DOMAIN L /\ L[res + 1] = LabelOf(body[v.of], q)
    BY <1>1, <1>7, <1>8, <1>11, <2>1 DEF OutsMean
  <2> QED
    BY <1>10, <2>2 DEF LabelOf
<1>13. ArgsOK(u.gen, iw)
  BY <1>2, <1>3 DEF PrintedMeans
<1>14. Executed(p, u, x)[res] % Pow2[w] = ValueOf(iw, x)[e] % Pow2[w]
  <2>1. Given(iw) /\ Valued(iw, x) /\ ArgsOK(u.gen, iw)
    BY <1>5, <1>6, <1>13
  <2>2. Labelled(L, p.calc, p.resBWList, u.gen.argList)
    BY <1>1
  <2>3. e \in Exprs /\ wide \in Nat \ {0} /\ KeepsPart(e, iw, wide) /\ w \in Nat /\ w <= wide
    BY <1>2, <1>5, <1>9
  <2> QED
    BY ONLY <1>12, <2>1, <2>2, <2>3, ProgramComputes
<1> QED
  BY <1>2, <1>7, <1>14

\* Whatever the expressions of the units, their widths and the inputs, what is
\* printed for a unit sends on every output what its expression means, in the bits
\* of the output, if the output is wide enough for the operators inside and the
\* process printed for the first unit of that name is as wide.
THEOREM ComputesExpressionAlways == Spec => []ComputesExpression
<1>1. LibInv /\ [Next]_vars => LibInv'
  BY NextLib
<1>2. LibInv => ComputesExpression
  BY InstanceComputes DEF ComputesExpression, Unit
<1> QED
  BY InitLib, <1>1, <1>2, PTL DEF Spec
=============================================================================
