---------------------------- MODULE Expressions ----------------------------
(***************************************************************************)
(* What an expression of the dataflow language means: its value for the    *)
(* values and widths of its identifiers, as the ACT language defines it    *)
(* (a sum is one bit wider than its operands, int(e, n) keeps n bits).     *)
(* An expression is a tree [op, n, args]: a literal n, the n-th identifier *)
(* of its unit, an operator, a cast to n bits, bool, query or concat.      *)
(* "plus" stands for the operators whose low bits depend on the low bits   *)
(* of their operands only (+ - * & | ^), "lt" for those that need all bits *)
(* (comparisons, / % >>).                                                  *)
(***************************************************************************)
EXTENDS Bits, Sequences, FiniteSets

CONSTANT Exprs   \* expressions, every operand of one included

Operators == {"plus", "lt", "not"}
Ops == Operators \cup {"int", "var", "cast", "bool", "query", "concat"}
Arity(op) == CASE op \in {"int", "var"} -> 0
               [] op \in {"not", "cast", "bool"} -> 1
               [] op = "query" -> 3
               [] OTHER -> 2

\* Expressions are finite trees: the operands of one are lower than itself.
Height[e \in Exprs] ==
  IF e.args = <<>> THEN 0
  ELSE 1 + CHOOSE h \in {Height[e.args[i]] : i \in DOMAIN e.args} :
             \A i \in DOMAIN e.args : Height[e.args[i]] <= h

ASSUME ExprAssumption ==
  \A e \in Exprs : /\ e.op \in Ops /\ e.n \in Nat
                   /\ e.args \in Seq(Exprs) /\ Len(e.args) = Arity(e.op)
                   /\ e.op = "cast" => e.n > 0
                   /\ Height[e] \in Nat
                   /\ \A i \in DOMAIN e.args : Height[e.args[i]] < Height[e]

\* The expression under the casts.
UnderCasts[e \in Exprs] == IF e.op \in {"cast", "bool"} THEN UnderCasts[e.args[1]] ELSE e

\* The identifiers of an expression.
Identifiers[e \in Exprs] ==
  IF e.op = "var" THEN {e.n} ELSE UNION {Identifiers[e.args[i]] : i \in DOMAIN e.args}

Bit(b) == IF b THEN 1 ELSE 0
Larger(a, b) == IF a < b THEN b ELSE a
BitsOf(v) == CHOOSE w \in 1 .. v + 1 : v < Pow2[w] /\ \A k \in 1 .. w - 1 : v >= Pow2[k]

\* An operator on operands of values v and widths w.
Apply(op, v, w) ==
  CASE op = "plus" -> v[1] + v[2]
    [] op = "lt" -> Bit(v[1] < v[2])
    [] op = "not" -> Pow2[w[1]] - 1 - v[1]
    [] op = "query" -> IF v[1] # 0 THEN v[2] ELSE v[3]
    [] op = "concat" -> v[1] * Pow2[w[2]] + v[2]
    [] OTHER -> v[1]

\* The width of every expression, given the widths of the identifiers; another
\* identifier has no bits.
WidthOf(inBW) ==
  LET width[e \in Exprs] ==
        CASE e.op = "int" -> BitsOf(e.n)
          [] e.op = "var" -> IF e.n \in DOMAIN inBW THEN inBW[e.n] ELSE 0
          [] e.op = "plus" -> 1 + Larger(width[e.args[1]], width[e.args[2]])
          [] e.op \in {"lt", "bool"} -> 1
          [] e.op = "not" -> width[e.args[1]]
          [] e.op = "cast" -> e.n
          [] e.op = "query" -> Larger(width[e.args[2]], width[e.args[3]])
          [] OTHER -> width[e.args[1]] + width[e.args[2]]
  IN  width

\* The value of every expression, given those of the identifiers.
ValueOf(inBW, x) ==
  LET width == WidthOf(inBW)
      value[e \in Exprs] ==
        CASE e.op = "int" -> e.n
          [] e.op = "var" -> IF e.n \in DOMAIN x THEN x[e.n] ELSE 0
          [] e.op = "cast" -> value[e.args[1]] % Pow2[e.n]
          [] e.op = "bool" -> Bit(value[e.args[1]] # 0)
          [] OTHER -> Apply(e.op, [i \in DOMAIN e.args |-> value[e.args[i]]],
                            [i \in DOMAIN e.args |-> width[e.args[i]]])
  IN  value

\* The expressions that a calculation in w bits throughout, casts ignored,
\* gets right: Exact, whose value fits in w bits at every operator, and Keeps,
\* whose low w bits are right.
Exact(inBW, w) ==
  LET width == WidthOf(inBW)
      exact[e \in Exprs] ==
        \/ e.op \in {"int", "var"}
        \/ e.op = "plus" /\ width[e] <= w /\ exact[e.args[1]] /\ exact[e.args[2]]
        \/ e.op = "lt" /\ exact[e.args[1]] /\ exact[e.args[2]]
        \/ e.op = "cast" /\ width[e.args[1]] <= e.n /\ exact[e.args[1]]
        \/ e.op = "not" /\ width[e] <= w /\ e.args[1].op = "var"
        \/ e.op = "concat" /\ width[e] <= w /\ \A i \in {1, 2} : e.args[i].op = "var"
        \/ e.op = "bool" /\ w = 1 /\ width[e.args[1]] = 1 /\ exact[e.args[1]]
  IN  exact

Keeps(inBW, w) ==
  LET width == WidthOf(inBW)
      keeps[e \in Exprs] ==
        \/ e.op \in {"int", "var"}
        \/ e.op = "plus" /\ keeps[e.args[1]] /\ keeps[e.args[2]]
        \/ e.op = "lt" /\ \A i \in {1, 2} : Exact(inBW, w)[e.args[i]]
        \/ e.op = "cast" /\ (width[e.args[1]] <= e.n \/ w <= e.n) /\ keeps[e.args[1]]
        \/ e.op = "not" /\ e.args[1].op = "var"
        \/ e.op = "concat" /\ \A i \in {1, 2} : e.args[i].op = "var"
        \/ /\ e.op = "query" /\ Exact(inBW, 1)[e.args[1]]
           /\ keeps[e.args[2]] /\ keeps[e.args[3]]
        \/ e.op = "bool" /\ Exact(inBW, w)[e]
  IN  keeps
=============================================================================
