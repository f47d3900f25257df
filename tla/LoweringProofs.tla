--------------------------- MODULE LoweringProofs ---------------------------
(*****************************************************************************)
(* What the lowering generates is of one length, named and in order, and a   *)
(* process of the library is printed once: for every set of expressions and  *)
(* bodies and every size of the table of printed names.                      *)
(*                                                                           *)
(* What printExpr has left to do is the stack of the names it has and the    *)
(* frames it must still take.  The proofs rest on three facts about them,    *)
(* which every step keeps (Planned).                                         *)
(*                                                                           *)
(* The heights of the stack are known ahead: a call leaves one name, an emit *)
(* takes those of its operands.  So every emit finds its operands, and one   *)
(* name is left when a root is lowered.                                      *)
(*                                                                           *)
(* A concatenation takes its name before its operands are lowered, and its   *)
(* statement assigns the name given last.  The two are the same unless an    *)
(* operand of it is calculated: then a result stands above its base on the   *)
(* stack, or an emit is still to come before it.                             *)
(*                                                                           *)
(* A root that leaves no result is an identifier or a literal under casts,   *)
(* which is what EndPart tells apart to copy it.                             *)
(*                                                                           *)
(* The inductive invariant keeps a ledger of the results.  Those named so    *)
(* far are the ones assigned by a statement and the names that               *)
(* concatenations on the stack have taken (Ledger); what waits on the stack  *)
(* is the plan (Walk).  TypeOK alone is not inductive: that an emit finds    *)
(* its operands depends on all the frames below it, and that a concatenation *)
(* of uncalculated operands assigns the name it took depends on what came    *)
(* since.                                                                    *)
(*                                                                           *)
(* While the table of printed names has room it holds exactly the printed    *)
(* names.  A second process of one name is therefore printed only when the   *)
(* table is full of other names, and then more than MAX_PROCESSES are in use. *)
(*****************************************************************************)
EXTENDS Lowering, Recursion, FiniteSetTheorems, TLAPS

\* A name on the stack, and a step of printExpr that is left to do.
Name == {"x", "res", "int"} \X Nat
Frame == [do : {"call", "emit", "end"}, e : Exprs, key : Nat]

\* An expression has the operands of its operator, each lower than itself.
LEMMA ExprFacts ==
  ASSUME NEW e \in Exprs
  PROVE  /\ e.op \in Ops /\ e.n \in Nat
         /\ e.args \in Seq(Exprs) /\ Len(e.args) = Arity(e.op)
         /\ DOMAIN e.args = 1 .. Arity(e.op)
         /\ Height[e] \in Nat
         /\ \A i \in DOMAIN e.args : Height[e.args[i]] < Height[e]
<1>1. e.args \in Seq(Exprs) /\ Len(e.args) = Arity(e.op)
  BY ExprAssumption
<1>2. DOMAIN e.args = 1 .. Arity(e.op)
  BY <1>1
<1> QED
  BY <1>1, <1>2, ExprAssumption

\* The last step of a concatenation, which took its name at the first.
IsConcat(t) == t.do = "emit" /\ t.e.op = "concat"

\* What a frame adds to the names on the stack.
Delta(t) == IF t.do = "call" THEN 1 ELSE IF t.do = "emit" THEN 1 - Len(t.e.args) ELSE 0

\* h[i] names are on the stack when frame i of q is reached, and an emit finds
\* its operands.
Heights(h, q) ==
  /\ h \in [1 .. Len(q) + 1 -> Nat]
  /\ \A i \in 1 .. Len(q) : /\ h[i + 1] = h[i] + Delta(q[i])
                            /\ q[i].do = "emit" => Len(q[i].e.args) <= h[i]

\* The names below the operands of frame i.
Base(h, q, i) == h[i] - Len(q[i].e.args)

\* What stands above a concatenation is lowered for its operands.
Within(h, q) ==
  \A i, j \in 1 .. Len(q) : (j < i /\ IsConcat(q[i])) =>
    /\ Base(h, q, i) <= h[j]
    /\ q[j].do = "emit" => Base(h, q, i) < h[j + 1]

\* If a result was named since a concatenation took its name, an operand of it
\* is calculated, or will be.
Tainted(h, q, s, r) ==
  \A i \in 1 .. Len(q) : (IsConcat(q[i]) /\ q[i].key < r) =>
    \/ \E j \in 1 .. Len(s) : Base(h, q, i) < j /\ s[j][1] = "res"
    \/ \E j \in 1 .. i - 1 : q[j].do = "emit"

\* With the names s on the stack, the frames q leave f names.
Planned(h, q, s, r, f) ==
  /\ q \in Seq(Frame) /\ s \in Seq(Name) /\ r \in Int
  /\ Heights(h, q) /\ h[1] = Len(s) /\ h[Len(q) + 1] = f
  /\ Within(h, q) /\ Tainted(h, q, s, r)

\* What is left of a sequence without its first element.
LEMMA TailFacts ==
  ASSUME NEW S, NEW q \in Seq(S), q # <<>>
  PROVE  /\ Tail(q) \in Seq(S) /\ Len(q) \in Nat /\ Len(q) >= 1
         /\ Len(Tail(q)) = Len(q) - 1 /\ DOMAIN Tail(q) = 1 .. Len(q) - 1
         /\ \A i \in 1 .. Len(q) - 1 : Tail(q)[i] = q[i + 1]
         /\ Head(q) = q[1] /\ q[1] \in S /\ DOMAIN q = 1 .. Len(q)
OBVIOUS

\* Two sequences joined.
LEMMA JoinFacts ==
  ASSUME NEW S, NEW p \in Seq(S), NEW q \in Seq(S)
  PROVE  /\ p \o q \in Seq(S) /\ Len(p) \in Nat /\ Len(q) \in Nat
         /\ Len(p \o q) = Len(p) + Len(q)
         /\ \A i \in 1 .. Len(p) : (p \o q)[i] = p[i]
         /\ \A i \in Len(p) + 1 .. Len(p) + Len(q) : (p \o q)[i] = q[i - Len(p)]
OBVIOUS

\* The frames p in the place of the first of q.
LEMMA ReplacedFacts ==
  ASSUME NEW S, NEW p \in Seq(S), NEW q \in Seq(S), q # <<>>
  PROVE  /\ p \o Tail(q) \in Seq(S) /\ Len(p) \in Nat /\ Len(q) \in Nat /\ Len(q) >= 1
         /\ Len(p \o Tail(q)) = Len(p) + Len(q) - 1
         /\ DOMAIN (p \o Tail(q)) = 1 .. Len(p) + Len(q) - 1
         /\ \A i \in 1 .. Len(p) : (p \o Tail(q))[i] = p[i]
         /\ \A i \in Len(p) + 1 .. Len(p) + Len(q) - 1 : (p \o Tail(q))[i] = q[i - Len(p) + 1]
<1>1. /\ Tail(q) \in Seq(S) /\ Len(q) \in Nat /\ Len(q) >= 1 /\ Len(Tail(q)) = Len(q) - 1
      /\ \A i \in 1 .. Len(q) - 1 : Tail(q)[i] = q[i + 1]
  BY TailFacts
<1>2. /\ p \o Tail(q) \in Seq(S) /\ Len(p) \in Nat
      /\ Len(p \o Tail(q)) = Len(p) + (Len(q) - 1)
      /\ \A i \in 1 .. Len(p) : (p \o Tail(q))[i] = p[i]
      /\ \A i \in Len(p) + 1 .. Len(p) + (Len(q) - 1) : (p \o Tail(q))[i] = Tail(q)[i - Len(p)]
  BY <1>1, JoinFacts
<1>3. ASSUME NEW i \in Len(p) + 1 .. Len(p) + Len(q) - 1
      PROVE  (p \o Tail(q))[i] = q[i - Len(p) + 1]
  <2>1. i - Len(p) \in 1 .. Len(q) - 1 /\ i \in Len(p) + 1 .. Len(p) + (Len(q) - 1)
    BY <1>1, <1>2
  <2>2. (p \o Tail(q))[i] = Tail(q)[i - Len(p)]
    BY <1>2, <2>1
  <2> QED
    BY <1>1, <2>1, <2>2
<1>4. DOMAIN (p \o Tail(q)) = 1 .. Len(p) + Len(q) - 1
  BY <1>1, <1>2
<1> QED
  BY <1>1, <1>2, <1>3, <1>4

\* A frame at the top returns a name, in place of its operands if it has any.
LEMMA PlanReturn ==
  ASSUME NEW h, NEW q, NEW s, NEW r, NEW f, Planned(h, q, s, r, f), q # <<>>,
         NEW k, k = (IF q[1].do = "emit" THEN Len(q[1].e.args) ELSE 0), q[1].do # "end",
         NEW x \in Name, NEW t, t = Append(SubSeq(s, 1, Len(s) - k), x),
         NEW n \in Int, IF q[1].do = "emit" THEN x[1] = "res" ELSE n = r
  PROVE  \E g : Planned(g, Tail(q), t, n, f)
<1> DEFINE g == [i \in 1 .. Len(q) |-> h[i + 1]]
<1>1. q \in Seq(Frame) /\ s \in Seq(Name) /\ Heights(h, q) /\ h[1] = Len(s) /\ h[Len(q) + 1] = f
  BY DEF Planned
<1>2. /\ Tail(q) \in Seq(Frame) /\ Len(q) \in Nat /\ Len(q) >= 1
      /\ Len(Tail(q)) = Len(q) - 1 /\ \A i \in 1 .. Len(q) - 1 : Tail(q)[i] = q[i + 1]
      /\ q[1] \in Frame
  BY <1>1, TailFacts
<1>3. k \in Nat /\ k <= Len(s) /\ h[2] = Len(s) - k + 1
  <2>1. q[1].e \in Exprs /\ q[1].do \in {"call", "emit", "end"} /\ 1 \in 1 .. Len(q)
    BY <1>2 DEF Frame
  <2>2. Len(q[1].e.args) \in Nat
    BY <2>1, ExprFacts
  <2>3. h[1 + 1] = h[1] + Delta(q[1]) /\ (q[1].do = "emit" => Len(q[1].e.args) <= h[1])
    BY <1>1, <2>1 DEF Heights
  <2>4. Len(s) \in Nat /\ 1 + 1 = 2
    BY <1>1
  <2>5. CASE q[1].do = "emit"
    <3>1. Delta(q[1]) = 1 - Len(q[1].e.args) /\ k = Len(q[1].e.args)
      BY <2>5 DEF Delta
    <3>2. h[2] = Len(s) + (1 - Len(q[1].e.args)) /\ Len(q[1].e.args) <= Len(s)
      BY <1>1, <2>3, <2>4, <2>5, <3>1
    <3> QED
      BY ONLY <2>2, <2>4, <3>1, <3>2
  <2>6. CASE q[1].do # "emit"
    <3>1. Delta(q[1]) = 1 /\ k = 0
      BY <2>1, <2>6 DEF Delta
    <3>2. h[2] = Len(s) + 1
      BY <1>1, <2>3, <2>4, <3>1
    <3> QED
      BY ONLY <2>4, <3>1, <3>2
  <2> QED
    BY <2>5, <2>6
<1>4. /\ t \in Seq(Name) /\ Len(s) \in Nat /\ Len(t) = h[2]
      /\ \A i \in 1 .. Len(s) - k : t[i] = s[i]
      /\ t[h[2]] = x
  <2>1. s \in Seq(Name) /\ k \in Nat /\ k <= Len(s)
    BY <1>1, <1>3
  <2>0. t = Append(SubSeq(s, 1, Len(s) - k), x) /\ x \in Name
    OBVIOUS
  <2>2. /\ SubSeq(s, 1, Len(s) - k) \in Seq(Name) /\ Len(SubSeq(s, 1, Len(s) - k)) = Len(s) - k
        /\ \A i \in 1 .. Len(s) - k : SubSeq(s, 1, Len(s) - k)[i] = s[i]
    BY ONLY <2>1
  <2>3. /\ t \in Seq(Name) /\ Len(s) \in Nat /\ Len(t) = Len(s) - k + 1
        /\ \A i \in 1 .. Len(s) - k : t[i] = s[i]
        /\ t[Len(s) - k + 1] = x
    BY ONLY <2>1, <2>2, <2>0
  <2> QED
    BY ONLY <1>3, <2>3
<1>5. Heights(g, Tail(q)) /\ g[1] = h[2] /\ g[Len(q)] = f
  <2>1. g \in [1 .. Len(Tail(q)) + 1 -> Nat]
    BY <1>1, <1>2 DEF Heights
  <2>2. ASSUME NEW i \in 1 .. Len(Tail(q))
        PROVE  /\ g[i + 1] = g[i] + Delta(Tail(q)[i])
               /\ Tail(q)[i].do = "emit" => Len(Tail(q)[i].e.args) <= g[i]
    <3>1. i + 1 \in 1 .. Len(q) /\ i \in 1 .. Len(q) /\ Tail(q)[i] = q[i + 1]
      BY <1>2
    <3>2. g[i + 1] = h[i + 1 + 1] /\ g[i] = h[i + 1]
      BY <3>1
    <3> QED
      BY <1>1, <3>1, <3>2 DEF Heights
  <2>3. g[1] = h[2] /\ g[Len(q)] = f
    BY <1>1, <1>2
  <2> QED
    BY <2>1, <2>2, <2>3 DEF Heights
<1>6. ASSUME NEW i \in 1 .. Len(Tail(q))
      PROVE  /\ i + 1 \in 1 .. Len(q) /\ Tail(q)[i] = q[i + 1] /\ g[i] = h[i + 1]
             /\ Base(g, Tail(q), i) = Base(h, q, i + 1)
  BY <1>2 DEF Base
<1>7. Within(g, Tail(q))
  <2> SUFFICES ASSUME NEW i \in 1 .. Len(Tail(q)), NEW j \in 1 .. Len(Tail(q)), j < i,
                      IsConcat(Tail(q)[i])
               PROVE  /\ Base(g, Tail(q), i) <= g[j]
                      /\ Tail(q)[j].do = "emit" => Base(g, Tail(q), i) < g[j + 1]
    BY DEF Within
  <2>1. j + 1 < i + 1 /\ IsConcat(q[i + 1]) /\ j + 1 \in 1 .. Len(Tail(q))
    BY <1>6, <1>2
  <2>2. /\ Base(h, q, i + 1) <= h[j + 1]
        /\ q[j + 1].do = "emit" => Base(h, q, i + 1) < h[j + 1 + 1]
    BY <1>6, <2>1 DEF Planned, Within
  <2>3. g[j] = h[j + 1] /\ g[j + 1] = h[j + 1 + 1]
    BY <1>6, <2>1
  <2> QED
    BY <1>6, <2>2, <2>3
<1>8. Tainted(g, Tail(q), t, n)
  <2> SUFFICES ASSUME NEW i \in 1 .. Len(Tail(q)), IsConcat(Tail(q)[i]), Tail(q)[i].key < n
               PROVE  \/ \E j \in 1 .. Len(t) : Base(g, Tail(q), i) < j /\ t[j][1] = "res"
                      \/ \E j \in 1 .. i - 1 : Tail(q)[j].do = "emit"
    BY DEF Tainted
  <2>1. IsConcat(q[i + 1]) /\ q[i + 1].key < n /\ 1 \in 1 .. Len(q) /\ 1 < i + 1
    BY <1>2, <1>6
  <2>2. CASE q[1].do = "emit"
    <3>1. Base(h, q, i + 1) < h[1 + 1]
      BY <1>6, <2>1, <2>2 DEF Planned, Within
    <3>2. h[2] \in 1 .. Len(t)
      BY ONLY <1>3, <1>4
    <3>3. t[h[2]][1] = "res" /\ 1 + 1 = 2
      BY <1>4, <2>2
    <3>4. Base(g, Tail(q), i) < h[2]
      BY <1>6, <3>1, <3>3
    <3> QED
      BY <3>2, <3>3, <3>4
  <2>3. CASE q[1].do # "emit" /\ \E j \in 1 .. Len(s) : Base(h, q, i + 1) < j /\ s[j][1] = "res"
    <3>1. PICK j \in 1 .. Len(s) : Base(h, q, i + 1) < j /\ s[j][1] = "res"
      BY <2>3
    <3>2. k = 0 /\ j \in 1 .. Len(t) /\ t[j] = s[j]
      BY <1>3, <1>4, <2>3, <3>1
    <3> QED
      BY <1>6, <3>1, <3>2
  <2>4. CASE q[1].do # "emit" /\ \E j \in 1 .. i + 1 - 1 : q[j].do = "emit"
    <3>1. PICK j \in 1 .. i + 1 - 1 : q[j].do = "emit"
      BY <2>4
    <3>2. j # 1
      BY <2>4, <3>1
    <3>3. j - 1 \in 1 .. i - 1 /\ j - 1 \in 1 .. Len(Tail(q)) /\ j - 1 + 1 = j
      BY <3>1, <3>2
    <3>4. Tail(q)[j - 1] = q[j]
      BY <1>6, <3>3
    <3> QED
      BY <3>1, <3>3, <3>4
  <2>5. CASE q[1].do # "emit"
    <3>1. n = r /\ Tainted(h, q, s, r)
      BY <2>5 DEF Planned
    <3>2. \/ \E j \in 1 .. Len(s) : Base(h, q, i + 1) < j /\ s[j][1] = "res"
          \/ \E j \in 1 .. i + 1 - 1 : q[j].do = "emit"
      BY <1>6, <2>1, <3>1 DEF Tainted
    <3> QED
      BY <2>3, <2>4, <2>5, <3>2
  <2> QED
    BY <2>2, <2>5
<1> HIDE DEF g
<1> QED
  BY <1>1, <1>2, <1>4, <1>5, <1>7, <1>8 DEF Planned

\* The frames p take the place of a call, or none that of an end.
LEMMA PlanReplace ==
  ASSUME NEW h, NEW q, NEW s, NEW r, NEW f, Planned(h, q, s, r, f), q # <<>>,
         q[1].do # "emit",
         NEW p \in Seq(Frame), NEW g, Heights(g, p), g[1] = Len(s),
         g[Len(p) + 1] = Len(s) + Delta(q[1]),
         NEW n \in Int, r <= n, n # r => \E j \in 1 .. Len(p) : p[j].do = "emit",
         \A j \in 1 .. Len(p) :
           /\ Len(s) <= g[j]
           /\ p[j].do = "emit" => /\ j = Len(p) /\ q[1].do = "call"
                                  /\ IsConcat(p[j]) => p[j].key = n
  PROVE  \E d : Planned(d, p \o Tail(q), s, n, f)
<1> DEFINE t == p \o Tail(q)
           m == Len(p)
           d == [i \in 1 .. m + Len(q) |-> IF i <= m THEN g[i] ELSE h[i - m + 1]]
<1>1. /\ q \in Seq(Frame) /\ s \in Seq(Name) /\ r \in Int
      /\ Heights(h, q) /\ h[1] = Len(s) /\ h[Len(q) + 1] = f
      /\ Within(h, q) /\ Tainted(h, q, s, r)
  BY DEF Planned
<1>2. /\ t \in Seq(Frame) /\ m \in Nat /\ Len(q) \in Nat /\ Len(q) >= 1
      /\ Len(t) = m + Len(q) - 1
  BY <1>1, ReplacedFacts
<1>3. \A i \in 1 .. m : t[i] = p[i]
  BY <1>1, ReplacedFacts
<1>4. \A i \in m + 1 .. m + Len(q) - 1 : \A a \in Int : a = i - m + 1 => t[i] = q[a]
  BY <1>1, ReplacedFacts
<1> HIDE DEF t, m
<1>5. /\ h[2] = Len(s) + Delta(q[1]) /\ h[2] = g[m + 1]
      /\ q[1].do = "call" => h[2] = Len(s) + 1
  <2>1. 1 \in 1 .. Len(q) /\ 1 + 1 = 2
    BY <1>2
  <2>2. h[1 + 1] = h[1] + Delta(q[1])
    BY <1>1, <2>1 DEF Heights
  <2>3. q[1].do = "call" => Delta(q[1]) = 1
    BY DEF Delta
  <2> QED
    BY <1>1, <2>1, <2>2, <2>3 DEF m
<1>6. /\ g \in [1 .. m + 1 -> Nat] /\ h \in [1 .. Len(q) + 1 -> Nat]
  BY <1>1 DEF Heights, m
<1>7. /\ \A i \in 1 .. m + 1 : d[i] = g[i]
      /\ \A i \in m + 1 .. m + Len(q) : \A a \in Int : a = i - m + 1 => d[i] = h[a]
      /\ d \in [1 .. m + Len(q) -> Nat]
  <2>1. \A i \in 1 .. m : d[i] = g[i]
    BY <1>2
  <2>2. \A i \in m + 1 .. m + Len(q) : \A a \in Int : a = i - m + 1 => d[i] = h[a]
    BY <1>2
  <2>3. d[m + 1] = g[m + 1]
    <3>1. m + 1 \in m + 1 .. m + Len(q) /\ 2 \in Int /\ 2 = m + 1 - m + 1
      BY <1>2, SMTT(30)
    <3>2. d[m + 1] = h[2]
      BY ONLY <1>2, <2>2, <3>1
    <3> QED
      BY <1>5, <3>2
  <2>4. \A i \in 1 .. m + Len(q) : d[i] \in Nat
    <3>1. ASSUME NEW i \in 1 .. m + Len(q) PROVE d[i] \in Nat
      <4>1. CASE i <= m
        <5>1. i \in 1 .. m /\ i \in 1 .. m + 1
          BY <1>2, <4>1
        <5> QED
          BY <1>6, <2>1, <5>1
      <4>2. CASE ~(i <= m)
        <5>1. /\ i \in m + 1 .. m + Len(q) /\ i - m + 1 \in 1 .. Len(q) + 1
              /\ i - m + 1 \in Int
          BY <1>2, <4>2
        <5>2. d[i] = h[i - m + 1]
          BY ONLY <2>2, <5>1
        <5> QED
          BY <1>6, <5>1, <5>2
      <4> QED
        BY <4>1, <4>2
    <3> QED
      BY <3>1
  <2>5. \A i \in 1 .. m + 1 : i \in 1 .. m \/ i = m + 1
    BY <1>2
  <2> QED
    BY <2>1, <2>2, <2>3, <2>4, <2>5
<1> HIDE DEF d
<1>8. ASSUME NEW i \in 1 .. Len(t)
      PROVE  \/ /\ i \in 1 .. m /\ t[i] = p[i] /\ d[i] = g[i] /\ d[i + 1] = g[i + 1]
                /\ Base(d, t, i) = Base(g, p, i)
             \/ /\ i - m + 1 \in 2 .. Len(q) /\ t[i] = q[i - m + 1]
                /\ d[i] = h[i - m + 1] /\ d[i + 1] = h[i - m + 1 + 1]
                /\ Base(d, t, i) = Base(h, q, i - m + 1) /\ ~(i <= m)
  <2>1. CASE i <= m
    <3>1. i \in 1 .. m /\ i \in 1 .. m + 1 /\ i + 1 \in 1 .. m + 1
      BY <1>2, <2>1
    <3>2. t[i] = p[i] /\ d[i] = g[i] /\ d[i + 1] = g[i + 1]
      BY <1>3, <1>7, <3>1
    <3> QED
      BY <3>1, <3>2 DEF Base
  <2>2. CASE ~(i <= m)
    <3>1. /\ i \in m + 1 .. m + Len(q) - 1 /\ i \in m + 1 .. m + Len(q)
          /\ i + 1 \in m + 1 .. m + Len(q)
          /\ i - m + 1 \in 2 .. Len(q) /\ i - m + 1 + 1 = i + 1 - m + 1
          /\ i - m + 1 \in Int /\ i - m + 1 + 1 \in Int
      <4>1. i \in 1 .. m + Len(q) - 1
        BY <1>2
      <4> QED
        BY ONLY <1>2, <2>2, <4>1
    <3>2. t[i] = q[i - m + 1]
      BY ONLY <1>2, <1>4, <3>1
    <3>3. d[i] = h[i - m + 1]
      BY ONLY <1>2, <1>7, <3>1
    <3>4. d[i + 1] = h[i - m + 1 + 1]
      BY ONLY <1>2, <1>7, <3>1
    <3> QED
      BY <2>2, <3>1, <3>2, <3>3, <3>4 DEF Base
  <2> QED
    BY <2>1, <2>2
<1>9. \A i \in 2 .. Len(q) : i \in 1 .. Len(q)
  BY <1>2
<1>10. Heights(d, t) /\ d[1] = Len(s) /\ d[Len(t) + 1] = f
  <2>1. d \in [1 .. Len(t) + 1 -> Nat]
    BY <1>2, <1>7
  <2>2. ASSUME NEW i \in 1 .. Len(t)
        PROVE  /\ d[i + 1] = d[i] + Delta(t[i])
               /\ t[i].do = "emit" => Len(t[i].e.args) <= d[i]
    <3>1. CASE i \in 1 .. m /\ t[i] = p[i] /\ d[i] = g[i] /\ d[i + 1] = g[i + 1]
      BY <1>1, <3>1 DEF Heights, m
    <3>2. CASE /\ i - m + 1 \in 2 .. Len(q) /\ t[i] = q[i - m + 1]
               /\ d[i] = h[i - m + 1] /\ d[i + 1] = h[i - m + 1 + 1]
      BY <1>1, <1>9, <3>2 DEF Heights
    <3> QED
      BY <1>8, <3>1, <3>2
  <2>3. d[1] = Len(s)
    <3>1. 1 \in 1 .. m + 1
      BY <1>2
    <3> QED
      BY <1>7, <3>1
  <2>4. d[Len(t) + 1] = f
    <3>1. /\ m + Len(q) \in m + 1 .. m + Len(q) /\ Len(q) + 1 \in Int
          /\ Len(q) + 1 = m + Len(q) - m + 1 /\ Len(t) + 1 = m + Len(q)
      BY <1>2
    <3>2. d[m + Len(q)] = h[Len(q) + 1]
      BY ONLY <1>2, <1>7, <3>1
    <3> QED
      BY <1>1, <3>1, <3>2
  <2> QED
    BY <2>1, <2>2, <2>3, <2>4 DEF Heights
\* The last of p, if it is an emit.
<1>11. ASSUME NEW i \in 1 .. m, p[i].do = "emit"
       PROVE  /\ i = m /\ q[1].do = "call" /\ (IsConcat(p[i]) => p[i].key = n)
              /\ Base(g, p, i) = Len(s) /\ g[i + 1] = Len(s) + 1
  <2>1. i = m /\ q[1].do = "call" /\ (IsConcat(p[i]) => p[i].key = n)
    BY <1>11 DEF m
  <2>2. g[i + 1] = Len(s) + 1
    BY <1>5, <2>1
  <2>3. g[i + 1] = g[i] + Delta(p[i]) /\ i \in 1 .. m + 1
    BY <1>2 DEF Heights, m
  <2>4. p[i].e \in Exprs
    <3>1. p[i] \in Frame
      BY <1>2 DEF m
    <3> QED
      BY <3>1 DEF Frame
  <2>5. Len(p[i].e.args) \in Nat /\ g[i] \in Nat /\ Len(s) \in Nat
    BY <1>1, <1>6, <2>3, <2>4, ExprFacts, SMTT(30)
  <2>6. Delta(p[i]) = 1 - Len(p[i].e.args)
    BY <1>11 DEF Delta
  <2>7. g[i] - Len(p[i].e.args) = Len(s)
    <3>1. Len(s) + 1 = g[i] + (1 - Len(p[i].e.args))
      BY ONLY <2>2, <2>3, <2>6
    <3>2. \A a, b, c \in Int : a + 1 = b + (1 - c) => b - c = a
      OBVIOUS
    <3>3. Len(p[i].e.args) \in Int /\ g[i] \in Int /\ Len(s) \in Int
      BY <2>5
    <3> QED
      BY ONLY <3>1, <3>2, <3>3
  <2> QED
    BY <2>1, <2>2, <2>7 DEF Base
<1>12. ASSUME NEW i \in 2 .. Len(q), IsConcat(q[i])
       PROVE  Base(h, q, i) <= Len(s) /\ Base(h, q, i) \in Int
  <2>1. 1 \in 1 .. Len(q) /\ i \in 1 .. Len(q) /\ 1 < i /\ i \in 1 .. Len(q) + 1
    BY <1>2
  <2>2. Base(h, q, i) <= h[1]
    BY <1>1, <1>12, <2>1 DEF Within
  <2>3. q[i].e \in Exprs
    <3>1. q[i] \in Frame
      BY <1>1, <2>1
    <3> QED
      BY <3>1 DEF Frame
  <2>4. Len(q[i].e.args) \in Nat /\ h[i] \in Nat
    BY <1>6, <2>1, <2>3, ExprFacts, SMTT(30)
  <2> QED
    BY <1>1, <2>2, <2>4, SMTT(30) DEF Base
<1>13. Within(d, t)
  <2> SUFFICES ASSUME NEW i \in 1 .. Len(t), NEW j \in 1 .. Len(t), j < i, IsConcat(t[i])
               PROVE  /\ Base(d, t, i) <= d[j]
                      /\ t[j].do = "emit" => Base(d, t, i) < d[j + 1]
    BY DEF Within
  <2>1. CASE i <= m
    <3>1. j <= m /\ i \in 1 .. m /\ j \in 1 .. m
      BY <1>2, <2>1
    <3>2. t[i] = p[i] /\ t[j] = p[j] /\ d[j] = g[j] /\ Base(d, t, i) = Base(g, p, i)
      BY <1>8, <2>1, <3>1
    <3>3. i = m /\ Base(g, p, i) = Len(s)
      BY <1>11, <3>1, <3>2 DEF IsConcat
    <3>4. Len(s) <= g[j] /\ (p[j].do = "emit" => j = m)
      BY <3>1 DEF m
    <3> QED
      BY <1>2, <3>2, <3>3, <3>4
  <2>2. CASE ~(i <= m)
    <3> DEFINE a == i - m + 1
    <3>1. a \in 2 .. Len(q) /\ t[i] = q[a] /\ Base(d, t, i) = Base(h, q, a)
      BY <1>8, <2>2, <1>2
    <3>2. Base(h, q, a) <= Len(s) /\ Base(h, q, a) \in Int /\ Len(s) \in Nat
      BY <1>1, <1>12, <3>1
    <3>3. CASE j <= m
      <4>1. j \in 1 .. m /\ t[j] = p[j] /\ d[j] = g[j] /\ d[j + 1] = g[j + 1]
        BY <1>2, <1>8, <3>3
      <4>2. Len(s) <= g[j] /\ g[j] \in Nat
        <5>1. j \in 1 .. m + 1
          BY <1>2, <4>1
        <5> QED
          BY <1>6, <4>1, <5>1 DEF m
      <4>3. p[j].do = "emit" => g[j + 1] = Len(s) + 1
        BY <1>11, <4>1
      <4> QED
        BY <3>1, <3>2, <4>1, <4>2, <4>3
    <3>4. CASE ~(j <= m)
      <4> DEFINE b == j - m + 1
      <4>1. b \in 2 .. Len(q) /\ t[j] = q[b] /\ d[j] = h[b] /\ d[j + 1] = h[b + 1]
        BY <1>2, <1>8, <3>4
      <4>2. b < a /\ a \in 1 .. Len(q) /\ b \in 1 .. Len(q)
        <5>1. m \in Int /\ i \in Int /\ j \in Int
          BY <1>2
        <5>2. j - m + 1 < i - m + 1
          BY ONLY <5>1, j < i
        <5>3. b < a
          BY ONLY <5>2 DEF a, b
        <5> HIDE DEF a, b
        <5> QED
          BY <1>9, <3>1, <4>1, <5>3
      <4>3. Base(h, q, a) <= h[b] /\ (q[b].do = "emit" => Base(h, q, a) < h[b + 1])
        <5> HIDE DEF a, b
        <5> QED
          BY <1>1, <3>1, <4>2 DEF Within
      <4> QED
        BY <3>1, <4>1, <4>3
    <3> QED
      BY <3>3, <3>4
  <2> QED
    BY <2>1, <2>2
<1>14. Tainted(d, t, s, n)
  <2> SUFFICES ASSUME NEW i \in 1 .. Len(t), IsConcat(t[i]), t[i].key < n
               PROVE  \/ \E j \in 1 .. Len(s) : Base(d, t, i) < j /\ s[j][1] = "res"
                      \/ \E j \in 1 .. i - 1 : t[j].do = "emit"
    BY DEF Tainted
  <2>1. CASE i <= m
    <3>1. i \in 1 .. m /\ t[i] = p[i]
      BY <1>2, <1>3, <2>1
    <3>2. p[i].key = n
      BY <1>11, <3>1 DEF IsConcat
    <3> QED
      BY <3>1, <3>2
  <2>2. CASE ~(i <= m)
    <3> DEFINE a == i - m + 1
    <3>1. a \in 2 .. Len(q) /\ t[i] = q[a] /\ Base(d, t, i) = Base(h, q, a)
      BY <1>8, <2>2, <1>2
    <3>2. CASE n # r
      <4>1. PICK j \in 1 .. m : p[j].do = "emit"
        BY <3>2 DEF m
      <4>2. j \in 1 .. i - 1 /\ t[j].do = "emit"
        BY <1>2, <1>3, <2>2, <4>1
      <4> QED
        BY <4>2
    <3>3. CASE n = r
      <4>1. \/ \E j \in 1 .. Len(s) : Base(h, q, a) < j /\ s[j][1] = "res"
            \/ \E j \in 1 .. a - 1 : q[j].do = "emit"
        <5> HIDE DEF a
        <5> QED
          BY <1>1, <1>9, <3>1, <3>3 DEF Tainted
      <4>2. CASE \E j \in 1 .. a - 1 : q[j].do = "emit"
        <5>1. PICK b \in 1 .. a - 1 : q[b].do = "emit"
          BY <4>2
        <5>2. b # 1 /\ b \in 2 .. Len(q)
          BY <1>2, <3>1, <5>1
        <5>3. /\ m + b - 1 \in 1 .. i - 1 /\ m + b - 1 \in m + 1 .. m + Len(q) - 1
              /\ m + b - 1 - m + 1 = b
          BY <1>2, <5>1, <5>2
        <5>4. t[m + b - 1] = q[b]
          <6>1. b \in Int
            BY <5>2
          <6> QED
            BY ONLY <1>2, <1>4, <5>3, <6>1
        <5> QED
          BY <5>1, <5>3, <5>4
      <4> QED
        BY <3>1, <4>1, <4>2
    <3> QED
      BY <3>2, <3>3
  <2> QED
    BY <2>1, <2>2
<1> QED
  BY <1>1, <1>2, <1>10, <1>13, <1>14 DEF Planned, t
-----------------------------------------------------------------------------
\* What is under a cast is what is under its operand.
LEMMA UnderCastsOf ==
  ASSUME NEW e \in Exprs
  PROVE  UnderCasts[e] = IF e.op \in {"cast", "bool"} THEN UnderCasts[e.args[1]] ELSE e
<1> DEFINE height == [x \in Exprs |-> Height[x]]
           step == [p \in [Exprs -> Exprs] \X Exprs |->
                      IF p[2].op \in {"cast", "bool"} THEN p[1][p[2].args[1]] ELSE p[2]]
           Under(f) == [x \in Exprs |->
                          IF x.op \in {"cast", "bool"} THEN f[x.args[1]] ELSE x]
<1>1. height \in [Exprs -> Nat]
  BY ExprFacts
<1>2. ASSUME NEW x \in Exprs, x.op \in {"cast", "bool"}
      PROVE  x.args[1] \in Exprs /\ height[x.args[1]] < height[x]
  <2>1. Arity(x.op) = 1
    BY <1>2 DEF Arity
  <2>2. x.args[1] \in Exprs /\ 1 \in DOMAIN x.args
    BY <2>1, ExprFacts
  <2> QED
    BY <2>2, ExprFacts
<1>4. ASSUME NEW f \in [Exprs -> Exprs], NEW x \in Exprs
      PROVE  step[<<f, x>>] = Under(f)[x]
  OBVIOUS
<1>5. DependsBelow(Exprs, Exprs, height, step)
  <2>1. step \in [[Exprs -> Exprs] \X Exprs -> Exprs]
    <3>1. \A p \in [Exprs -> Exprs] \X Exprs : step[p] \in Exprs
      BY <1>2
    <3> QED
      BY <3>1
  <2>2. ASSUME NEW f \in [Exprs -> Exprs], NEW g \in [Exprs -> Exprs], NEW x \in Exprs,
               \A y \in Exprs : height[y] < height[x] => f[y] = g[y]
        PROVE  step[<<f, x>>] = step[<<g, x>>]
    <3>1. step[<<f, x>>] = Under(f)[x] /\ step[<<g, x>>] = Under(g)[x]
      BY <1>4
    <3>2. Under(f)[x] = Under(g)[x]
      BY <1>2, <2>2
    <3> QED
      BY <3>1, <3>2
  <2>3. Exprs # {}
    OBVIOUS
  <2> HIDE DEF height, step
  <2> QED
    BY <1>1, <2>1, <2>2, <2>3 DEF DependsBelow
<1>6. \E f : f = Under(f)
  <2>1. \E f : Recursive(Exprs, Exprs, step, f)
    <3> HIDE DEF height, step
    <3> QED
      BY <1>5, RecursionDefines
  <2>2. PICK f : Recursive(Exprs, Exprs, step, f)
    BY <2>1
  <2>3. f \in [Exprs -> Exprs] /\ \A x \in Exprs : f[x] = step[<<f, x>>]
    BY <2>2 DEF Recursive
  <2>4. \A x \in Exprs : f[x] = Under(f)[x]
    BY <1>4, <2>3
  <2>5. f = Under(f)
    BY <2>3, <2>4
  <2> QED
    BY <2>5
<1>7. UnderCasts = CHOOSE f : f = Under(f)
  BY DEF UnderCasts
<1>8. UnderCasts = Under(UnderCasts)
  <2> HIDE DEF Under
  <2> QED
    BY <1>6, <1>7
<1> QED
  BY <1>8
-----------------------------------------------------------------------------
\* No frame in the place of the first.
LEMMA EmptyJoin ==
  ASSUME NEW S, NEW q \in Seq(S), q # <<>>
  PROVE  <<>> \o Tail(q) = Tail(q) /\ <<>> \in Seq(S) /\ Len(<<>>) = 0
OBVIOUS

\* What printExpr leaves to do are frames.
LEMMA FrameFacts ==
  ASSUME NEW e \in Exprs, NEW key \in Nat
  PROVE  Call(e) \in Frame /\ Emit(e, key) \in Frame /\ EndCondition(e) \in Frame
BY DEF Call, Emit, EndCondition, Frame

\* The calls of the operands.
LEMMA CallsFacts ==
  ASSUME NEW e \in Exprs
  PROVE  /\ Calls(e.args) \in Seq(Frame) /\ Len(Calls(e.args)) = Len(e.args)
         /\ Len(e.args) \in Nat
         /\ \A i \in 1 .. Len(e.args) : Calls(e.args)[i] = Call(e.args[i]) /\ e.args[i] \in Exprs
<1>1. e.args \in Seq(Exprs)
  BY ExprFacts
<1>2. \A i \in 1 .. Len(e.args) : Call(e.args[i]) \in Frame
  BY <1>1, FrameFacts
<1> QED
  BY <1>1, <1>2 DEF Calls

\* The frame of a call alone leaves one name.
LEMMA PlanStart ==
  ASSUME NEW e \in Exprs, NEW r \in Int
  PROVE  \E h : Planned(h, <<Call(e)>>, <<>>, r, 1)
<1> DEFINE h == [i \in 1 .. 2 |-> i - 1]
           q == <<Call(e)>>
<1>1. q \in Seq(Frame) /\ Len(q) = 1 /\ q[1] = Call(e)
  BY FrameFacts
<1>2. Call(e).do = "call"
  BY DEF Call
<1>3. Heights(h, q)
  <2>1. h \in [1 .. Len(q) + 1 -> Nat]
    BY <1>1
  <2>2. \A i \in 1 .. Len(q) : i = 1
    BY <1>1
  <2>3. h[1 + 1] = h[1] + Delta(q[1])
    BY <1>1, <1>2 DEF Delta
  <2> QED
    BY <1>1, <1>2, <2>1, <2>2, <2>3 DEF Heights
<1>4. Within(h, q) /\ Tainted(h, q, <<>>, r)
  <2>1. \A i \in 1 .. Len(q) : ~IsConcat(q[i])
    BY <1>1, <1>2 DEF IsConcat
  <2> QED
    BY <2>1 DEF Within, Tainted
<1>5. h[1] = Len(<<>>) /\ h[Len(q) + 1] = 1 /\ <<>> \in Seq(Name)
  BY <1>1
<1> QED
  BY <1>1, <1>3, <1>4, <1>5 DEF Planned

\* What an operator leaves to do: its operands, then its statement.
OperandFrames(e, key) == Calls(e.args) \o <<Emit(e, key)>>

\* These are the calls of the operands and one emit.
LEMMA OperandFramesFacts ==
  ASSUME NEW e \in Exprs, NEW key \in Nat
  PROVE  /\ OperandFrames(e, key) \in Seq(Frame) /\ Len(e.args) \in Nat
         /\ Len(OperandFrames(e, key)) = Len(e.args) + 1
         /\ OperandFrames(e, key)[Len(e.args) + 1] = Emit(e, key)
         /\ \A i \in 1 .. Len(e.args) : OperandFrames(e, key)[i] = Call(e.args[i])
<1> DEFINE p == Calls(e.args) \o <<Emit(e, key)>>
           k == Len(e.args)
<1>2. /\ Calls(e.args) \in Seq(Frame) /\ Len(Calls(e.args)) = k /\ k \in Nat
      /\ \A i \in 1 .. k : Calls(e.args)[i] = Call(e.args[i])
  BY CallsFacts
<1>3. /\ p \in Seq(Frame) /\ Len(p) = k + 1 /\ p[k + 1] = Emit(e, key)
      /\ \A i \in 1 .. k : p[i] = Call(e.args[i])
  <2>1. Emit(e, key) \in Frame
    BY FrameFacts
  <2>2. Calls(e.args) \in Seq(Frame)
    BY <1>2
  <2> HIDE DEF k
  <2>3. \A c \in Seq(Frame), x \in Frame : Len(c) = k =>
           /\ c \o <<x>> \in Seq(Frame) /\ Len(c \o <<x>>) = k + 1 /\ (c \o <<x>>)[k + 1] = x
           /\ \A i \in 1 .. k : (c \o <<x>>)[i] = c[i]
    BY <1>2
  <2> QED
    BY <1>2, <2>1, <2>3
<1> QED
  BY <1>2, <1>3 DEF OperandFrames

\* The operands of a call, and its emit.
LEMMA PlanOperands ==
  ASSUME NEW h, NEW q, NEW s, NEW r, NEW f, Planned(h, q, s, r, f), q # <<>>,
         q[1].do = "call", NEW e \in Exprs, e = q[1].e, NEW key \in Nat,
         NEW n \in Int, r <= n, e.op = "concat" => key = n
  PROVE  \E d : Planned(d, OperandFrames(e, key) \o Tail(q), s, n, f)
<1> DEFINE p == OperandFrames(e, key)
           k == Len(e.args)
           L == Len(s)
           g == [i \in 1 .. k + 2 |-> IF i <= k + 1 THEN L + i - 1 ELSE L + 1]
<1>2. k \in Nat
  BY OperandFramesFacts
<1>3. /\ p \in Seq(Frame) /\ Len(p) = k + 1 /\ p[k + 1] = Emit(e, key)
      /\ \A i \in 1 .. k : p[i] = Call(e.args[i])
  BY OperandFramesFacts
<1>4. s \in Seq(Name) /\ L \in Nat
  BY DEF Planned
<1> HIDE DEF p, k, L
<1>5. /\ \A x : Call(x).do = "call" /\ Emit(e, key).do = "emit" /\ Emit(e, key).e = e
      /\ Emit(e, key).key = key
  BY DEF Call, Emit
<1>6. /\ g \in [1 .. Len(p) + 1 -> Nat] /\ g[1] = L /\ g[Len(p) + 1] = L + 1
      /\ \A i \in 1 .. k + 1 : g[i] = L + i - 1 /\ g[i] >= L
  BY <1>2, <1>3, <1>4
<1> HIDE DEF g
<1>7. \A i \in 1 .. k + 1 : i \in 1 .. k \/ i = k + 1
  BY <1>2
<1>8. Heights(g, p)
  <2>1. ASSUME NEW i \in 1 .. k
        PROVE  g[i + 1] = g[i] + Delta(p[i]) /\ p[i].do # "emit"
    <3>1. i \in 1 .. k + 1 /\ i + 1 \in 1 .. k + 1
      BY <1>2
    <3>2. Delta(p[i]) = 1 /\ p[i].do # "emit"
      BY <1>3, <1>5 DEF Delta
    <3>3. g[i] = L + i - 1 /\ g[i + 1] = L + (i + 1) - 1
      BY <1>6, <3>1
    <3> QED
      BY <1>2, <1>4, <3>2, <3>3
  <2>2. g[k + 1 + 1] = g[k + 1] + Delta(p[k + 1]) /\ Len(p[k + 1].e.args) <= g[k + 1]
    <3>1. Delta(p[k + 1]) = 1 - k /\ Len(p[k + 1].e.args) = k
      BY <1>3, <1>5 DEF Delta, k
    <3>2. k + 1 \in 1 .. k + 1
      BY <1>2
    <3>3. g[k + 1] = L + (k + 1) - 1 /\ g[k + 1 + 1] = L + 1
      BY <1>3, <1>6, <3>2
    <3> QED
      BY <1>2, <1>4, <3>1, <3>3
  <2> QED
    BY <1>3, <1>6, <1>7, <2>1, <2>2 DEF Heights
<1>9. \A j \in 1 .. Len(p) :
        /\ L <= g[j]
        /\ p[j].do = "emit" => /\ j = Len(p) /\ q[1].do = "call"
                               /\ IsConcat(p[j]) => p[j].key = n
  BY <1>3, <1>5, <1>6, <1>7 DEF IsConcat
<1>10. n # r => \E j \in 1 .. Len(p) : p[j].do = "emit"
  <2>1. k + 1 \in 1 .. Len(p)
    BY <1>2, <1>3
  <2> QED
    BY <1>3, <1>5, <2>1
<1>11. L + Delta(q[1]) = L + 1
  BY DEF Delta
<1>12. \E d : Planned(d, p \o Tail(q), s, n, f)
  BY <1>3, <1>6, <1>8, <1>9, <1>10, <1>11, PlanReplace DEF L
<1> QED
  BY <1>12 DEF p

\* The operand of a cast in its place.
LEMMA PlanCast ==
  ASSUME NEW h, NEW q, NEW s, NEW r, NEW f, Planned(h, q, s, r, f), q # <<>>,
         q[1].do = "call", NEW e, e = q[1].e, Len(e.args) = 1
  PROVE  /\ e \in Exprs /\ Calls(e.args) \in Seq(Frame) /\ Len(Calls(e.args)) = 1
         /\ Calls(e.args)[1] = Call(e.args[1])
         /\ \E d : Planned(d, Calls(e.args) \o Tail(q), s, r, f)
<1> DEFINE p == Calls(e.args)
           L == Len(s)
           g == [i \in 1 .. 2 |-> L + i - 1]
<1>1. e \in Exprs
  <2>1. q[1] \in Frame
    BY TailFacts DEF Planned
  <2> QED
    BY <2>1 DEF Frame
<1>2. p \in Seq(Frame) /\ Len(p) = 1 /\ p[1] = Call(e.args[1])
  BY <1>1, CallsFacts
<1>3. s \in Seq(Name) /\ L \in Nat /\ r \in Int
  BY DEF Planned
<1>4. p[1].do = "call"
  BY <1>2 DEF Call
<1> HIDE DEF p, L
<1>5. g \in [1 .. Len(p) + 1 -> Nat] /\ g[1] = L /\ g[Len(p) + 1] = L + 1
  BY <1>2, <1>3
<1>6. \A i \in 1 .. Len(p) : i = 1
  BY <1>2
<1>7. Heights(g, p)
  <2>1. g[1 + 1] = g[1] + Delta(p[1])
    BY <1>2, <1>4, <1>5 DEF Delta
  <2> QED
    BY <1>4, <1>5, <1>6, <2>1 DEF Heights
<1>8. L + Delta(q[1]) = L + 1
  BY DEF Delta
<1>9. \A j \in 1 .. Len(p) :
        /\ L <= g[j]
        /\ p[j].do = "emit" => /\ j = Len(p) /\ q[1].do = "call"
                               /\ IsConcat(p[j]) => p[j].key = r
  BY <1>3, <1>4, <1>5, <1>6
<1> HIDE DEF g
<1>10. r <= r
  BY <1>3
<1>11. \E d : Planned(d, p \o Tail(q), s, r, f)
  BY <1>2, <1>3, <1>5, <1>7, <1>8, <1>9, <1>10, PlanReplace DEF L
<1> QED
  BY <1>1, <1>2, <1>11 DEF p

\* The end of a condition leaves the names as they are.
LEMMA PlanEnd ==
  ASSUME NEW h, NEW q, NEW s, NEW r, NEW f, Planned(h, q, s, r, f), q # <<>>,
         q[1].do = "end"
  PROVE  \E d : Planned(d, Tail(q), s, r, f)
<1> DEFINE p == <<>>
           L == Len(s)
           g == [i \in 1 .. 1 |-> L]
<1>1. p \in Seq(Frame) /\ Len(p) = 0
  OBVIOUS
<1>2. s \in Seq(Name) /\ L \in Nat /\ r \in Int /\ q \in Seq(Frame)
  BY DEF Planned
<1>3. p \o Tail(q) = Tail(q)
  BY <1>2, EmptyJoin
<1> HIDE DEF p, L
<1>4. g \in [1 .. Len(p) + 1 -> Nat] /\ g[1] = L /\ g[Len(p) + 1] = L
  BY <1>1, <1>2
<1>5. \A i \in 1 .. Len(p) : FALSE
  BY <1>1
<1> HIDE DEF g
<1>6. Heights(g, p)
  BY <1>4, <1>5 DEF Heights
<1>7. L + Delta(q[1]) = L
  BY <1>2 DEF Delta
<1>8. r <= r
  BY <1>2
<1>9. \E d : Planned(d, p \o Tail(q), s, r, f)
  BY <1>1, <1>2, <1>4, <1>5, <1>6, <1>7, <1>8, PlanReplace DEF L
<1> QED
  BY <1>3, <1>9

\* What a query leaves to do: its condition, the end of it, the two others, the statement.
QueryFrames(e) == <<Call(e.args[1]), EndCondition(e), Call(e.args[2]), Call(e.args[3]),
                    Emit(e, 0)>>

\* The operands of a query, with the end of its condition.
LEMMA PlanQuery ==
  ASSUME NEW h, NEW q, NEW s, NEW r, NEW f, Planned(h, q, s, r, f), q # <<>>,
         q[1].do = "call", NEW e, e = q[1].e, e.op = "query"
  PROVE  /\ e \in Exprs /\ QueryFrames(e) \in Seq(Frame) /\ Len(QueryFrames(e)) = 5
         /\ QueryFrames(e)[5] = Emit(e, 0)
         /\ \A i \in 1 .. 5 : ~IsConcat(QueryFrames(e)[i])
         /\ \E d : Planned(d, QueryFrames(e) \o Tail(q), s, r, f)
<1> DEFINE p == QueryFrames(e)
           L == Len(s)
           g == [i \in 1 .. 6 |-> IF i = 1 THEN L ELSE IF i = 2 \/ i = 3 \/ i = 6 THEN L + 1
                                  ELSE IF i = 4 THEN L + 2 ELSE L + 3]
<1>1. e \in Exprs
  <2>1. q[1] \in Frame
    BY TailFacts DEF Planned
  <2> QED
    BY <2>1 DEF Frame
<1>2. Len(e.args) = 3 /\ \A i \in 1 .. 3 : e.args[i] \in Exprs
  <2>1. Arity(e.op) = 3
    BY DEF Arity
  <2>2. e.args \in Seq(Exprs) /\ Len(e.args) = Arity(e.op)
    BY <1>1, ExprFacts
  <2> QED
    BY ONLY <2>1, <2>2
<1>3. /\ p \in Seq(Frame) /\ Len(p) = 5
      /\ p[1] = Call(e.args[1]) /\ p[2] = EndCondition(e) /\ p[3] = Call(e.args[2])
      /\ p[4] = Call(e.args[3]) /\ p[5] = Emit(e, 0)
  <2>1. /\ Call(e.args[1]) \in Frame /\ EndCondition(e) \in Frame /\ Call(e.args[2]) \in Frame
        /\ Call(e.args[3]) \in Frame /\ Emit(e, 0) \in Frame
    BY <1>1, <1>2, FrameFacts
  <2> QED
    BY <2>1 DEF QueryFrames
<1>4. s \in Seq(Name) /\ L \in Nat /\ r \in Int
  BY DEF Planned
<1> HIDE DEF p, L
<1>5. /\ p[1].do = "call" /\ p[2].do = "end" /\ p[3].do = "call" /\ p[4].do = "call"
      /\ p[5].do = "emit" /\ p[5].e = e
  BY <1>3 DEF Call, EndCondition, Emit
<1>6. /\ g \in [1 .. Len(p) + 1 -> Nat] /\ g[1] = L /\ g[2] = L + 1 /\ g[3] = L + 1
      /\ g[4] = L + 2 /\ g[5] = L + 3 /\ g[6] = L + 1 /\ g[Len(p) + 1] = L + 1
  BY <1>3, <1>4
<1> HIDE DEF g
<1>7. \A i \in 1 .. Len(p) : i = 1 \/ i = 2 \/ i = 3 \/ i = 4 \/ i = 5
  BY <1>3
<1>8. Heights(g, p)
  <2>1. /\ Delta(p[1]) = 1 /\ Delta(p[2]) = 0 /\ Delta(p[3]) = 1 /\ Delta(p[4]) = 1
        /\ Delta(p[5]) = 1 - 3
    BY <1>2, <1>5 DEF Delta
  <2>2. /\ g[1 + 1] = g[1] + Delta(p[1]) /\ g[2 + 1] = g[2] + Delta(p[2])
        /\ g[3 + 1] = g[3] + Delta(p[3]) /\ g[4 + 1] = g[4] + Delta(p[4])
        /\ g[5 + 1] = g[5] + Delta(p[5]) /\ 3 <= g[5]
    BY ONLY <1>4, <1>6, <2>1
  <2> QED
    BY <1>2, <1>5, <1>6, <1>7, <2>2 DEF Heights
<1>9. \A i \in 1 .. 5 : ~IsConcat(p[i])
  BY <1>3, <1>5, <1>7 DEF IsConcat
<1>10. \A j \in 1 .. Len(p) :
        /\ L <= g[j]
        /\ p[j].do = "emit" => /\ j = Len(p) /\ q[1].do = "call"
                               /\ IsConcat(p[j]) => p[j].key = r
  <2>1. ASSUME NEW j \in 1 .. Len(p) PROVE L <= g[j] /\ (p[j].do = "emit" => j = 5)
    BY <1>4, <1>5, <1>6, <1>7
  <2> QED
    BY <1>3, <1>9, <2>1
<1>11. L + Delta(q[1]) = L + 1
  BY DEF Delta
<1>12. r <= r
  BY <1>4
<1>13. \E d : Planned(d, p \o Tail(q), s, r, f)
  BY <1>3, <1>4, <1>6, <1>8, <1>10, <1>11, <1>12, PlanReplace DEF L
<1> QED
  BY <1>1, <1>3, <1>9, <1>13 DEF p
-----------------------------------------------------------------------------
\* A sequence without length is empty.
LEMMA EmptyLen ==
  ASSUME NEW S, NEW z \in Seq(S), Len(z) = 0
  PROVE  z = <<>>
OBVIOUS

\* What is left to do ends in an emit, or is the expression under the casts of
\* the root, or its name.
Linked(root, q, s) ==
  \/ q # <<>> /\ q[Len(q)].do = "emit"
  \/ Len(q) = 1 /\ q[1].do = "call" /\ s = <<>> /\ UnderCasts[q[1].e] = UnderCasts[root]
  \/ /\ q = <<>> /\ Len(s) = 1
     /\ \/ s[1][1] = "res"
        \/ s[1][1] = "x" /\ UnderCasts[root].op = "var"
        \/ s[1][1] = "int" /\ UnderCasts[root].op = "int"

\* The plan of one root: a single name is left when it is lowered.
Walk(root, q, s, r) == (\E h : Planned(h, q, s, r, 1)) /\ Linked(root, q, s)

\* An emit finds its operands, and one name is left at the end.
LEMMA WalkFacts ==
  ASSUME NEW root, NEW q, NEW s, NEW r, Walk(root, q, s, r)
  PROVE  /\ q \in Seq(Frame) /\ s \in Seq(Name) /\ r \in Int
         /\ (q # <<>> /\ q[1].do = "emit") => Len(q[1].e.args) <= Len(s)
         /\ q = <<>> => Len(s) = 1
<1>1. PICK h : Planned(h, q, s, r, 1)
  BY DEF Walk
<1>2. /\ q \in Seq(Frame) /\ s \in Seq(Name) /\ r \in Int /\ Heights(h, q) /\ h[1] = Len(s)
      /\ h[Len(q) + 1] = 1
  BY <1>1 DEF Planned
<1>3. q # <<>> => 1 \in 1 .. Len(q)
  BY <1>2, TailFacts
<1>4. (q # <<>> /\ q[1].do = "emit") => Len(q[1].e.args) <= Len(s)
  BY <1>2, <1>3 DEF Heights
<1>5. q = <<>> => Len(s) = 1
  <2>1. Len(<<>>) + 1 = 1
    OBVIOUS
  <2> QED
    BY <1>2, <2>1
<1> QED
  BY <1>2, <1>4, <1>5

\* The first frame returns a name.
LEMMA WalkReturn ==
  ASSUME NEW root, NEW q, NEW s, NEW r, Walk(root, q, s, r), q # <<>>, q[1].do # "end",
         NEW k, k = (IF q[1].do = "emit" THEN Len(q[1].e.args) ELSE 0),
         NEW x \in Name, NEW t, t = Append(SubSeq(s, 1, Len(s) - k), x), NEW n \in Int,
         q[1].do = "emit" => x[1] = "res",
         q[1].do # "emit" => /\ n = r
                             /\ \/ x[1] = "x" /\ q[1].e.op = "var"
                                \/ x[1] = "int" /\ q[1].e.op = "int"
  PROVE  Walk(root, Tail(q), t, n)
<1>1. PICK h : Planned(h, q, s, r, 1)
  BY DEF Walk
<1>2. PICK g : Planned(g, Tail(q), t, n, 1)
  <2>1. IF q[1].do = "emit" THEN x[1] = "res" ELSE n = r
    OBVIOUS
  <2> QED
    BY <1>1, <2>1, PlanReturn
<1>3. /\ q \in Seq(Frame) /\ s \in Seq(Name) /\ Len(q) \in Nat /\ Len(q) >= 1
      /\ Len(Tail(q)) = Len(q) - 1 /\ \A i \in 1 .. Len(q) - 1 : Tail(q)[i] = q[i + 1]
  BY <1>1, TailFacts DEF Planned
<1>4. CASE Len(q) >= 2
  <2>1. q[Len(q)].do = "emit"
    BY <1>3, <1>4 DEF Walk, Linked
  <2>2. Len(q) - 1 \in 1 .. Len(q) - 1 /\ Len(q) - 1 + 1 = Len(q)
    BY <1>3, <1>4
  <2>3. Tail(q)[Len(Tail(q))] = q[Len(q)]
    BY <1>3, <2>2
  <2>4. Tail(q) # <<>>
    BY <1>3, <1>4
  <2> QED
    BY <1>2, <2>1, <2>3, <2>4 DEF Walk, Linked
<1>5. CASE Len(q) = 1
  <2>1. Tail(q) = <<>>
    <3>1. Tail(q) \in Seq(Frame) /\ Len(Tail(q)) = 0
      BY <1>3, <1>5, TailFacts
    <3> QED
      BY ONLY <3>1, EmptyLen
  <2>2. Len(t) = 1 /\ t \in Seq(Name)
    <3>1. /\ t \in Seq(Name) /\ g[1] = Len(t) /\ g[Len(Tail(q)) + 1] = 1
      BY ONLY <1>2 DEF Planned
    <3>2. Len(Tail(q)) + 1 = 1
      BY <1>3, <1>5
    <3> QED
      BY ONLY <3>1, <3>2
  <2>3. t[1] = x
    BY <1>3, <2>2
  <2>4. CASE q[1].do = "emit"
    BY <1>2, <2>1, <2>2, <2>3, <2>4 DEF Walk, Linked
  <2>5. CASE q[1].do # "emit"
    <3>1. UnderCasts[q[1].e] = UnderCasts[root]
      BY <1>5, <2>5 DEF Walk, Linked
    <3>2. q[1].e \in Exprs
      <4>1. q[1] \in Frame
        BY <1>3, TailFacts
      <4> QED
        BY <4>1 DEF Frame
    <3>3. UnderCasts[q[1].e] = q[1].e
      BY <2>5, <3>2, UnderCastsOf
    <3> QED
      BY <1>2, <2>1, <2>2, <2>3, <2>5, <3>1, <3>3 DEF Walk, Linked
  <2> QED
    BY <2>4, <2>5
<1> QED
  BY <1>3, <1>4, <1>5

\* Frames in the place of a call or an end.
LEMMA LinkedReplace ==
  ASSUME NEW root, NEW q \in Seq(Frame), q # <<>>, NEW s, Linked(root, q, s),
         NEW p \in Seq(Frame),
         q[1].do = "call" =>
           /\ p # <<>>
           /\ \/ p[Len(p)].do = "emit"
              \/ /\ Len(p) = 1 /\ p[1].do = "call"
                 /\ UnderCasts[p[1].e] = UnderCasts[q[1].e],
         q[1].do # "emit"
  PROVE  Linked(root, p \o Tail(q), s)
<1> DEFINE t == p \o Tail(q)
<1>1. /\ Len(q) \in Nat /\ Len(q) >= 1 /\ Len(Tail(q)) = Len(q) - 1 /\ Len(p) \in Nat
      /\ \A i \in 1 .. Len(q) - 1 : Tail(q)[i] = q[i + 1]
      /\ Len(t) = Len(p) + Len(q) - 1
      /\ \A i \in 1 .. Len(p) : t[i] = p[i]
  BY ReplacedFacts, TailFacts
<1>2. \A i \in Len(p) + 1 .. Len(p) + Len(q) - 1 : \A a \in Int : a = i - Len(p) + 1 => t[i] = q[a]
  BY ReplacedFacts
<1> HIDE DEF t
<1>3. CASE Len(q) >= 2
  <2>1. q[Len(q)].do = "emit"
    BY <1>1, <1>3 DEF Linked
  <2>2. /\ Len(t) \in Len(p) + 1 .. Len(p) + Len(q) - 1 /\ Len(q) \in Int
        /\ Len(q) = Len(t) - Len(p) + 1
    BY <1>1, <1>3
  <2>3. t[Len(t)] = q[Len(q)]
    BY ONLY <1>2, <2>2
  <2>4. t # <<>>
    BY <1>1, <1>3
  <2> QED
    BY <2>1, <2>3, <2>4 DEF Linked, t
<1>4. CASE Len(q) = 1
  <2>1. q[1].do = "call" /\ s = <<>> /\ UnderCasts[q[1].e] = UnderCasts[root]
    BY <1>4 DEF Linked
  <2>2. Len(t) = Len(p) /\ Len(p) >= 1 /\ t # <<>>
    BY <1>1, <1>4, <2>1
  <2>3. t[Len(t)] = p[Len(p)] /\ t[1] = p[1]
    BY <1>1, <2>2
  <2> QED
    BY <1>1, <2>1, <2>2, <2>3 DEF Linked, t
<1> QED
  BY <1>1, <1>3, <1>4

-----------------------------------------------------------------------------
(* The invariant, and the properties. *)

\* A sequence, of whatever elements.
IsSeq(x) == x \in Seq({x[i] : i \in DOMAIN x})

\* The statements of a function, the results they assign, and the names of the
\* concatenations that wait for their operands.
Statement == [to : Nat, op : Ops \cup {"port"}, args : Seq(Name)]
To(calc) == {calc[i].to : i \in 1 .. Len(calc)}
Keys(q) == {q[i].key : i \in {j \in 1 .. Len(q) : IsConcat(q[j])}}

DistinctKeys(q) ==
  \A i, j \in 1 .. Len(q) : (IsConcat(q[i]) /\ IsConcat(q[j]) /\ i # j) => q[i].key # q[j].key

\* Results 0 .. r are named: those of concatenations that wait, and those
\* assigned.
Ledger(calc, q, s, o, r) ==
  /\ calc \in Seq(Statement) /\ IsSeq(o) /\ r \in Int /\ r >= -1
  /\ Keys(q) \subseteq 0 .. r /\ DistinctKeys(q)
  /\ Len(calc) + Cardinality(Keys(q)) = r + 1
  /\ Straight(calc) => /\ Sequenced(calc, o)
                       /\ To(calc) = (0 .. r) \ Keys(q)
                       /\ \A i \in 1 .. Len(s) : s[i][1] = "res" => s[i][2] \in To(calc)

\* An element more.
LEMMA AppendFacts ==
  ASSUME NEW S, NEW q \in Seq(S), NEW x
  PROVE  /\ Append(q, x) \in Seq(S \cup {x})
         /\ Len(Append(q, x)) = Len(q) + 1
         /\ DOMAIN Append(q, x) = 1 .. Len(q) + 1
         /\ Append(q, x)[Len(q) + 1] = x
         /\ \A i \in 1 .. Len(q) : Append(q, x)[i] = q[i]
         /\ DOMAIN q = 1 .. Len(q) /\ Len(q) \in Nat
<1>1. q \in Seq(S \cup {x}) /\ x \in S \cup {x}
  OBVIOUS
<1> QED
  BY <1>1

\* A sequence of known elements is one.
LEMMA SeqIsSeq ==
  ASSUME NEW S, NEW q \in Seq(S)
  PROVE  IsSeq(q)
BY DEF IsSeq

\* An element more, of a sequence of whatever elements.
LEMMA AppendIsSeq ==
  ASSUME NEW q, IsSeq(q), NEW x
  PROVE  /\ IsSeq(Append(q, x)) /\ Len(q) \in Nat /\ DOMAIN q = 1 .. Len(q)
         /\ Len(Append(q, x)) = Len(q) + 1
         /\ DOMAIN Append(q, x) = 1 .. Len(q) + 1
         /\ Append(q, x)[Len(q) + 1] = x
         /\ \A i \in 1 .. Len(q) : Append(q, x)[i] = q[i]
<1>1. PICK S : q \in Seq(S)
  BY DEF IsSeq
<1>2. Append(q, x) \in Seq(S \cup {x})
  BY <1>1, AppendFacts
<1>3. IsSeq(Append(q, x))
  BY <1>2, SeqIsSeq
<1> QED
  BY <1>1, <1>3, AppendFacts

\* The definition, without its local one.
LEMMA SequencedIs ==
  ASSUME NEW calc, NEW sent
  PROVE  Sequenced(calc, sent) <=>
           /\ \A k \in DOMAIN calc :
                /\ calc[k].to \notin {calc[i].to : i \in 1 .. k - 1}
                /\ \A i \in DOMAIN calc[k].args :
                     calc[k].args[i][1] = "res" =>
                       calc[k].args[i][2] \in {calc[j].to : j \in 1 .. k - 1}
           /\ \A i \in DOMAIN sent : sent[i].res \in {calc[j].to : j \in 1 .. Len(calc) + 1 - 1}
BY DEF Sequenced

\* A statement more.
LEMMA StatementMore ==
  ASSUME NEW calc \in Seq(Statement), NEW st \in Statement, NEW o
  PROVE  /\ Append(calc, st) \in Seq(Statement) /\ Len(Append(calc, st)) = Len(calc) + 1
         /\ Len(calc) \in Nat
         /\ To(Append(calc, st)) = To(calc) \cup {st.to}
         /\ Straight(Append(calc, st)) =>
              /\ Straight(calc)
              /\ st.op = "concat" => \A i \in DOMAIN st.args : st.args[i][1] # "res"
         /\ (/\ Sequenced(calc, o) /\ st.to \notin To(calc)
             /\ \A i \in DOMAIN st.args : st.args[i][1] = "res" => st.args[i][2] \in To(calc)) =>
                Sequenced(Append(calc, st), o)
<1> DEFINE new == Append(calc, st)
           n == Len(calc)
<1>1. /\ new \in Seq(Statement) /\ Len(new) = n + 1 /\ n \in Nat /\ DOMAIN calc = 1 .. n
      /\ DOMAIN new = 1 .. n + 1 /\ new[n + 1] = st /\ \A i \in 1 .. n : new[i] = calc[i]
  OBVIOUS
<1> HIDE DEF new
<1>2. \A k \in 1 .. n + 1 : k \in 1 .. n \/ k = n + 1
  BY <1>1
<1>3. n + 1 \in 1 .. n + 1 /\ \A k \in 1 .. n : k \in 1 .. n + 1
  BY <1>1
<1> HIDE DEF n
<1>4. To(new) = To(calc) \cup {st.to}
  <2>1. ASSUME NEW x \in To(new) PROVE x \in To(calc) \cup {st.to}
    <3>1. PICK i \in 1 .. n + 1 : x = new[i].to
      BY <1>1 DEF To
    <3> QED
      BY <1>1, <1>2, <3>1 DEF To, n
  <2>2. ASSUME NEW x \in To(calc) PROVE x \in To(new)
    <3>1. PICK i \in 1 .. n : x = calc[i].to
      BY DEF To, n
    <3> QED
      BY <1>1, <1>3, <3>1 DEF To
  <2>3. st.to \in To(new)
    BY <1>1, <1>3 DEF To
  <2> QED
    BY <2>1, <2>2, <2>3
<1>5. Straight(new) => /\ Straight(calc)
                       /\ st.op = "concat" => \A i \in DOMAIN st.args : st.args[i][1] # "res"
  BY <1>1, <1>3 DEF Straight
<1>6. ASSUME Sequenced(calc, o), st.to \notin To(calc),
             \A i \in DOMAIN st.args : st.args[i][1] = "res" => st.args[i][2] \in To(calc)
      PROVE  Sequenced(new, o)
  <2>1. /\ \A k \in 1 .. n :
             /\ calc[k].to \notin {calc[i].to : i \in 1 .. k - 1}
             /\ \A i \in DOMAIN calc[k].args : calc[k].args[i][1] = "res" =>
                  calc[k].args[i][2] \in {calc[j].to : j \in 1 .. k - 1}
        /\ \A i \in DOMAIN o : o[i].res \in {calc[j].to : j \in 1 .. n + 1 - 1}
    BY <1>1, <1>6, SequencedIs DEF n
  <2>2. ASSUME NEW k \in 1 .. n + 1
        PROVE  {new[i].to : i \in 1 .. k - 1} = {calc[i].to : i \in 1 .. k - 1}
    <3>1. \A i \in 1 .. k - 1 : i \in 1 .. n
      BY <1>1
    <3> QED
      BY <1>1, <3>1
  <2>3. ASSUME NEW k \in 1 .. n + 1
        PROVE  /\ new[k].to \notin {new[i].to : i \in 1 .. k - 1}
               /\ \A i \in DOMAIN new[k].args : new[k].args[i][1] = "res" =>
                    new[k].args[i][2] \in {new[j].to : j \in 1 .. k - 1}
    <3>1. CASE k \in 1 .. n
      BY <1>1, <2>1, <2>2, <3>1
    <3>2. CASE k = n + 1
      <4>1. k - 1 = n /\ new[k] = st
        BY <1>1, <3>2
      <4>2. {new[i].to : i \in 1 .. k - 1} = To(calc)
        BY <2>2, <4>1 DEF To, n
      <4> QED
        BY <1>6, <4>1, <4>2
    <3> QED
      BY <1>2, <3>1, <3>2
  <2>4. ASSUME NEW i \in DOMAIN o PROVE o[i].res \in {new[j].to : j \in 1 .. n + 1 + 1 - 1}
    <3>1. o[i].res \in {calc[j].to : j \in 1 .. n + 1 - 1} /\ n + 1 - 1 = n /\ n + 1 + 1 - 1 = n + 1
      BY <1>1, <2>1
    <3>2. o[i].res \in To(new)
      BY <1>4, <3>1 DEF To, n
    <3> QED
      BY <1>1, <3>1, <3>2 DEF To
  <2> QED
    BY <1>1, <2>3, <2>4, SequencedIs
<1> QED
  BY <1>1, <1>4, <1>5, <1>6 DEF new, n

\* The results that args read are among those of T.
ReadsIn(args, T) == \A i \in DOMAIN args : args[i][1] = "res" => args[i][2] \in T

\* A statement that reads assigned results and assigns another keeps the order.
LEMMA StatementSequenced ==
  ASSUME NEW calc \in Seq(Statement), NEW st \in Statement, NEW o, Sequenced(calc, o),
         st.to \notin To(calc), ReadsIn(st.args, To(calc))
  PROVE  Sequenced(Append(calc, st), o)
BY StatementMore DEF ReadsIn

\* An output more.
LEMMA OutputMore ==
  ASSUME NEW calc \in Seq(Statement), NEW o, IsSeq(o), NEW x, Sequenced(calc, o),
         x.res \in To(calc)
  PROVE  Sequenced(calc, Append(o, x))
<1>1. /\ \A k \in DOMAIN calc :
           /\ calc[k].to \notin {calc[i].to : i \in 1 .. k - 1}
           /\ \A i \in DOMAIN calc[k].args : calc[k].args[i][1] = "res" =>
                calc[k].args[i][2] \in {calc[j].to : j \in 1 .. k - 1}
      /\ \A i \in DOMAIN o : o[i].res \in {calc[j].to : j \in 1 .. Len(calc) + 1 - 1}
  BY SequencedIs
<1>2. To(calc) = {calc[j].to : j \in 1 .. Len(calc) + 1 - 1}
  <2>1. Len(calc) + 1 - 1 = Len(calc)
    OBVIOUS
  <2> QED
    BY <2>1 DEF To
<1>3. \A i \in DOMAIN Append(o, x) : Append(o, x)[i].res \in To(calc)
  <2>1. /\ DOMAIN Append(o, x) = 1 .. Len(o) + 1 /\ DOMAIN o = 1 .. Len(o) /\ Len(o) \in Nat
        /\ Append(o, x)[Len(o) + 1] = x /\ \A i \in 1 .. Len(o) : Append(o, x)[i] = o[i]
    BY AppendIsSeq
  <2>2. \A i \in 1 .. Len(o) + 1 : i \in 1 .. Len(o) \/ i = Len(o) + 1
    BY <2>1
  <2> QED
    BY <1>1, <1>2, <2>1, <2>2
<1> QED
  BY <1>1, <1>2, <1>3, SequencedIs

\* The names taken are finitely many.
LEMMA KeysFinite ==
  ASSUME NEW q, NEW r \in Int, Keys(q) \subseteq 0 .. r
  PROVE  IsFiniteSet(Keys(q)) /\ Cardinality(Keys(q)) \in Nat
<1>1. IsFiniteSet(0 .. r)
  BY FS_Interval
<1>2. IsFiniteSet(Keys(q))
  BY <1>1, FS_Subset
<1> QED
  BY <1>2, FS_CardinalityType

\* The frames p in the place of the first of q: the keys of both remain.
LEMMA KeysReplaced ==
  ASSUME NEW p \in Seq(Frame), NEW q \in Seq(Frame), q # <<>>, ~IsConcat(q[1]),
         DistinctKeys(q),
         \A j \in 1 .. Len(p) : IsConcat(p[j]) => j = Len(p) /\ p[j].key \notin Keys(q)
  PROVE  Keys(p \o Tail(q)) = Keys(q) \cup Keys(p) /\ DistinctKeys(p \o Tail(q))
<1> DEFINE t == p \o Tail(q)
           m == Len(p)
<1>1. m \in Nat /\ Len(q) \in Nat /\ Len(q) >= 1 /\ Len(t) = m + Len(q) - 1
  BY ReplacedFacts
<1>2. \A i \in 1 .. m : t[i] = p[i]
  BY ReplacedFacts
<1>3. \A i \in m + 1 .. m + Len(q) - 1 : \A a \in Int : a = i - m + 1 => t[i] = q[a]
  BY ReplacedFacts
<1> HIDE DEF t, m
<1>4. ASSUME NEW i \in 1 .. Len(t)
      PROVE  \/ i \in 1 .. m /\ t[i] = p[i]
             \/ i - m + 1 \in 1 .. Len(q) /\ t[i] = q[i - m + 1] /\ ~(i <= m)
  <2>1. CASE i <= m
    BY <1>1, <1>2, <2>1
  <2>2. CASE ~(i <= m)
    <3>0. i \in 1 .. m + Len(q) - 1
      BY <1>1
    <3>1. /\ i \in m + 1 .. m + Len(q) - 1 /\ i - m + 1 \in Int /\ i - m + 1 \in 1 .. Len(q)
      BY ONLY <1>1, <2>2, <3>0
    <3>2. t[i] = q[i - m + 1]
      BY ONLY <1>3, <3>1
    <3> QED
      BY <2>2, <3>1, <3>2
  <2> QED
    BY <2>1, <2>2
<1>5. ASSUME NEW x \in Keys(t) PROVE x \in Keys(q) \cup Keys(p)
  <2>1. PICK i \in 1 .. Len(t) : IsConcat(t[i]) /\ x = t[i].key
    BY DEF Keys
  <2>2. CASE i \in 1 .. m /\ t[i] = p[i]
    BY <2>1, <2>2 DEF Keys, m
  <2>3. CASE i - m + 1 \in 1 .. Len(q) /\ t[i] = q[i - m + 1]
    BY <2>1, <2>3 DEF Keys
  <2> QED
    BY <1>4, <2>2, <2>3
<1>6. ASSUME NEW x \in Keys(p) PROVE x \in Keys(t)
  <2>1. PICK i \in 1 .. m : IsConcat(p[i]) /\ x = p[i].key
    BY DEF Keys, m
  <2>2. i \in 1 .. Len(t) /\ t[i] = p[i]
    BY <1>1, <1>2
  <2> QED
    BY <2>1, <2>2 DEF Keys
<1>7. ASSUME NEW x \in Keys(q) PROVE x \in Keys(t)
  <2>1. PICK a \in 1 .. Len(q) : IsConcat(q[a]) /\ x = q[a].key
    BY DEF Keys
  <2>2. a # 1
    BY <2>1
  <2>3. /\ m + a - 1 \in m + 1 .. m + Len(q) - 1 /\ a = m + a - 1 - m + 1 /\ a \in Int
        /\ m + a - 1 \in 1 .. m + Len(q) - 1
    BY ONLY <1>1, <2>2, a \in 1 .. Len(q)
  <2>4. t[m + a - 1] = q[a]
    <3> DEFINE i == m + a - 1
    <3>1. i \in m + 1 .. m + Len(q) - 1 /\ a \in Int /\ a = i - m + 1
      BY ONLY <1>1, <2>2, a \in 1 .. Len(q)
    <3> HIDE DEF i
    <3>2. t[i] = q[a]
      BY ONLY <1>3, <3>1
    <3> QED
      BY <3>2 DEF i
  <2> QED
    BY <1>1, <2>1, <2>3, <2>4 DEF Keys
<1>8. ASSUME NEW i \in 1 .. Len(t), NEW j \in 1 .. Len(t), i < j,
             IsConcat(t[i]), IsConcat(t[j])
      PROVE  t[i].key # t[j].key
  <2>0. m \in Int /\ i \in Int /\ j \in Int
    BY <1>1
  <2>1. CASE j \in 1 .. m /\ t[j] = p[j]
    <3>1. i \in 1 .. m /\ i # m /\ j <= m
      BY <1>1, <1>8, <2>1
    <3>2. t[i] = p[i]
      BY <1>2, <3>1
    <3> QED
      BY <1>8, <3>1, <3>2 DEF m
  <2>2. CASE j - m + 1 \in 1 .. Len(q) /\ t[j] = q[j - m + 1]
    <3>1. CASE i \in 1 .. m /\ t[i] = p[i]
      <4>1. t[i].key \notin Keys(q)
        BY <1>8, <3>1 DEF m
      <4>2. t[j].key \in Keys(q)
        BY <1>8, <2>2 DEF Keys
      <4> QED
        BY <4>1, <4>2
    <3>2. CASE i - m + 1 \in 1 .. Len(q) /\ t[i] = q[i - m + 1]
      <4>1. i - m + 1 # j - m + 1
        BY ONLY <1>8, <2>0
      <4>2. q[i - m + 1].key # q[j - m + 1].key
        BY <1>8, <2>2, <3>2, <4>1 DEF DistinctKeys
      <4> QED
        BY <2>2, <3>2, <4>2
    <3> QED
      BY <1>4, <3>1, <3>2
  <2> QED
    BY <1>4, <2>1, <2>2
<1>9. DistinctKeys(t)
  <2> SUFFICES ASSUME NEW i \in 1 .. Len(t), NEW j \in 1 .. Len(t), i # j,
                      IsConcat(t[i]), IsConcat(t[j])
               PROVE  t[i].key # t[j].key
    BY DEF DistinctKeys
  <2>1. i < j \/ j < i
    BY <1>1
  <2> QED
    BY <1>8, <2>1
<1> QED
  BY <1>5, <1>6, <1>7, <1>9 DEF t

\* Leaving the first frame, which is no concatenation, keeps the names taken.
LEMMA KeysTail ==
  ASSUME NEW q \in Seq(Frame), q # <<>>, ~IsConcat(q[1]), DistinctKeys(q)
  PROVE  Keys(Tail(q)) = Keys(q) /\ DistinctKeys(Tail(q))
<1>1. /\ Keys(<<>> \o Tail(q)) = Keys(q) \cup Keys(<<>>)
      /\ DistinctKeys(<<>> \o Tail(q))
  <2>1. <<>> \in Seq(Frame) /\ \A j \in 1 .. Len(<<>>) : FALSE
    BY EmptyJoin
  <2> QED
    BY <2>1, KeysReplaced
<1>2. Keys(<<>>) = {}
  BY EmptyJoin DEF Keys
<1> QED
  BY <1>1, <1>2, EmptyJoin

\* A concatenation that is left gives up its name alone.
LEMMA KeysTailConcat ==
  ASSUME NEW q \in Seq(Frame), q # <<>>, IsConcat(q[1]), DistinctKeys(q)
  PROVE  /\ q[1].key \in Keys(q) /\ Keys(Tail(q)) = Keys(q) \ {q[1].key}
         /\ DistinctKeys(Tail(q))
<1>1. /\ Len(q) \in Nat /\ Len(q) >= 1 /\ Len(Tail(q)) = Len(q) - 1
      /\ \A i \in 1 .. Len(q) - 1 : Tail(q)[i] = q[i + 1]
  BY TailFacts
<1>2. 1 \in 1 .. Len(q) /\ q[1].key \in Keys(q)
  BY <1>1 DEF Keys
<1>3. ASSUME NEW i \in 1 .. Len(Tail(q))
      PROVE  i + 1 \in 1 .. Len(q) /\ i + 1 # 1 /\ Tail(q)[i] = q[i + 1]
  BY <1>1
<1>4. ASSUME NEW x \in Keys(Tail(q)) PROVE x \in Keys(q) /\ x # q[1].key
  <2>1. PICK i \in 1 .. Len(Tail(q)) : IsConcat(Tail(q)[i]) /\ x = Tail(q)[i].key
    BY DEF Keys
  <2> QED
    BY <1>2, <1>3, <2>1 DEF Keys, DistinctKeys
<1>5. ASSUME NEW x \in Keys(q), x # q[1].key PROVE x \in Keys(Tail(q))
  <2>1. PICK i \in 1 .. Len(q) : IsConcat(q[i]) /\ x = q[i].key
    BY DEF Keys
  <2>2. i # 1
    BY <1>5, <2>1
  <2>3. i - 1 \in 1 .. Len(Tail(q)) /\ i - 1 \in 1 .. Len(q) - 1 /\ i - 1 + 1 = i
    BY <1>1, <2>2
  <2>4. Tail(q)[i - 1] = q[i]
    BY <1>1, <2>3
  <2> QED
    BY <2>1, <2>3, <2>4 DEF Keys
<1>6. DistinctKeys(Tail(q))
  <2> SUFFICES ASSUME NEW i \in 1 .. Len(Tail(q)), NEW j \in 1 .. Len(Tail(q)), i # j,
                      IsConcat(Tail(q)[i]), IsConcat(Tail(q)[j])
               PROVE  Tail(q)[i].key # Tail(q)[j].key
    BY DEF DistinctKeys
  <2>1. i + 1 # j + 1
    BY <1>1
  <2> QED
    BY <1>3, <2>1 DEF DistinctKeys
<1> QED
  BY <1>2, <1>4, <1>5, <1>6

\* The name of something else than a result is returned.
LEMMA LedgerReturn ==
  ASSUME NEW calc, NEW q \in Seq(Frame), q # <<>>, NEW s \in Seq(Name), NEW o, NEW r,
         Ledger(calc, q, s, o, r), q[1].do # "emit",
         NEW x \in Name, x[1] # "res", NEW t, t = Append(SubSeq(s, 1, Len(s) - 0), x)
  PROVE  Ledger(calc, Tail(q), t, o, r)
<1>1. Keys(Tail(q)) = Keys(q) /\ DistinctKeys(Tail(q))
  BY KeysTail DEF Ledger, IsConcat
<1>2. ASSUME NEW i \in 1 .. Len(t), t[i][1] = "res" PROVE i \in 1 .. Len(s) /\ t[i] = s[i]
  <2>1. /\ Len(s) \in Nat /\ Len(t) = Len(s) + 1 /\ t[Len(s) + 1] = x
        /\ \A j \in 1 .. Len(s) : t[j] = s[j]
    OBVIOUS
  <2> QED
    BY <1>2, <2>1
<1> QED
  BY <1>1, <1>2 DEF Ledger

\* Frames take the place of a call or of none; a new concatenation takes a name.
LEMMA LedgerReplace ==
  ASSUME NEW calc, NEW q \in Seq(Frame), q # <<>>, NEW s \in Seq(Name), NEW o, NEW r,
         Ledger(calc, q, s, o, r), q[1].do # "emit",
         NEW p \in Seq(Frame), NEW n,
         \/ n = r /\ \A j \in 1 .. Len(p) : ~IsConcat(p[j])
         \/ /\ n = r + 1 /\ \A j \in 1 .. Len(p) : IsConcat(p[j]) => j = Len(p) /\ p[j].key = n
            /\ \E j \in 1 .. Len(p) : IsConcat(p[j])
  PROVE  Ledger(calc, p \o Tail(q), s, o, n)
<1>1. ~IsConcat(q[1]) /\ DistinctKeys(q) /\ Keys(q) \subseteq 0 .. r /\ r \in Int /\ r >= -1
  BY DEF Ledger, IsConcat
<1>2. CASE n = r /\ \A j \in 1 .. Len(p) : ~IsConcat(p[j])
  <2>1. Keys(p) = {}
    BY <1>2 DEF Keys
  <2>2. Keys(p \o Tail(q)) = Keys(q) \cup Keys(p) /\ DistinctKeys(p \o Tail(q))
    BY <1>1, <1>2, KeysReplaced
  <2> QED
    BY <1>2, <2>1, <2>2 DEF Ledger
<1>3. CASE /\ n = r + 1 /\ \A j \in 1 .. Len(p) : IsConcat(p[j]) => j = Len(p) /\ p[j].key = n
           /\ \E j \in 1 .. Len(p) : IsConcat(p[j])
  <2>1. Keys(p) = {n} /\ n \notin Keys(q) /\ n \in Int
    <3>1. PICK j \in 1 .. Len(p) : IsConcat(p[j]) /\ p[j].key = n
      BY <1>3
    <3>2. Keys(p) = {n}
      BY <1>3, <3>1 DEF Keys
    <3>3. n \notin 0 .. r /\ n \in Int
      BY <1>1, <1>3
    <3> QED
      BY <1>1, <3>2, <3>3
  <2>2. Keys(p \o Tail(q)) = Keys(q) \cup {n} /\ DistinctKeys(p \o Tail(q))
    BY <1>1, <1>3, <2>1, KeysReplaced
  <2>3. Cardinality(Keys(q) \cup {n}) = Cardinality(Keys(q)) + 1
    BY <1>1, <2>1, KeysFinite, FS_AddElement
  <2>4. Keys(p \o Tail(q)) \subseteq 0 .. n
    BY <1>1, <1>3, <2>2
  <2>5. (0 .. n) \ Keys(p \o Tail(q)) = (0 .. r) \ Keys(q)
    BY <1>1, <1>3, <2>2
  <2>6. Len(calc) + Cardinality(Keys(p \o Tail(q))) = n + 1
    <3>1. Len(calc) \in Nat /\ Cardinality(Keys(q)) \in Nat
      BY <1>1, KeysFinite DEF Ledger
    <3>2. Len(calc) + Cardinality(Keys(q)) = r + 1
      BY DEF Ledger
    <3>3. Cardinality(Keys(p \o Tail(q))) = Cardinality(Keys(q)) + 1
      BY <2>2, <2>3
    <3> QED
      BY ONLY <1>1, <1>3, <3>1, <3>2, <3>3
  <2> QED
    BY <1>1, <1>3, <2>1, <2>2, <2>4, <2>5, <2>6 DEF Ledger
<1> QED
  BY <1>2, <1>3
-----------------------------------------------------------------------------
\* The operands of an emit, and the names after it.
Taken(s, k) == SubSeq(s, Len(s) - k + 1, Len(s))
Left(s, k, x) == Append(SubSeq(s, 1, Len(s) - k), x)

\* The operands taken are the last names.
LEMMA TakenFacts ==
  ASSUME NEW s \in Seq(Name), NEW k \in Nat, k <= Len(s)
  PROVE  /\ Taken(s, k) \in Seq(Name) /\ DOMAIN Taken(s, k) = 1 .. k /\ Len(s) \in Nat
         /\ \A i \in 1 .. k : Taken(s, k)[i] = s[Len(s) - k + i]
<1> DEFINE args == Taken(s, k)
<1> USE DEF Taken
<1>1. Len(s) \in Nat
  OBVIOUS
<1>2. args \in Seq(Name) /\ DOMAIN args = 1 .. k
  BY <1>1
<1>3. \A i \in 1 .. k : args[i] = s[Len(s) - k + i]
  <2>1. ASSUME NEW i \in 1 .. k PROVE args[i] = s[Len(s) - k + 1 + i - 1]
    BY <1>1
  <2>2. \A i \in 1 .. k : Len(s) - k + 1 + i - 1 = Len(s) - k + i
    BY <1>1
  <2> QED
    BY <2>1, <2>2
<1> QED
  BY <1>1, <1>2, <1>3

\* The result comes in their place.
LEMMA LeftFacts ==
  ASSUME NEW s \in Seq(Name), NEW k \in Nat, k <= Len(s), NEW x \in Name
  PROVE  /\ Left(s, k, x) \in Seq(Name) /\ Len(Left(s, k, x)) = Len(s) - k + 1
         /\ Left(s, k, x)[Len(Left(s, k, x))] = x
         /\ \A i \in 1 .. Len(Left(s, k, x)) :
              i = Len(Left(s, k, x)) \/ (i \in 1 .. Len(s) /\ Left(s, k, x)[i] = s[i])
<1> DEFINE t == Left(s, k, x)
<1> USE DEF Left
<1>1. Len(s) \in Nat
  OBVIOUS
<1>4. /\ SubSeq(s, 1, Len(s) - k) \in Seq(Name) /\ Len(SubSeq(s, 1, Len(s) - k)) = Len(s) - k
      /\ \A i \in 1 .. Len(s) - k : SubSeq(s, 1, Len(s) - k)[i] = s[i]
  BY <1>1
<1>5. /\ t \in Seq(Name) /\ Len(t) = Len(s) - k + 1 /\ t[Len(t)] = x
      /\ \A i \in 1 .. Len(s) - k : t[i] = s[i]
  BY <1>4
<1>6. ASSUME NEW i \in 1 .. Len(t), i # Len(t)
      PROVE  i \in 1 .. Len(s) - k /\ i \in 1 .. Len(s)
  <2>1. \A m \in Nat : \A j \in 1 .. m - k + 1 : j # m - k + 1 => j \in 1 .. m - k /\ j \in 1 .. m
    OBVIOUS
  <2>2. i \in 1 .. Len(s) - k + 1 /\ i # Len(s) - k + 1
    BY <1>5, <1>6
  <2> QED
    BY ONLY <1>1, <2>1, <2>2
<1> QED
  BY <1>5, <1>6

\* The statement of an operator or a query assigns the next result.
LEMMA LedgerEmit ==
  ASSUME NEW calc, NEW q \in Seq(Frame), q # <<>>, NEW s \in Seq(Name), NEW o, NEW r,
         Ledger(calc, q, s, o, r), q[1].do = "emit", ~IsConcat(q[1]),
         NEW k \in Nat, k <= Len(s),
         NEW args, args = SubSeq(s, Len(s) - k + 1, Len(s)),
         NEW t, t = Append(SubSeq(s, 1, Len(s) - k), <<"res", r + 1>>),
         NEW st, st = [to |-> r + 1, op |-> q[1].e.op, args |-> args]
  PROVE  Ledger(Append(calc, st), Tail(q), t, o, r + 1)
<1>1. /\ calc \in Seq(Statement) /\ IsSeq(o) /\ r \in Int /\ r >= -1
      /\ Keys(q) \subseteq 0 .. r /\ DistinctKeys(q)
      /\ Len(calc) + Cardinality(Keys(q)) = r + 1
  BY DEF Ledger
<1>2. Keys(Tail(q)) = Keys(q) /\ DistinctKeys(Tail(q))
  BY <1>1, KeysTail
<1>3. <<"res", r + 1>> \in Name /\ r + 1 \in Nat
  BY <1>1 DEF Name
<1>4. /\ args \in Seq(Name) /\ DOMAIN args = 1 .. k /\ Len(s) \in Nat
      /\ \A i \in 1 .. k : args[i] = s[Len(s) - k + i]
      /\ t[Len(t)] = <<"res", r + 1>>
      /\ \A i \in 1 .. Len(t) : i = Len(t) \/ (i \in 1 .. Len(s) /\ t[i] = s[i])
  <2>1. PICK x \in Name : x = <<"res", r + 1>>
    BY <1>3
  <2>2. t = Left(s, k, x) /\ args = Taken(s, k)
    BY <2>1 DEF Left, Taken
  <2>3. /\ args \in Seq(Name) /\ DOMAIN args = 1 .. k /\ Len(s) \in Nat
        /\ \A i \in 1 .. k : args[i] = s[Len(s) - k + i]
        /\ t[Len(t)] = x
        /\ \A i \in 1 .. Len(t) : i = Len(t) \/ (i \in 1 .. Len(s) /\ t[i] = s[i])
    <3>1. /\ Taken(s, k) \in Seq(Name) /\ DOMAIN Taken(s, k) = 1 .. k /\ Len(s) \in Nat
          /\ \A i \in 1 .. k : Taken(s, k)[i] = s[Len(s) - k + i]
      BY TakenFacts
    <3>2. /\ Left(s, k, x)[Len(Left(s, k, x))] = x
          /\ \A i \in 1 .. Len(Left(s, k, x)) :
               i = Len(Left(s, k, x)) \/ (i \in 1 .. Len(s) /\ Left(s, k, x)[i] = s[i])
      BY LeftFacts
    <3> QED
      BY ONLY <2>2, <3>1, <3>2
  <2> QED
    BY <2>1, <2>3
<1>5. st \in Statement /\ st.to = r + 1 /\ st.args = args
  <2>1. q[1] \in Frame
    BY TailFacts
  <2>2. q[1].e.op \in Ops
    BY <2>1, ExprFacts DEF Frame
  <2> QED
    BY <1>3, <1>4, <2>2 DEF Statement
<1>6. /\ Append(calc, st) \in Seq(Statement) /\ Len(Append(calc, st)) = Len(calc) + 1
      /\ Len(calc) \in Nat
      /\ To(Append(calc, st)) = To(calc) \cup {r + 1}
      /\ Straight(Append(calc, st)) => Straight(calc)
  BY <1>1, <1>5, StatementMore
<1>7. Keys(Tail(q)) \subseteq 0 .. r + 1 /\ r + 1 >= -1 /\ r + 1 \in Int
  BY <1>1, <1>2
<1>8. Len(Append(calc, st)) + Cardinality(Keys(Tail(q))) = r + 1 + 1
  <2>1. Cardinality(Keys(q)) \in Nat
    BY <1>1, KeysFinite
  <2>2. Cardinality(Keys(Tail(q))) = Cardinality(Keys(q))
    BY <1>2
  <2> QED
    BY ONLY <1>1, <1>6, <2>1, <2>2
<1>9. ASSUME Straight(Append(calc, st))
      PROVE  /\ Sequenced(Append(calc, st), o)
             /\ To(Append(calc, st)) = (0 .. r + 1) \ Keys(Tail(q))
             /\ \A i \in 1 .. Len(t) : t[i][1] = "res" => t[i][2] \in To(Append(calc, st))
  <2>1. /\ Sequenced(calc, o) /\ To(calc) = (0 .. r) \ Keys(q)
        /\ \A i \in 1 .. Len(s) : s[i][1] = "res" => s[i][2] \in To(calc)
    BY <1>6, <1>9 DEF Ledger
  <2>2. r + 1 \notin To(calc) /\ To(Append(calc, st)) = (0 .. r + 1) \ Keys(Tail(q))
    <3>1. r + 1 \notin 0 .. r /\ 0 .. r + 1 = (0 .. r) \cup {r + 1}
      BY <1>1
    <3> QED
      BY <1>1, <1>2, <1>6, <2>1, <3>1
  <2>3. ASSUME NEW i \in DOMAIN args, args[i][1] = "res" PROVE args[i][2] \in To(calc)
    <3>1. Len(s) - k + i \in 1 .. Len(s)
      BY <1>4
    <3> QED
      BY <1>4, <2>1, <2>3, <3>1
  <2>4. Sequenced(Append(calc, st), o)
    <3>1. calc \in Seq(Statement) /\ st \in Statement /\ st.to \notin To(calc)
      BY <1>1, <1>5, <2>2
    <3>2. ReadsIn(st.args, To(calc))
      BY <1>1, <1>5, <2>3 DEF ReadsIn
    <3> QED
      BY ONLY <2>1, <3>1, <3>2, StatementSequenced
  <2>5. ASSUME NEW i \in 1 .. Len(t), t[i][1] = "res" PROVE t[i][2] \in To(Append(calc, st))
    <3>1. CASE i = Len(t)
      <4>1. t[i][2] = r + 1
        BY ONLY <1>4, <3>1
      <4> QED
        BY ONLY <1>6, <4>1
    <3>2. CASE i \in 1 .. Len(s) /\ t[i] = s[i]
      BY ONLY <1>6, <2>1, <2>5, <3>2
    <3> QED
      BY <1>4, <3>1, <3>2
  <2> QED
    BY <2>2, <2>4, <2>5
<1> QED
  BY <1>1, <1>2, <1>6, <1>7, <1>8, <1>9 DEF Ledger

\* That of a concatenation assigns the result named last, which is the
\* concatenation's own if no operand is calculated.
LEMMA LedgerConcat ==
  ASSUME NEW h, NEW calc, NEW q, q # <<>>, NEW s, NEW o, NEW r, NEW f,
         Planned(h, q, s, r, f), Ledger(calc, q, s, o, r), IsConcat(q[1]),
         NEW args, args = SubSeq(s, Len(s) - Len(q[1].e.args) + 1, Len(s)),
         NEW t, t = Append(SubSeq(s, 1, Len(s) - Len(q[1].e.args)), <<"res", q[1].key>>),
         NEW st, st = [to |-> r, op |-> "concat", args |-> args]
  PROVE  Ledger(Append(calc, st), Tail(q), t, o, r)
<1> DEFINE k == Len(q[1].e.args)
           key == q[1].key
<1>0. q \in Seq(Frame) /\ s \in Seq(Name) /\ Heights(h, q) /\ h[1] = Len(s) /\ Tainted(h, q, s, r)
  BY DEF Planned
<1>1. /\ calc \in Seq(Statement) /\ IsSeq(o) /\ r \in Int /\ r >= -1
      /\ Keys(q) \subseteq 0 .. r /\ DistinctKeys(q)
      /\ Len(calc) + Cardinality(Keys(q)) = r + 1
  BY DEF Ledger
<1>2. key \in Keys(q) /\ Keys(Tail(q)) = Keys(q) \ {key} /\ DistinctKeys(Tail(q))
  BY <1>0, <1>1, KeysTailConcat
<1>3. /\ q[1] \in Frame /\ q[1].do = "emit" /\ key \in 0 .. r /\ r \in Nat /\ key \in Nat
      /\ <<"res", key>> \in Name /\ 1 \in 1 .. Len(q)
  <2>1. q[1] \in Frame /\ 1 \in 1 .. Len(q)
    BY <1>0, TailFacts
  <2>2. key \in 0 .. r /\ r \in Nat /\ key \in Nat
    BY <1>1, <1>2
  <2> HIDE DEF key
  <2> QED
    BY <2>1, <2>2 DEF Name, IsConcat
<1>4. k \in Nat /\ k <= Len(s) /\ Base(h, q, 1) = Len(s) - k
  <2>1. q[1].e \in Exprs
    BY <1>3 DEF Frame
  <2> QED
    BY <1>0, <1>3, <2>1, ExprFacts DEF Heights, Base
<1> HIDE DEF k, key
<1>5. /\ args \in Seq(Name) /\ DOMAIN args = 1 .. k /\ Len(s) \in Nat
      /\ \A i \in 1 .. k : args[i] = s[Len(s) - k + i]
      /\ t[Len(t)] = <<"res", key>>
      /\ \A i \in 1 .. Len(t) : i = Len(t) \/ (i \in 1 .. Len(s) /\ t[i] = s[i])
  <2>1. args = Taken(s, k)
    BY DEF Taken, k
  <2>2. PICK x \in Name : x = <<"res", key>>
    BY <1>3
  <2>3. t = Left(s, k, x)
    BY <2>2 DEF Left, k, key
  <2>4. /\ args \in Seq(Name) /\ DOMAIN args = 1 .. k /\ Len(s) \in Nat
        /\ \A i \in 1 .. k : args[i] = s[Len(s) - k + i]
        /\ t[Len(t)] = x
        /\ \A i \in 1 .. Len(t) : i = Len(t) \/ (i \in 1 .. Len(s) /\ t[i] = s[i])
    <3>1. /\ Taken(s, k) \in Seq(Name) /\ DOMAIN Taken(s, k) = 1 .. k /\ Len(s) \in Nat
          /\ \A i \in 1 .. k : Taken(s, k)[i] = s[Len(s) - k + i]
      BY <1>0, <1>4, TakenFacts
    <3>2. /\ Left(s, k, x)[Len(Left(s, k, x))] = x
          /\ \A i \in 1 .. Len(Left(s, k, x)) :
               i = Len(Left(s, k, x)) \/ (i \in 1 .. Len(s) /\ Left(s, k, x)[i] = s[i])
      BY <1>0, <1>4, LeftFacts
    <3> QED
      BY ONLY <2>1, <2>3, <3>1, <3>2
  <2> QED
    BY <2>2, <2>4
<1>6. st \in Statement /\ st.to = r /\ st.args = args /\ st.op = "concat"
  <2>1. "concat" \in Ops
    BY DEF Ops
  <2> QED
    BY <1>3, <1>5, <2>1 DEF Statement
<1>7. /\ Append(calc, st) \in Seq(Statement) /\ Len(Append(calc, st)) = Len(calc) + 1
      /\ Len(calc) \in Nat
      /\ To(Append(calc, st)) = To(calc) \cup {r}
      /\ Straight(Append(calc, st)) =>
           Straight(calc) /\ \A i \in DOMAIN args : args[i][1] # "res"
  <2>1. calc \in Seq(Statement) /\ st \in Statement
    BY <1>1, <1>6
  <2>2. /\ Append(calc, st) \in Seq(Statement) /\ Len(Append(calc, st)) = Len(calc) + 1
        /\ Len(calc) \in Nat
        /\ To(Append(calc, st)) = To(calc) \cup {st.to}
        /\ Straight(Append(calc, st)) =>
             /\ Straight(calc)
             /\ st.op = "concat" => \A i \in DOMAIN st.args : st.args[i][1] # "res"
    BY ONLY <2>1, StatementMore
  <2> QED
    BY <1>6, <2>2
<1>8. Len(Append(calc, st)) + Cardinality(Keys(Tail(q))) = r + 1
  <2>1. Cardinality(Keys(q)) \in Nat /\ IsFiniteSet(Keys(q))
    BY <1>1, KeysFinite
  <2>2. Cardinality(Keys(q) \ {key}) = Cardinality(Keys(q)) - 1
    BY <1>2, <2>1, FS_RemoveElement
  <2>3. Cardinality(Keys(Tail(q))) = Cardinality(Keys(q)) - 1
    BY <1>2, <2>2
  <2> QED
    BY ONLY <1>1, <1>7, <2>1, <2>3
<1>9. ASSUME Straight(Append(calc, st))
      PROVE  /\ Sequenced(Append(calc, st), o)
             /\ To(Append(calc, st)) = (0 .. r) \ Keys(Tail(q))
             /\ \A i \in 1 .. Len(t) : t[i][1] = "res" => t[i][2] \in To(Append(calc, st))
  <2>1. /\ Sequenced(calc, o) /\ To(calc) = (0 .. r) \ Keys(q)
        /\ \A i \in 1 .. Len(s) : s[i][1] = "res" => s[i][2] \in To(calc)
    BY <1>7, <1>9 DEF Ledger
  <2>2. \A i \in 1 .. k : args[i][1] # "res"
    BY <1>5, <1>7, <1>9
  <2>3. key = r
    <3>1. SUFFICES ASSUME key < r PROVE FALSE
      BY <1>3
    <3>2. \/ \E j \in 1 .. Len(s) : Base(h, q, 1) < j /\ s[j][1] = "res"
          \/ \E j \in 1 .. 1 - 1 : q[j].do = "emit"
      BY <1>0, <1>3, <3>1 DEF Tainted, key
    <3>3. PICK j \in 1 .. Len(s) : Len(s) - k < j /\ s[j][1] = "res"
      BY <1>4, <3>2
    <3>4. j - (Len(s) - k) \in 1 .. k /\ Len(s) - k + (j - (Len(s) - k)) = j
      <4>1. \A a, b, c \in Int : (b - c < a /\ a <= b) =>
              a - (b - c) \in 1 .. c /\ b - c + (a - (b - c)) = a
        OBVIOUS
      <4> HIDE DEF k
      <4>2. Len(s) \in Int /\ k \in Int
        BY ONLY <1>4, <1>5
      <4>3. j \in Int /\ Len(s) - k < j /\ j <= Len(s)
        BY ONLY j \in 1 .. Len(s), <3>3, <4>2
      <4> QED
        BY ONLY <4>1, <4>2, <4>3
    <3>5. args[j - (Len(s) - k)] = s[j]
      BY <1>5, <3>4
    <3> QED
      BY <2>2, <3>3, <3>4, <3>5
  <2>4. r \in Keys(q) /\ Keys(Tail(q)) = Keys(q) \ {r}
    BY <1>2, <2>3
  <2>5. r \notin To(calc) /\ To(Append(calc, st)) = (0 .. r) \ Keys(Tail(q))
    <3>1. r \in 0 .. r
      BY <1>3
    <3> QED
      BY ONLY <1>1, <1>7, <2>1, <2>4, <3>1
  <2>6. Sequenced(Append(calc, st), o)
    <3>1. calc \in Seq(Statement) /\ st \in Statement /\ st.to \notin To(calc)
      BY <1>1, <1>6, <2>5
    <3>2. ReadsIn(st.args, To(calc))
      BY <1>5, <1>6, <2>2 DEF ReadsIn
    <3> QED
      BY ONLY <2>1, <3>1, <3>2, StatementSequenced
  <2>7. ASSUME NEW i \in 1 .. Len(t), t[i][1] = "res" PROVE t[i][2] \in To(Append(calc, st))
    <3>1. CASE i = Len(t)
      <4>1. t[i][2] = r
        BY ONLY <1>5, <2>3, <3>1
      <4> QED
        BY ONLY <1>7, <4>1
    <3>2. CASE i \in 1 .. Len(s) /\ t[i] = s[i]
      BY ONLY <1>7, <2>1, <2>7, <3>2
    <3> QED
      BY <1>5, <3>1, <3>2
  <2> QED
    BY <2>5, <2>6, <2>7
<1> QED
  BY <1>1, <1>2, <1>7, <1>8, <1>9 DEF Ledger

\* An identifier alone is copied, and the last result is sent.
LEMMA LedgerCopy ==
  ASSUME NEW calc, NEW s \in Seq(Name), NEW o, NEW r, Ledger(calc, <<>>, s, o, r),
         NEW st, st = [to |-> r + 1, op |-> "port", args |-> s]
  PROVE  Ledger(Append(calc, st), <<>>, s, o, r + 1)
<1>0. Keys(<<>>) = {} /\ DistinctKeys(<<>>)
  <2>1. 1 .. Len(<<>>) = {}
    OBVIOUS
  <2> QED
    BY <2>1 DEF Keys, DistinctKeys
<1>1. /\ calc \in Seq(Statement) /\ IsSeq(o) /\ r \in Int /\ r >= -1 /\ Len(calc) = r + 1
      /\ Len(calc) \in Nat /\ Cardinality({}) = 0
  <2>1. /\ calc \in Seq(Statement) /\ IsSeq(o) /\ r \in Int /\ r >= -1
        /\ Len(calc) + Cardinality(Keys(<<>>)) = r + 1
    BY DEF Ledger
  <2>2. Cardinality({}) = 0
    BY FS_EmptySet
  <2>3. Len(calc) \in Nat
    BY <2>1
  <2>4. Len(calc) + 0 = r + 1
    BY ONLY <1>0, <2>1, <2>2
  <2>5. Len(calc) = r + 1
    BY ONLY <2>1, <2>3, <2>4
  <2> QED
    BY <2>1, <2>2, <2>3, <2>5
<1>2. st \in Statement /\ st.to = r + 1 /\ st.args = s
  BY <1>1 DEF Statement
<1>3. /\ Append(calc, st) \in Seq(Statement) /\ Len(Append(calc, st)) = Len(calc) + 1
      /\ To(Append(calc, st)) = To(calc) \cup {r + 1}
      /\ Straight(Append(calc, st)) => Straight(calc)
  BY <1>1, <1>2, StatementMore
<1>4. ASSUME Straight(Append(calc, st))
      PROVE  /\ Sequenced(Append(calc, st), o)
             /\ To(Append(calc, st)) = (0 .. r + 1) \ {}
             /\ \A i \in 1 .. Len(s) : s[i][1] = "res" => s[i][2] \in To(Append(calc, st))
  <2>1. /\ Sequenced(calc, o) /\ To(calc) = 0 .. r
        /\ \A i \in 1 .. Len(s) : s[i][1] = "res" => s[i][2] \in To(calc)
    BY <1>0, <1>3, <1>4 DEF Ledger
  <2>2. r + 1 \notin To(calc) /\ 0 .. r + 1 = (0 .. r) \cup {r + 1} /\ DOMAIN s = 1 .. Len(s)
    BY <1>1, <2>1
  <2>3. Sequenced(Append(calc, st), o)
    <3>1. calc \in Seq(Statement) /\ st \in Statement /\ st.to \notin To(calc)
      BY <1>1, <1>2, <2>2
    <3>2. ReadsIn(st.args, To(calc))
      BY <1>1, <1>2, <2>1, <2>2 DEF ReadsIn
    <3> QED
      BY ONLY <2>1, <3>1, <3>2, StatementSequenced
  <2> QED
    BY <1>3, <2>1, <2>2, <2>3
<1>5. Len(Append(calc, st)) + Cardinality(Keys(<<>>)) = r + 1 + 1
  <2>1. Len(Append(calc, st)) = r + 1 + 1 /\ Cardinality(Keys(<<>>)) = 0
    BY <1>0, <1>1, <1>3
  <2> QED
    BY ONLY <1>1, <2>1
<1>6. r + 1 \in Int /\ r + 1 >= -1 /\ Keys(<<>>) \subseteq 0 .. r + 1
  BY <1>0, <1>1
<1>7. (0 .. r + 1) \ {} = (0 .. r + 1) \ Keys(<<>>)
  BY <1>0
<1>8. IsSeq(o) /\ Append(calc, st) \in Seq(Statement) /\ DistinctKeys(<<>>)
  BY <1>0, <1>1, <1>3
<1> QED
  BY ONLY <1>4, <1>5, <1>6, <1>7, <1>8 DEF Ledger

\* A result is sent.
LEMMA LedgerSend ==
  ASSUME NEW calc, NEW s, NEW o, NEW r, Ledger(calc, <<>>, s, o, r), r >= 0,
         NEW x, x.res = r
  PROVE  Ledger(calc, <<>>, <<>>, Append(o, x), r)
<1>0. Keys(<<>>) = {} /\ DistinctKeys(<<>>) /\ 1 .. Len(<<>>) = {}
  <2>1. 1 .. Len(<<>>) = {}
    OBVIOUS
  <2> QED
    BY <2>1 DEF Keys, DistinctKeys
<1>1. /\ calc \in Seq(Statement) /\ IsSeq(o) /\ r \in Int /\ r >= -1
      /\ Len(calc) + Cardinality({}) = r + 1
  <2>1. /\ calc \in Seq(Statement) /\ IsSeq(o) /\ r \in Int /\ r >= -1
        /\ Len(calc) + Cardinality(Keys(<<>>)) = r + 1
    BY DEF Ledger
  <2> QED
    BY <1>0, <2>1
<1>2. IsSeq(Append(o, x))
  BY <1>1, AppendIsSeq
<1>3. ASSUME Straight(calc)
      PROVE  Sequenced(calc, Append(o, x)) /\ To(calc) = (0 .. r) \ {}
  <2>1. Sequenced(calc, o) /\ To(calc) = (0 .. r) \ {}
    BY <1>0, <1>3 DEF Ledger
  <2>2. x.res \in To(calc)
    BY <1>1, <2>1
  <2> QED
    BY <1>1, <2>1, <2>2, OutputMore
<1> QED
  BY <1>0, <1>1, <1>2, <1>3 DEF Ledger
-----------------------------------------------------------------------------
\* The lists of a generator are as long as each other, and its hidden results named.
GenOK(g, r) ==
  /\ g = [argList |-> g.argList, argBW |-> g.argBW, resBWList |-> g.resBWList,
          calc |-> g.calc, hidden |-> g.hidden]
  /\ IsSeq(g.argList) /\ IsSeq(g.argBW) /\ IsSeq(g.resBWList)
  /\ Len(g.argList) = Len(g.argBW) /\ Len(g.calc) = Len(g.resBWList)
  /\ DOMAIN g.hidden \subseteq 0 .. r

\* Arguments and results on the stack exist.
NamesIn(s, a, r) ==
  \A i \in 1 .. Len(s) : /\ s[i][1] = "x" => s[i][2] < a
                         /\ s[i][1] = "res" => s[i][2] <= r

\* Sent results are named.
Sends(o, r) == \A i \in DOMAIN o : o[i].res \in 0 .. r

\* What a unit has generated, between its parts or in one.
Collected ==
  /\ GenOK(gen, resSuffix) /\ Ledger(gen.calc, todo, names, outs, resSuffix)
  /\ NamesIn(names, Len(gen.argList), resSuffix) /\ Sends(outs, resSuffix)

\* Between the parts of a unit nothing waits.
Idles == todo = <<>> /\ names = <<>>

\* In one, printExpr is on its way to the name of the root.
Lowers ==
  /\ unit \in 1 .. Len(body) /\ part \in 1 .. Len(body[unit].exprs)
  /\ Root \in Exprs /\ Root.op # "int" /\ Walk(Root, todo, names, resSuffix)

\* What the printed units generated is in order.
Past ==
  /\ IsSeq(instances)
  /\ \A n \in DOMAIN instances :
       Straight(instances[n].gen.calc) => Sequenced(instances[n].gen.calc, instances[n].outs)

\* The inductive invariant.
Inv ==
  /\ body \in Bodies /\ unit \in Nat \ {0} /\ part \in Nat \ {0}
  /\ Collected /\ (Idles \/ Lowers) /\ Past

\* generate appends a statement, its width and its hidden result.
LEMMA GenerateFacts ==
  ASSUME NEW r \in Int, GenOK(gen, r), gen.calc \in Seq(Statement),
         NEW to, NEW key \in Nat, NEW op, NEW operands, NEW w,
         [to |-> to, op |-> op, args |-> operands] \in Statement,
         Generate(to, key, op, operands, w),
         NEW n \in Int, r <= n, key <= n
  PROVE  /\ GenOK(gen', n)
         /\ gen'.calc = Append(gen.calc, [to |-> to, op |-> op, args |-> operands])
         /\ gen'.argList = gen.argList
<1>1. PICK a, b, rb, c, h :
        gen = [argList |-> a, argBW |-> b, resBWList |-> rb, calc |-> c, hidden |-> h]
  BY DEF GenOK
<1>2. /\ gen.argList = a /\ gen.argBW = b /\ gen.resBWList = rb /\ gen.calc = c
      /\ gen.hidden = h
  BY ONLY <1>1
<1>3. PICK st \in Statement : st = [to |-> to, op |-> op, args |-> operands]
  OBVIOUS
<1> DEFINE g == [k \in DOMAIN h \cup {key} |->
                   IF k \in DOMAIN h THEN h[k]
                   ELSE [op |-> op, args |-> Listed(op, operands), bw |-> w]]
<1>4. gen' = [argList |-> a, argBW |-> b, resBWList |-> Append(rb, w),
              calc |-> Append(c, st), hidden |-> g]
  BY ONLY <1>1, <1>3, Generate(to, key, op, operands, w) DEF Generate
<1>5. DOMAIN g = DOMAIN h \cup {key}
  OBVIOUS
<1> HIDE DEF g
<1>6. /\ gen'.argList = a /\ gen'.argBW = b /\ gen'.resBWList = Append(rb, w)
      /\ gen'.calc = Append(c, st) /\ gen'.hidden = g
  BY ONLY <1>4
<1>7. /\ IsSeq(a) /\ IsSeq(b) /\ IsSeq(rb) /\ Len(a) = Len(b) /\ Len(c) = Len(rb)
      /\ DOMAIN h \subseteq 0 .. r
  BY <1>2 DEF GenOK
<1>8. IsSeq(Append(rb, w)) /\ Len(Append(rb, w)) = Len(rb) + 1
  BY <1>7, AppendIsSeq
<1>9. Len(Append(c, st)) = Len(c) + 1
  BY <1>2, StatementMore
<1>10. DOMAIN g \subseteq 0 .. n
  BY <1>5, <1>7
<1>11. GenOK(gen', n)
  BY ONLY <1>4, <1>6, <1>7, <1>8, <1>9, <1>10 DEF GenOK
<1> QED
  BY <1>2, <1>3, <1>6, <1>11

\* A name takes the place of k others.
LEMMA NamesInReturn ==
  ASSUME NEW s \in Seq(Name), NEW a \in Int, NEW r \in Int, NamesIn(s, a, r),
         NEW k \in Nat, k <= Len(s), NEW x \in Name, NEW b \in Int, NEW n \in Int,
         a <= b, r <= n, x[1] = "x" => x[2] < b, x[1] = "res" => x[2] <= n,
         NEW t, t = Append(SubSeq(s, 1, Len(s) - k), x)
  PROVE  NamesIn(t, b, n)
<1>1. t = Left(s, k, x)
  BY DEF Left
<1>2. /\ t[Len(t)] = x
      /\ \A i \in 1 .. Len(t) : i = Len(t) \/ (i \in 1 .. Len(s) /\ t[i] = s[i])
  <2>1. /\ Left(s, k, x)[Len(Left(s, k, x))] = x
        /\ \A i \in 1 .. Len(Left(s, k, x)) :
             i = Len(Left(s, k, x)) \/ (i \in 1 .. Len(s) /\ Left(s, k, x)[i] = s[i])
    BY LeftFacts
  <2> QED
    BY ONLY <1>1, <2>1
<1> SUFFICES ASSUME NEW i \in 1 .. Len(t)
             PROVE  /\ t[i][1] = "x" => t[i][2] < b
                    /\ t[i][1] = "res" => t[i][2] <= n
  BY DEF NamesIn
<1>3. CASE i = Len(t)
  BY <1>2, <1>3
<1>4. CASE i \in 1 .. Len(s) /\ t[i] = s[i]
  <2>1. s[i] \in Name
    BY <1>4
  <2>2. s[i][2] \in Nat
    BY <2>1 DEF Name
  <2>3. /\ s[i][1] = "x" => s[i][2] < a
        /\ s[i][1] = "res" => s[i][2] <= r
    BY <1>4 DEF NamesIn
  <2>4. \A y \in Nat : (y < a => y < b) /\ (y <= r => y <= n)
    OBVIOUS
  <2> QED
    BY ONLY <1>4, <2>2, <2>3, <2>4
<1> QED
  BY <1>2, <1>3, <1>4

\* A step of printExpr is in the middle of lowering.
LEMMA AtFacts ==
  ASSUME Inv, NEW do, NEW ops, At(do, ops)
  PROVE  /\ Lowers /\ todo # <<>> /\ todo \in Seq(Frame) /\ names \in Seq(Name)
         /\ Next1 = todo[1] /\ todo[1] \in Frame /\ todo[1].e \in Exprs
         /\ todo[1].do = do /\ todo[1].e.op \in ops
         /\ todo[1].do = "emit" => Len(todo[1].e.args) <= Len(names)
         /\ resSuffix \in Int /\ resSuffix >= -1
<1>1. todo # <<>> /\ Next1.do = do /\ Next1.e.op \in ops
  BY DEF At
<1>2. Lowers
  BY <1>1 DEF Inv, Idles
<1>3. /\ todo \in Seq(Frame) /\ names \in Seq(Name)
      /\ todo[1].do = "emit" => Len(todo[1].e.args) <= Len(names)
  BY <1>1, <1>2, WalkFacts DEF Lowers
<1>4. Next1 = todo[1] /\ todo[1] \in Frame
  BY <1>1, <1>3, TailFacts DEF Next1
<1>5. todo[1].e \in Exprs
  BY <1>4 DEF Frame
<1>6. resSuffix \in Int /\ resSuffix >= -1
  BY DEF Inv, Collected, Ledger
<1> QED
  BY <1>1, <1>2, <1>3, <1>4, <1>5, <1>6

\* The step stays in the same part.
LEMMA LowersOn ==
  ASSUME Inv, Lowers, UNCHANGED <<body, unit, part, instances>>,
         Collected', Walk(Root, todo', names', resSuffix')
  PROVE  Inv'
<1>1. Lowers'
  BY DEF Lowers, Root
<1>2. Past'
  BY DEF Inv, Past
<1> QED
  BY <1>1, <1>2 DEF Inv
-----------------------------------------------------------------------------
\* An identifier or a literal returns its name.
LEMMA LeafStep ==
  ASSUME Inv, NEW op, At("call", {op}), NEW x \in Name,
         (x[1] = "x" /\ op = "var") \/ (x[1] = "int" /\ op = "int"),
         Return(0, x), todo' = Tail(todo), GenOK(gen', resSuffix), gen'.calc = gen.calc,
         Len(gen.argList) <= Len(gen'.argList),
         x[1] = "x" => x[2] < Len(gen'.argList),
         UNCHANGED <<body, unit, part, resSuffix, outs, instances>>
  PROVE  Inv'
<1>1. /\ Lowers /\ todo # <<>> /\ todo \in Seq(Frame) /\ names \in Seq(Name)
      /\ todo[1].do = "call" /\ todo[1].e.op = op /\ resSuffix \in Int
  BY AtFacts
<1>2. names' = Append(SubSeq(names, 1, Len(names) - 0), x)
  BY DEF Return
<1>3. Walk(Root, Tail(todo), names', resSuffix)
  <2>1. Walk(Root, todo, names, resSuffix) /\ todo[1].do # "end" /\ todo[1].do # "emit"
    BY <1>1 DEF Lowers
  <2>2. 0 = (IF todo[1].do = "emit" THEN Len(todo[1].e.args) ELSE 0)
    BY <2>1
  <2>3. (x[1] = "x" /\ todo[1].e.op = "var") \/ (x[1] = "int" /\ todo[1].e.op = "int")
    BY <1>1
  <2> QED
    BY <1>1, <1>2, <2>1, <2>2, <2>3, WalkReturn
<1>4. Ledger(gen.calc, Tail(todo), names', outs, resSuffix)
  BY <1>1, <1>2, LedgerReturn DEF Inv, Collected
<1>5. NamesIn(names', Len(gen'.argList), resSuffix)
  <2>1. 0 \in Nat /\ 0 <= Len(names) /\ resSuffix <= resSuffix /\ x[1] # "res"
    BY <1>1
  <2>2. /\ Len(gen.argList) \in Int /\ Len(gen'.argList) \in Int
        /\ NamesIn(names, Len(gen.argList), resSuffix)
    BY AppendIsSeq DEF Inv, Collected, GenOK
  <2> QED
    BY <1>1, <1>2, <2>1, <2>2, NamesInReturn
<1>6. Collected'
  BY <1>4, <1>5 DEF Inv, Collected
<1> QED
  BY <1>1, <1>3, <1>6, LowersOn

\* A literal returns its value.
LEMMA CallIntStep == ASSUME Inv, CallInt PROVE Inv'
<1>1. At("call", {"int"}) /\ Return(0, <<"int", Next1.e.n>>) /\ todo' = Tail(todo)
  BY DEF CallInt
<1>2. UNCHANGED <<body, unit, part, resSuffix, gen, outs, instances>>
  BY DEF CallInt, genVars, libVars
<1>3. Next1.e.n \in Nat
  BY <1>1, AtFacts, ExprFacts
<1>4. PICK x \in Name : x = <<"int", Next1.e.n>>
  BY <1>3 DEF Name
<1>5. x[1] = "int" /\ Return(0, x)
  BY <1>1, <1>4
<1>6. GenOK(gen', resSuffix) /\ Len(gen.argList) <= Len(gen'.argList)
  BY <1>2, AppendIsSeq DEF Inv, Collected, GenOK
<1> QED
  BY <1>1, <1>2, <1>5, <1>6, LeafStep

\* An identifier returns its argument, a new one or a known one.
LEMMA CallVarStep == ASSUME Inv, CallVar PROVE Inv'
<1> DEFINE id == Next1.e.n
           old == {i \in DOMAIN gen.argList : gen.argList[i] = id}
<1>1. At("call", {"var"}) /\ todo' = Tail(todo)
  BY DEF CallVar
<1>2. UNCHANGED <<body, unit, part, resSuffix, outs, instances>>
  BY DEF CallVar, libVars
<1>3. /\ GenOK(gen, resSuffix) /\ IsSeq(gen.argList) /\ Len(gen.argList) \in Nat
      /\ DOMAIN gen.argList = 1 .. Len(gen.argList)
  BY AppendIsSeq DEF Inv, Collected, GenOK
<1>4. CASE old = {}
  <2>1. /\ gen' = [gen EXCEPT !.argList = Append(@, id),
                              !.argBW = Append(@, body[unit].inBW[id])]
        /\ Return(0, <<"x", Len(gen.argList)>>)
    BY <1>4 DEF CallVar
  <2>2. PICK x \in Name : x = <<"x", Len(gen.argList)>>
    BY <1>3 DEF Name
  <2>3. PICK w : w = body[unit].inBW[id]
    OBVIOUS
  <2>4. PICK a, b, rb, c, h :
          gen = [argList |-> a, argBW |-> b, resBWList |-> rb, calc |-> c, hidden |-> h]
    BY <1>3 DEF GenOK
  <2>5. /\ gen.argList = a /\ gen.argBW = b /\ gen.resBWList = rb /\ gen.calc = c
        /\ gen.hidden = h
    BY ONLY <2>4
  <2>6. PICK v : v = id
    OBVIOUS
  <2>7. gen' = [argList |-> Append(a, v), argBW |-> Append(b, w), resBWList |-> rb,
                calc |-> c, hidden |-> h]
    <3>1. gen' = [gen EXCEPT !.argList = Append(@, v), !.argBW = Append(@, w)]
      BY <2>1, <2>3, <2>6
    <3> QED
      BY ONLY <2>4, <3>1
  <2>8. /\ gen'.argList = Append(a, v) /\ gen'.argBW = Append(b, w) /\ gen'.resBWList = rb
        /\ gen'.calc = c /\ gen'.hidden = h
    BY ONLY <2>7
  <2>9. /\ IsSeq(a) /\ IsSeq(b) /\ IsSeq(rb) /\ Len(a) = Len(b) /\ Len(c) = Len(rb)
        /\ DOMAIN h \subseteq 0 .. resSuffix
    BY <1>3, <2>5 DEF GenOK
  <2>10. /\ IsSeq(Append(a, v)) /\ IsSeq(Append(b, w)) /\ Len(Append(a, v)) = Len(a) + 1
         /\ Len(Append(b, w)) = Len(b) + 1
    BY <2>9, AppendIsSeq
  <2>11. GenOK(gen', resSuffix)
    BY ONLY <2>7, <2>8, <2>9, <2>10 DEF GenOK
  <2>12. /\ Len(gen.argList) <= Len(gen'.argList) /\ x[1] = "x" /\ x[2] < Len(gen'.argList)
    BY <1>3, <2>2, <2>5, <2>8, <2>10
  <2>13. gen'.calc = gen.calc /\ Return(0, x)
    BY <2>1, <2>2, <2>5, <2>8
  <2> QED
    BY <1>1, <1>2, <2>11, <2>12, <2>13, LeafStep
<1>5. CASE old # {}
  <2>1. UNCHANGED gen /\ Return(0, <<"x", (CHOOSE i \in old : TRUE) - 1>>)
    BY <1>5 DEF CallVar
  <2>2. (CHOOSE i \in old : TRUE) \in old
    BY <1>5
  <2>3. PICK m \in 1 .. Len(gen.argList) : m = (CHOOSE i \in old : TRUE)
    BY <1>3, <2>2
  <2>7. m - 1 \in Nat
    BY <1>3
  <2>4. PICK x \in Name : x = <<"x", m - 1>>
    BY <2>7 DEF Name
  <2>5. Return(0, x) /\ x[1] = "x" /\ x[2] < Len(gen'.argList)
    BY <1>3, <2>1, <2>3, <2>4
  <2>6. Len(gen.argList) <= Len(gen'.argList) /\ gen'.calc = gen.calc /\ GenOK(gen', resSuffix)
    BY <1>3, <2>1
  <2> QED
    BY <1>1, <1>2, <2>5, <2>6, LeafStep
<1> QED
  BY <1>4, <1>5

\* Frames take the place of the first one.
LEMMA ReplaceStep ==
  ASSUME Inv, Lowers, todo # <<>>, todo[1].do # "emit", NEW p \in Seq(Frame),
         todo' = p \o Tail(todo),
         \/ resSuffix' = resSuffix /\ \A j \in 1 .. Len(p) : ~IsConcat(p[j])
         \/ /\ resSuffix' = resSuffix + 1
            /\ \A j \in 1 .. Len(p) : IsConcat(p[j]) => j = Len(p) /\ p[j].key = resSuffix'
            /\ \E j \in 1 .. Len(p) : IsConcat(p[j]),
         Walk(Root, todo', names, resSuffix'),
         UNCHANGED <<body, unit, part, names, gen, outs, instances>>
  PROVE  Inv'
<1>1. todo \in Seq(Frame) /\ names \in Seq(Name)
  BY WalkFacts DEF Lowers
<1>2. Ledger(gen.calc, todo', names, outs, resSuffix')
  BY <1>1, LedgerReplace DEF Inv, Collected
<1>3. resSuffix \in Int /\ resSuffix' \in Int /\ resSuffix <= resSuffix'
  BY DEF Inv, Collected, Ledger
<1>4. GenOK(gen, resSuffix')
  <2>1. 0 .. resSuffix \subseteq 0 .. resSuffix'
    BY <1>3
  <2> QED
    BY <2>1 DEF Inv, Collected, GenOK
<1>5. NamesIn(names, Len(gen.argList), resSuffix')
  <2>1. \A i \in 1 .. Len(names) : names[i][2] \in Nat
    BY <1>1 DEF Name
  <2> QED
    BY <1>3, <2>1 DEF Inv, Collected, NamesIn
<1>6. Sends(outs, resSuffix')
  BY <1>3 DEF Inv, Collected, Sends
<1>7. Collected'
  BY <1>2, <1>4, <1>5, <1>6 DEF Collected
<1> QED
  BY <1>7, LowersOn

\* A cast leaves its operand.
LEMMA CastStep ==
  ASSUME Inv, NEW op, op \in {"cast", "bool"}, At("call", {op}),
         todo' = Calls(Next1.e.args) \o Tail(todo),
         UNCHANGED <<body, unit, part, names, resSuffix, gen, outs, instances>>
  PROVE  Inv'
<1>1. /\ Lowers /\ todo # <<>> /\ todo \in Seq(Frame) /\ Next1 = todo[1] /\ todo[1].e \in Exprs
      /\ todo[1].do = "call" /\ todo[1].e.op = op
  BY AtFacts
<1>2. PICK e \in Exprs : e = todo[1].e
  BY <1>1
<1>3. Len(e.args) = 1
  <2>1. Arity(e.op) = 1
    BY <1>1, <1>2 DEF Arity
  <2> QED
    BY <2>1, ExprFacts
<1>4. PICK h : Planned(h, todo, names, resSuffix, 1)
  BY <1>1 DEF Lowers, Walk
<1>5. /\ Calls(e.args) \in Seq(Frame) /\ Len(Calls(e.args)) = 1
      /\ Calls(e.args)[1] = Call(e.args[1])
      /\ \E d : Planned(d, Calls(e.args) \o Tail(todo), names, resSuffix, 1)
  BY <1>1, <1>2, <1>3, <1>4, PlanCast
<1>6. Call(e.args[1]).do = "call" /\ Call(e.args[1]).e = e.args[1]
  BY DEF Call
<1>7. Linked(Root, Calls(e.args) \o Tail(todo), names)
  <2>1. UnderCasts[e.args[1]] = UnderCasts[e]
    BY <1>1, <1>2, UnderCastsOf
  <2>2. Linked(Root, todo, names)
    BY <1>1 DEF Lowers, Walk
  <2>3. Calls(e.args) # <<>>
    BY <1>5
  <2> QED
    BY <1>1, <1>2, <1>5, <1>6, <2>1, <2>2, <2>3, LinkedReplace
<1>8. todo' = Calls(e.args) \o Tail(todo)
  BY <1>1, <1>2
<1>9. Walk(Root, todo', names, resSuffix')
  BY <1>5, <1>7, <1>8 DEF Walk
<1>10. \A j \in 1 .. Len(Calls(e.args)) : ~IsConcat(Calls(e.args)[j])
  BY <1>5, <1>6 DEF IsConcat
<1> QED
  BY <1>1, <1>5, <1>8, <1>9, <1>10, ReplaceStep

\* An integer cast does.
LEMMA CallCastStep == ASSUME Inv, CallCast PROVE Inv'
<1>1. At("call", {"cast"}) /\ todo' = Calls(Next1.e.args) \o Tail(todo)
  BY DEF CallCast
<1>2. UNCHANGED <<body, unit, part, names, resSuffix, gen, outs, instances>>
  BY DEF CallCast, genVars, libVars
<1> QED
  BY <1>1, <1>2, CastStep

\* A bool cast does.
LEMMA CallBoolStep == ASSUME Inv, CallBool PROVE Inv'
<1>1. At("call", {"bool"}) /\ todo' = Calls(Next1.e.args) \o Tail(todo)
  BY DEF CallBool
<1>2. UNCHANGED <<body, unit, part, names, resSuffix, gen, outs, instances>>
  BY DEF CallBool, genVars, libVars
<1> QED
  BY <1>1, <1>2, CastStep
-----------------------------------------------------------------------------
\* An operator leaves its operands and its statement.
LEMMA OperandsStep ==
  ASSUME Inv, NEW ops, At("call", ops), NEW key \in Nat,
         todo' = OperandFrames(Next1.e, key) \o Tail(todo),
         \/ resSuffix' = resSuffix /\ Next1.e.op # "concat"
         \/ resSuffix' = resSuffix + 1 /\ Next1.e.op = "concat" /\ key = resSuffix',
         UNCHANGED <<body, unit, part, names, gen, outs, instances>>
  PROVE  Inv'
<1>1. /\ Lowers /\ todo # <<>> /\ todo \in Seq(Frame) /\ Next1 = todo[1] /\ todo[1].e \in Exprs
      /\ todo[1].do = "call" /\ resSuffix \in Int
  BY AtFacts
<1>2. PICK e \in Exprs : e = todo[1].e
  BY <1>1
<1>3. PICK h : Planned(h, todo, names, resSuffix, 1)
  BY <1>1 DEF Lowers, Walk
<1>4. resSuffix' \in Int /\ resSuffix <= resSuffix' /\ (e.op = "concat" => key = resSuffix')
  BY <1>1, <1>2
<1> DEFINE p == OperandFrames(e, key)
<1>5. /\ p \in Seq(Frame) /\ Len(p) = Len(e.args) + 1 /\ p[Len(e.args) + 1] = Emit(e, key)
      /\ \A i \in 1 .. Len(e.args) : p[i] = Call(e.args[i])
  BY OperandFramesFacts
<1>15. \E d : Planned(d, p \o Tail(todo), names, resSuffix', 1)
  BY <1>1, <1>2, <1>3, <1>4, PlanOperands
<1>6. todo' = p \o Tail(todo)
  BY <1>1, <1>2
<1> HIDE DEF p
<1>7. Len(e.args) \in Nat
  BY ExprFacts
<1>8. /\ \A x : Call(x).do = "call"
      /\ Emit(e, key).do = "emit" /\ Emit(e, key).e = e /\ Emit(e, key).key = key
  BY DEF Call, Emit
<1>9. Linked(Root, p \o Tail(todo), names)
  <2>1. p # <<>> /\ p[Len(p)].do = "emit"
    BY <1>5, <1>7, <1>8
  <2>2. Linked(Root, todo, names)
    BY <1>1 DEF Lowers, Walk
  <2> QED
    BY <1>1, <1>5, <2>1, <2>2, LinkedReplace
<1>10. Walk(Root, todo', names, resSuffix')
  BY <1>6, <1>9, <1>15 DEF Walk
<1>11. \A j \in 1 .. Len(p) : IsConcat(p[j]) => j = Len(p) /\ e.op = "concat" /\ p[j].key = key
  <2>1. \A j \in 1 .. Len(p) : j \in 1 .. Len(e.args) \/ j = Len(e.args) + 1
    BY <1>5, <1>7
  <2> QED
    BY <1>5, <1>8, <2>1 DEF IsConcat
<1>12. e.op = "concat" => \E j \in 1 .. Len(p) : IsConcat(p[j])
  <2>1. Len(e.args) + 1 \in 1 .. Len(p)
    BY <1>5, <1>7
  <2> QED
    BY <1>5, <1>8, <2>1 DEF IsConcat
<1>13. \/ resSuffix' = resSuffix /\ \A j \in 1 .. Len(p) : ~IsConcat(p[j])
       \/ /\ resSuffix' = resSuffix + 1
          /\ \A j \in 1 .. Len(p) : IsConcat(p[j]) => j = Len(p) /\ p[j].key = resSuffix'
          /\ \E j \in 1 .. Len(p) : IsConcat(p[j])
  BY <1>1, <1>2, <1>11, <1>12
<1>14. todo[1].do # "emit"
  BY <1>1
<1> QED
  BY <1>1, <1>5, <1>6, <1>10, <1>13, <1>14, ReplaceStep

\* A unary or binary operator takes no name yet.
LEMMA CallOperatorStep == ASSUME Inv, CallOperator PROVE Inv'
<1>1. At("call", Operators) /\ todo' = OperandFrames(Next1.e, 0) \o Tail(todo)
  BY DEF CallOperator, OperandFrames
<1>2. UNCHANGED <<body, unit, part, names, resSuffix, gen, outs, instances>>
  BY DEF CallOperator, genVars, libVars
<1>3. Next1.e.op # "concat"
  BY <1>1 DEF At, Operators
<1> QED
  BY <1>1, <1>2, <1>3, OperandsStep

\* A concatenation takes its name before its operands are lowered.
LEMMA CallConcatStep == ASSUME Inv, CallConcat PROVE Inv'
<1>1. /\ At("call", {"concat"}) /\ resSuffix' = resSuffix + 1
      /\ todo' = OperandFrames(Next1.e, resSuffix + 1) \o Tail(todo)
  BY DEF CallConcat, OperandFrames
<1>2. UNCHANGED <<body, unit, part, names, gen, outs, instances>>
  BY DEF CallConcat, libVars
<1>3. Next1.e.op = "concat"
  BY <1>1 DEF At
<1>4. resSuffix + 1 \in Nat
  BY <1>1, AtFacts
<1> QED
  BY <1>1, <1>2, <1>3, <1>4, OperandsStep

\* A query lowers its condition first.
LEMMA CallQueryStep == ASSUME Inv, CallQuery PROVE Inv'
<1>1. At("call", {"query"}) /\ todo' = QueryFrames(Next1.e) \o Tail(todo)
  BY DEF CallQuery, QueryFrames
<1>2. UNCHANGED <<body, unit, part, names, resSuffix, gen, outs, instances>>
  BY DEF CallQuery, genVars, libVars
<1>3. /\ Lowers /\ todo # <<>> /\ todo \in Seq(Frame) /\ Next1 = todo[1] /\ todo[1].e \in Exprs
      /\ todo[1].do = "call" /\ todo[1].e.op = "query"
  BY <1>1, AtFacts
<1>4. PICK e \in Exprs : e = todo[1].e
  BY <1>3
<1>5. PICK h : Planned(h, todo, names, resSuffix, 1)
  BY <1>3 DEF Lowers, Walk
<1> DEFINE p == QueryFrames(e)
<1>6. /\ p \in Seq(Frame) /\ Len(p) = 5 /\ p[5] = Emit(e, 0)
      /\ \A i \in 1 .. 5 : ~IsConcat(p[i])
      /\ \E d : Planned(d, p \o Tail(todo), names, resSuffix, 1)
  BY <1>3, <1>4, <1>5, PlanQuery
<1>7. todo' = p \o Tail(todo)
  BY <1>1, <1>3, <1>4
<1> HIDE DEF p
<1>8. Linked(Root, p \o Tail(todo), names)
  <2>1. p # <<>> /\ p[Len(p)].do = "emit"
    <3>1. Emit(e, 0).do = "emit"
      BY DEF Emit
    <3> QED
      BY <1>6, <3>1, SMTT(30)
  <2>2. Linked(Root, todo, names)
    BY <1>3 DEF Lowers, Walk
  <2> QED
    BY <1>3, <1>6, <2>1, <2>2, LinkedReplace
<1>9. Walk(Root, todo', names, resSuffix')
  BY <1>2, <1>6, <1>7, <1>8 DEF Walk
<1>10. resSuffix' = resSuffix /\ \A j \in 1 .. Len(p) : ~IsConcat(p[j])
  BY <1>2, <1>6
<1>11. todo[1].do # "emit"
  BY <1>3
<1> QED
  BY <1>2, <1>3, <1>6, <1>7, <1>9, <1>10, <1>11, ReplaceStep

\* The condition of a query is lowered, and has a result if it is no constant.
LEMMA ReturnConditionStep == ASSUME Inv, ReturnCondition PROVE Inv'
<1>1. At("end", {"query"}) /\ todo' = Tail(todo)
  BY DEF ReturnCondition
<1>2. UNCHANGED <<body, unit, part, names, resSuffix, gen, outs, instances>>
  BY DEF ReturnCondition, genVars, libVars
<1>3. Lowers /\ todo # <<>> /\ todo \in Seq(Frame) /\ todo[1].do = "end"
  BY <1>1, AtFacts
<1>4. PICK h : Planned(h, todo, names, resSuffix, 1)
  BY <1>3 DEF Lowers, Walk
<1>5. /\ <<>> \in Seq(Frame) /\ \A j \in 1 .. Len(<<>>) : ~IsConcat(<<>>[j])
      /\ todo' = <<>> \o Tail(todo)
  BY <1>1, <1>3, EmptyJoin
<1>6. \E d : Planned(d, Tail(todo), names, resSuffix, 1)
  BY <1>3, <1>4, PlanEnd
<1>7. Linked(Root, todo', names)
  <2>1. Linked(Root, todo, names)
    BY <1>3 DEF Lowers, Walk
  <2> QED
    BY <1>3, <1>5, <2>1, LinkedReplace
<1>8. Walk(Root, todo', names, resSuffix')
  BY <1>1, <1>2, <1>6, <1>7 DEF Walk
<1>9. todo[1].do # "emit"
  BY <1>3
<1> QED
  BY <1>2, <1>3, <1>5, <1>8, <1>9, ReplaceStep

\* An emit that assigns res<to> and returns res<key>.
LEMMA EmitStep ==
  ASSUME Inv, NEW ops, At("emit", ops), NEW to, NEW key \in Nat, NEW w,
         NEW st \in Statement, st = [to |-> to, op |-> Next1.e.op, args |-> Operands(Len(Next1.e.args))],
         Generate(to, key, Next1.e.op, Operands(Len(Next1.e.args)), w),
         Return(Len(Next1.e.args), <<"res", key>>), todo' = Tail(todo),
         resSuffix' \in Int, resSuffix <= resSuffix', key <= resSuffix',
         Ledger(Append(gen.calc, st), Tail(todo), names', outs, resSuffix'),
         UNCHANGED <<body, unit, part, outs, instances>>
  PROVE  Inv'
<1>1. /\ Lowers /\ todo # <<>> /\ todo \in Seq(Frame) /\ names \in Seq(Name)
      /\ Next1 = todo[1] /\ todo[1].e \in Exprs /\ todo[1].do = "emit"
      /\ Len(todo[1].e.args) <= Len(names) /\ resSuffix \in Int
  BY AtFacts
<1>2. GenOK(gen, resSuffix) /\ gen.calc \in Seq(Statement)
  BY DEF Inv, Collected, Ledger
<1>3. GenOK(gen', resSuffix') /\ gen'.calc = Append(gen.calc, st) /\ gen'.argList = gen.argList
  BY <1>1, <1>2, GenerateFacts
<1>4. PICK x \in Name : x = <<"res", key>>
  BY DEF Name
<1>5. names' = Append(SubSeq(names, 1, Len(names) - Len(todo[1].e.args)), x)
  BY <1>1, <1>4 DEF Return
<1>6. Walk(Root, Tail(todo), names', resSuffix')
  <2>1. Walk(Root, todo, names, resSuffix) /\ todo[1].do # "end" /\ x[1] = "res"
    BY <1>1, <1>4 DEF Lowers
  <2>2. Len(todo[1].e.args) = (IF todo[1].do = "emit" THEN Len(todo[1].e.args) ELSE 0)
    BY <1>1
  <2> QED
    BY <1>1, <1>5, <2>1, <2>2, WalkReturn
<1>7. NamesIn(names', Len(gen'.argList), resSuffix')
  <2>1. /\ Len(gen.argList) \in Int /\ Len(gen'.argList) = Len(gen.argList)
        /\ Len(gen.argList) <= Len(gen'.argList)
        /\ NamesIn(names, Len(gen.argList), resSuffix)
    BY <1>2, <1>3, AppendIsSeq DEF Inv, Collected, GenOK
  <2>2. Len(todo[1].e.args) \in Nat
    BY <1>1, ExprFacts
  <2>3. x[1] = "res" /\ x[2] <= resSuffix' /\ x[1] # "x"
    BY <1>4
  <2> QED
    BY <1>1, <1>5, <2>1, <2>2, <2>3, NamesInReturn
<1>8. Sends(outs', resSuffix')
  BY <1>1 DEF Inv, Collected, Sends
<1>9. Collected'
  BY <1>3, <1>7, <1>8 DEF Collected
<1> QED
  BY <1>1, <1>6, <1>9, LowersOn

\* An operator or a query assigns the next result.
LEMMA EmitNextStep ==
  ASSUME Inv, NEW ops, At("emit", ops), "concat" \notin ops, NEW w,
         resSuffix' = resSuffix + 1,
         Generate(resSuffix + 1, resSuffix + 1, Next1.e.op, Operands(Len(Next1.e.args)), w),
         Return(Len(Next1.e.args), <<"res", resSuffix + 1>>), todo' = Tail(todo),
         UNCHANGED <<body, unit, part, outs, instances>>
  PROVE  Inv'
<1>1. /\ Lowers /\ todo # <<>> /\ todo \in Seq(Frame) /\ names \in Seq(Name)
      /\ Next1 = todo[1] /\ todo[1].e \in Exprs /\ todo[1].do = "emit" /\ todo[1].e.op \in ops
      /\ Len(todo[1].e.args) <= Len(names) /\ resSuffix \in Int /\ resSuffix >= -1
  BY AtFacts
<1>2. PICK k \in Nat : k = Len(todo[1].e.args)
  BY <1>1, ExprFacts
<1>3. PICK st : st = [to |-> resSuffix + 1, op |-> todo[1].e.op, args |-> Operands(k)]
  OBVIOUS
<1>4. st \in Statement
  <2>1. Operands(k) = Taken(names, k)
    BY DEF Operands, Taken
  <2>2. Operands(k) \in Seq(Name)
    BY <1>1, <1>2, <2>1, TakenFacts
  <2>3. todo[1].e.op \in Ops /\ resSuffix + 1 \in Nat
    BY <1>1, ExprFacts
  <2> QED
    BY <1>3, <2>2, <2>3 DEF Statement
<1>5. Ledger(Append(gen.calc, st), Tail(todo), names', outs, resSuffix + 1)
  <2>1. PICK args : args = SubSeq(names, Len(names) - k + 1, Len(names))
    OBVIOUS
  <2>2. st = [to |-> resSuffix + 1, op |-> todo[1].e.op, args |-> args]
    BY <1>3, <2>1 DEF Operands
  <2>3. names' = Append(SubSeq(names, 1, Len(names) - k), <<"res", resSuffix + 1>>)
    BY <1>1, <1>2 DEF Return
  <2>4. ~IsConcat(todo[1]) /\ k <= Len(names)
    BY <1>1, <1>2 DEF IsConcat
  <2>5. Ledger(gen.calc, todo, names, outs, resSuffix)
    BY DEF Inv, Collected
  <2> QED
    BY <1>1, <2>1, <2>2, <2>3, <2>4, <2>5, LedgerEmit
<1>6. /\ resSuffix + 1 \in Nat /\ resSuffix' \in Int /\ resSuffix <= resSuffix'
      /\ resSuffix + 1 <= resSuffix'
  BY <1>1
<1>7. st = [to |-> resSuffix + 1, op |-> Next1.e.op, args |-> Operands(Len(Next1.e.args))]
  BY <1>1, <1>2, <1>3
<1>8. Ledger(Append(gen.calc, st), Tail(todo), names', outs, resSuffix')
  BY <1>5
<1> QED
  BY <1>4, <1>6, <1>7, <1>8, EmitStep

\* The statement of an operator.
LEMMA EmitOperatorStep == ASSUME Inv, EmitOperator PROVE Inv'
<1>1. /\ At("emit", Operators) /\ resSuffix' = resSuffix + 1
      /\ Generate(resSuffix + 1, resSuffix + 1, Next1.e.op, Operands(Len(Next1.e.args)), Width)
      /\ Return(Len(Next1.e.args), <<"res", resSuffix + 1>>) /\ todo' = Tail(todo)
  BY DEF EmitOperator
<1>2. UNCHANGED <<body, unit, part, outs, instances>>
  BY DEF EmitOperator, libVars
<1>3. "concat" \notin Operators
  BY DEF Operators
<1> QED
  BY <1>1, <1>2, <1>3, EmitNextStep

\* The statement of a query.
LEMMA EmitQueryStep == ASSUME Inv, EmitQuery PROVE Inv'
<1>1. /\ At("emit", {"query"}) /\ resSuffix' = resSuffix + 1
      /\ Generate(resSuffix + 1, resSuffix + 1, "query", Operands(3), Width)
      /\ Return(3, <<"res", resSuffix + 1>>) /\ todo' = Tail(todo)
  BY DEF EmitQuery
<1>2. UNCHANGED <<body, unit, part, outs, instances>>
  BY DEF EmitQuery, libVars
<1>3. Next1.e.op = "query" /\ Len(Next1.e.args) = 3
  <2>1. Next1.e.op = "query"
    BY <1>1 DEF At
  <2>2. Next1.e \in Exprs
    BY <1>1, AtFacts
  <2>3. Arity(Next1.e.op) = 3
    BY <2>1 DEF Arity
  <2> QED
    BY <2>1, <2>2, <2>3, ExprFacts
<1>4. "concat" \notin {"query"}
  OBVIOUS
<1> QED
  BY <1>1, <1>2, <1>3, <1>4, EmitNextStep

\* The statement of a concatenation assigns the latest result.
LEMMA EmitConcatStep == ASSUME Inv, EmitConcat PROVE Inv'
<1>1. /\ At("emit", {"concat"})
      /\ Generate(resSuffix, Next1.key, "concat", Operands(Len(Next1.e.args)), Width)
      /\ Return(Len(Next1.e.args), <<"res", Next1.key>>) /\ todo' = Tail(todo)
  BY DEF EmitConcat
<1>2. UNCHANGED <<body, unit, part, resSuffix, outs, instances>>
  BY DEF EmitConcat, libVars
<1>3. /\ Lowers /\ todo # <<>> /\ todo \in Seq(Frame) /\ names \in Seq(Name)
      /\ Next1 = todo[1] /\ todo[1].e \in Exprs /\ todo[1].do = "emit"
      /\ todo[1].e.op = "concat"
      /\ Len(todo[1].e.args) <= Len(names) /\ resSuffix \in Int
  BY <1>1, AtFacts
<1>4. PICK k \in Nat : k = Len(todo[1].e.args)
  BY <1>3, ExprFacts
<1>5. Ledger(gen.calc, todo, names, outs, resSuffix) /\ IsConcat(todo[1])
  BY <1>3 DEF Inv, Collected, IsConcat
<1>6. todo[1].key \in 0 .. resSuffix /\ resSuffix \in Nat
  <2>1. todo[1].key \in Keys(todo) /\ Keys(todo) \subseteq 0 .. resSuffix
    BY <1>3, <1>5, KeysTailConcat DEF Ledger
  <2> QED
    BY <1>3, <2>1
<1>7. PICK key \in Nat : key = todo[1].key
  BY <1>6
<1>8. PICK st : st = [to |-> resSuffix, op |-> "concat", args |-> Operands(k)]
  OBVIOUS
<1>9. st \in Statement
  <2>1. Operands(k) = Taken(names, k)
    BY DEF Operands, Taken
  <2>2. Operands(k) \in Seq(Name)
    BY <1>3, <1>4, <2>1, TakenFacts
  <2>3. "concat" \in Ops
    BY DEF Ops
  <2> QED
    BY <1>6, <1>8, <2>2, <2>3 DEF Statement
<1>10. PICK h : Planned(h, todo, names, resSuffix, 1)
  BY <1>3 DEF Lowers, Walk
<1>11. Ledger(Append(gen.calc, st), Tail(todo), names', outs, resSuffix)
  <2>1. PICK args : args = SubSeq(names, Len(names) - Len(todo[1].e.args) + 1, Len(names))
    OBVIOUS
  <2>2. st = [to |-> resSuffix, op |-> "concat", args |-> args]
    BY <1>4, <1>8, <2>1 DEF Operands
  <2>3. names' = Append(SubSeq(names, 1, Len(names) - Len(todo[1].e.args)), <<"res", todo[1].key>>)
    BY <1>1, <1>3 DEF Return
  <2> QED
    BY <1>3, <1>5, <1>10, <2>1, <2>2, <2>3, LedgerConcat
<1>12. /\ Generate(resSuffix, key, Next1.e.op, Operands(Len(Next1.e.args)), Width)
       /\ Return(Len(Next1.e.args), <<"res", key>>)
       /\ st = [to |-> resSuffix, op |-> Next1.e.op, args |-> Operands(Len(Next1.e.args))]
  BY <1>1, <1>3, <1>4, <1>7, <1>8
<1>13. resSuffix' \in Int /\ resSuffix <= resSuffix' /\ key <= resSuffix'
  BY <1>2, <1>3, <1>6, <1>7
<1>14. Ledger(Append(gen.calc, st), Tail(todo), names', outs, resSuffix')
  BY <1>2, <1>11
<1> QED
  BY <1>1, <1>2, <1>9, <1>12, <1>13, <1>14, EmitStep
-----------------------------------------------------------------------------
\* Nothing of it changes.
LEMMA UnchangedInv ==
  ASSUME Inv, UNCHANGED <<body, unit, part, todo, names, resSuffix, gen, outs, instances>>
  PROVE  Inv'
<1>1. Collected' /\ (Idles \/ Lowers)' /\ Past'
  BY DEF Inv, Collected, Idles, Lowers, Past, Root
<1> QED
  BY <1>1 DEF Inv

\* The empty sequence.
LEMMA EmptyFacts ==
  /\ Keys(<<>>) = {} /\ DistinctKeys(<<>>) /\ To(<<>>) = {} /\ <<>> \in Seq(Statement)
  /\ IsSeq(<<>>) /\ Len(<<>>) = 0 /\ DOMAIN <<>> = {}
<1>1. Len(<<>>) = 0 /\ DOMAIN <<>> = {} /\ 1 .. Len(<<>>) = {}
  OBVIOUS
<1>2. Keys(<<>>) = {} /\ DistinctKeys(<<>>) /\ To(<<>>) = {}
  BY <1>1 DEF Keys, DistinctKeys, To
<1>3. <<>> \in Seq(Statement)
  OBVIOUS
<1> QED
  BY <1>1, <1>2, <1>3, SeqIsSeq

\* Nothing is generated when a unit starts.
LEMMA CollectedNone ==
  /\ GenOK(EmptyGen, -1) /\ Ledger(EmptyGen.calc, <<>>, <<>>, <<>>, -1)
  /\ NamesIn(<<>>, Len(EmptyGen.argList), -1) /\ Sends(<<>>, -1)
<1>1. /\ EmptyGen.argList = <<>> /\ EmptyGen.argBW = <<>> /\ EmptyGen.resBWList = <<>>
      /\ EmptyGen.calc = <<>> /\ EmptyGen.hidden = <<>>
  BY DEF EmptyGen
<1>2. GenOK(EmptyGen, -1)
  <2>1. EmptyGen = [argList |-> EmptyGen.argList, argBW |-> EmptyGen.argBW,
                    resBWList |-> EmptyGen.resBWList, calc |-> EmptyGen.calc,
                    hidden |-> EmptyGen.hidden]
    BY DEF EmptyGen
  <2> QED
    BY <1>1, <2>1, EmptyFacts DEF GenOK
<1>3. Ledger(<<>>, <<>>, <<>>, <<>>, -1)
  <2>1. Cardinality({}) = 0 /\ 0 .. -1 = {}
    BY FS_EmptySet
  <2>2. Len(<<>>) + Cardinality(Keys(<<>>)) = -1 + 1
    <3>1. Cardinality(Keys(<<>>)) = 0
      BY <2>1, EmptyFacts
    <3>2. Len(<<>>) = 0 /\ 0 + 0 = -1 + 1
      BY EmptyFacts
    <3> QED
      BY ONLY <3>1, <3>2
  <2>3. Sequenced(<<>>, <<>>)
    BY EmptyFacts, SequencedIs
  <2>4. To(<<>>) = (0 .. -1) \ Keys(<<>>) /\ \A i \in 1 .. Len(<<>>) : FALSE
    BY <2>1, EmptyFacts
  <2>5. -1 \in Int /\ -1 >= -1 /\ Keys(<<>>) \subseteq 0 .. -1
    BY EmptyFacts
  <2> QED
    BY <2>2, <2>3, <2>4, <2>5, EmptyFacts DEF Ledger
<1>4. NamesIn(<<>>, Len(<<>>), -1) /\ Sends(<<>>, -1)
  BY EmptyFacts DEF NamesIn, Sends
<1> QED
  BY <1>1, <1>2, <1>3, <1>4

\* Nothing is generated at the start.
LEMMA InitInv == Init => Inv
<1> SUFFICES ASSUME Init PROVE Inv
  OBVIOUS
<1>1. Collected
  BY CollectedNone DEF Init, Collected
<1>2. Idles
  BY DEF Init, Idles
<1>3. Past
  BY EmptyFacts DEF Init, Past
<1> QED
  BY <1>1, <1>2, <1>3 DEF Init, Inv

\* The units of a body and the roots of a unit.
LEMMA BodyFacts ==
  ASSUME body \in Bodies, NEW u \in 1 .. Len(body)
  PROVE  /\ body[u].exprs \in Seq(Exprs)
         /\ \A j \in 1 .. Len(body[u].exprs) :
              /\ body[u].exprs[j] \in Exprs
              /\ UnderCasts[body[u].exprs[j]].op = "int" => body[u].exprs[j].op = "int"
<1>1. body \in Seq({body[i] : i \in DOMAIN body})
  BY BodyAssumption
<1>2. u \in DOMAIN body
  BY <1>1
<1>3. body[u].exprs \in Seq(Exprs)
  BY <1>2, BodyAssumption
<1>4. DOMAIN body[u].exprs = 1 .. Len(body[u].exprs)
  BY <1>3
<1> QED
  BY <1>2, <1>3, <1>4, BodyAssumption

\* A unit with a source sends constants.
LEMMA CreateSourceStep == ASSUME Inv, CreateSource PROVE Inv'
<1>1. part' = part + 1 /\ todo = <<>> /\ names = <<>>
  BY DEF CreateSource, Between
<1>2. UNCHANGED <<body, unit, todo, names, resSuffix, gen, outs, instances>>
  BY DEF CreateSource, genVars, libVars
<1>3. Collected' /\ Idles' /\ Past'
  BY <1>1, <1>2 DEF Inv, Collected, Idles, Past
<1>4. part' \in Nat \ {0}
  BY <1>1 DEF Inv
<1> QED
  BY <1>2, <1>3, <1>4 DEF Inv

\* A part of a unit starts: a literal is done, another root is called.
LEMMA LowerPartStep == ASSUME Inv, LowerPart PROVE Inv'
<1>1. /\ todo = <<>> /\ names = <<>> /\ unit <= Len(body) /\ part <= Len(body[unit].exprs)
      /\ Root.op # "int" /\ todo' = <<Call(Root)>>
  BY DEF LowerPart, Between
<1>2. UNCHANGED <<body, unit, part, names, resSuffix, gen, outs, instances>>
  BY DEF LowerPart, genVars, libVars
<1>3. unit \in 1 .. Len(body) /\ part \in 1 .. Len(body[unit].exprs) /\ Root \in Exprs
  <2>1. body \in Seq({body[i] : i \in DOMAIN body})
    BY BodyAssumption DEF Inv
  <2>2. Len(body) \in Nat
    BY <2>1
  <2>3. unit \in 1 .. Len(body)
    BY <1>1, <2>2 DEF Inv
  <2>4. body[unit].exprs \in Seq(Exprs)
    BY <2>3, BodyFacts DEF Inv
  <2>5. Len(body[unit].exprs) \in Nat
    BY <2>4
  <2>6. part \in 1 .. Len(body[unit].exprs)
    BY <1>1, <2>5 DEF Inv
  <2> QED
    BY <2>3, <2>6, BodyFacts DEF Inv, Root
<1>4. /\ resSuffix \in Int /\ GenOK(gen, resSuffix)
      /\ Ledger(gen.calc, <<>>, <<>>, outs, resSuffix)
      /\ NamesIn(<<>>, Len(gen.argList), resSuffix) /\ Sends(outs, resSuffix)
  BY <1>1 DEF Inv, Collected, Ledger
<1>5. PICK q : q = <<Call(Root)>>
  OBVIOUS
<1>6. Call(Root) \in Frame /\ Call(Root).do = "call" /\ Call(Root).e = Root
  BY <1>3, FrameFacts DEF Call
<1>7. q \in Seq(Frame) /\ Len(q) = 1 /\ q[1] = Call(Root) /\ q # <<>>
  BY <1>5, <1>6
<1>8. Keys(q) = {} /\ DistinctKeys(q)
  <2>1. \A i \in 1 .. Len(q) : i = 1
    BY <1>7
  <2> QED
    BY <1>6, <1>7, <2>1 DEF Keys, DistinctKeys, IsConcat
<1>9. Ledger(gen.calc, q, <<>>, outs, resSuffix)
  <2>1. Keys(q) = Keys(<<>>)
    BY <1>8, EmptyFacts
  <2> QED
    BY ONLY <1>4, <1>8, <2>1 DEF Ledger
<1>10. Walk(Root, q, <<>>, resSuffix)
  <2>1. \E h : Planned(h, q, <<>>, resSuffix, 1)
    BY <1>3, <1>4, <1>5, PlanStart
  <2>2. Linked(Root, q, <<>>)
    BY <1>6, <1>7 DEF Linked
  <2> QED
    BY <2>1, <2>2 DEF Walk
<1>11. Collected' /\ Lowers' /\ Past'
  <2>1. Collected'
    BY <1>1, <1>2, <1>4, <1>5, <1>9 DEF Collected
  <2>2. Lowers'
    BY <1>1, <1>2, <1>3, <1>5, <1>10 DEF Lowers, Root
  <2>3. Past'
    BY <1>2 DEF Inv, Past
  <2> QED
    BY <2>1, <2>2, <2>3
<1> QED
  BY <1>2, <1>11 DEF Inv

\* A part ends: the name of the root is sent, copied first if it is an argument.
LEMMA EndPartStep == ASSUME Inv, EndPart PROVE Inv'
<1>1. todo = <<>> /\ names # <<>> /\ part' = part + 1 /\ names' = <<>>
  BY DEF EndPart
<1>2. UNCHANGED <<body, unit, todo, instances>>
  BY DEF EndPart, libVars
<1>3. PICK x : outs' = Append(outs, x) /\ x.res = resSuffix'
  <2>1. PICK x : x = [res |-> resSuffix', bw |-> body[unit].outBW[part]]
    OBVIOUS
  <2>2. outs' = Append(outs, x)
    BY <2>1 DEF EndPart
  <2> QED
    BY <2>1, <2>2
<1>4. /\ Lowers /\ Linked(Root, <<>>, names) /\ names \in Seq(Name) /\ Root \in Exprs
      /\ UnderCasts[Root].op # "int"
  <2>1. Lowers
    BY <1>1 DEF Inv, Idles
  <2>2. Linked(Root, <<>>, names) /\ names \in Seq(Name)
    BY <1>1, <2>1, WalkFacts DEF Lowers, Walk
  <2>3. UnderCasts[Root].op # "int"
    BY <2>1, BodyFacts DEF Inv, Lowers, Root
  <2> QED
    BY <2>1, <2>2, <2>3 DEF Lowers
<1>5. /\ resSuffix \in Int /\ resSuffix >= -1 /\ gen.calc \in Seq(Statement) /\ IsSeq(outs)
      /\ GenOK(gen, resSuffix) /\ Ledger(gen.calc, <<>>, names, outs, resSuffix)
      /\ NamesIn(names, Len(gen.argList), resSuffix) /\ Sends(outs, resSuffix)
  BY <1>1 DEF Inv, Collected, Ledger
<1>6. /\ resSuffix' \in Int /\ resSuffix' >= 0 /\ resSuffix <= resSuffix'
      /\ GenOK(gen', resSuffix') /\ Ledger(gen'.calc, <<>>, names, outs, resSuffix')
  <2>1. CASE OnlyVar(Root)
    <3>1. /\ resSuffix' = resSuffix + 1
          /\ Generate(resSuffix + 1, resSuffix + 1, "port", names, Width)
      BY <2>1 DEF EndPart
    <3>2. PICK st : st = [to |-> resSuffix + 1, op |-> "port", args |-> names]
      OBVIOUS
    <3>3. resSuffix + 1 \in Nat /\ resSuffix + 1 \in Int /\ resSuffix + 1 <= resSuffix + 1
          /\ resSuffix <= resSuffix + 1
      BY <1>5
    <3>4. st \in Statement
      BY <1>4, <3>2, <3>3 DEF Statement
    <3>5. Ledger(Append(gen.calc, st), <<>>, names, outs, resSuffix + 1)
      BY <1>4, <1>5, <3>2, LedgerCopy
    <3>6. GenOK(gen', resSuffix + 1) /\ gen'.calc = Append(gen.calc, st)
      BY <1>5, <3>1, <3>2, <3>3, <3>4, GenerateFacts
    <3> QED
      BY <3>1, <3>3, <3>5, <3>6
  <2>2. CASE ~OnlyVar(Root)
    <3>1. UNCHANGED <<resSuffix, gen>>
      BY <2>2 DEF EndPart, genVars
    <3>2. Len(names) = 1 /\ names[1][1] = "res"
      BY <1>4, <2>2 DEF Linked, OnlyVar
    <3>7. 1 \in 1 .. Len(names)
      BY <3>2
    <3>8. names[1] \in Name
      BY <1>4, <3>7
    <3>3. names[1][2] <= resSuffix /\ names[1] \in Name
      BY <1>5, <3>2, <3>7, <3>8 DEF NamesIn
    <3>4. names[1][2] \in Nat
      BY <3>3 DEF Name
    <3>5. resSuffix >= 0
      BY <1>5, <3>3, <3>4
    <3> QED
      BY <1>5, <3>1, <3>5
  <2> QED
    BY <2>1, <2>2
<1>7. Ledger(gen'.calc, <<>>, <<>>, outs', resSuffix')
  BY <1>3, <1>6, LedgerSend
<1>8. Sends(outs', resSuffix')
  <2>1. /\ DOMAIN Append(outs, x) = 1 .. Len(outs) + 1 /\ DOMAIN outs = 1 .. Len(outs)
        /\ Len(outs) \in Nat
        /\ Append(outs, x)[Len(outs) + 1] = x
        /\ \A i \in 1 .. Len(outs) : Append(outs, x)[i] = outs[i]
    BY <1>5, AppendIsSeq
  <2>2. \A i \in 1 .. Len(outs) + 1 : i \in 1 .. Len(outs) \/ i = Len(outs) + 1
    BY <2>1
  <2>3. 0 .. resSuffix \subseteq 0 .. resSuffix' /\ resSuffix' \in 0 .. resSuffix'
    BY <1>5, <1>6
  <2> QED
    BY <1>3, <1>5, <2>1, <2>2, <2>3 DEF Sends
<1>9. NamesIn(<<>>, Len(gen'.argList), resSuffix')
  BY EmptyFacts DEF NamesIn
<1>10. Collected' /\ Idles' /\ Past'
  BY <1>1, <1>2, <1>6, <1>7, <1>8, <1>9 DEF Inv, Collected, Idles, Past
<1>11. part' \in Nat \ {0}
  BY <1>1 DEF Inv
<1> QED
  BY <1>2, <1>10, <1>11 DEF Inv

\* A unit is printed, and the next starts empty.
LEMMA PrintUnitStep == ASSUME Inv, PrintUnit PROVE Inv'
<1>1. /\ todo = <<>> /\ names = <<>> /\ unit' = unit + 1 /\ part' = 1
      /\ resSuffix' = -1 /\ gen' = EmptyGen /\ outs' = <<>>
      /\ UNCHANGED <<body, todo, names>>
  BY DEF PrintUnit, Between
<1>2. Collected' /\ Idles'
  BY <1>1, CollectedNone DEF Collected, Idles
<1>3. Past'
  <2>1. CASE gen.calc = <<>>
    BY <2>1 DEF Inv, Past, PrintUnit, libVars
  <2>2. CASE gen.calc # <<>>
    <3>1. PICK i : instances' = Append(instances, i) /\ i.gen = gen /\ i.outs = outs
      <4>1. PICK i : i = [name |-> ProcName(body[unit]), of |-> unit, gen |-> gen, outs |-> outs,
                          instance |-> FUName(body[unit], gen.argBW, outs)]
        OBVIOUS
      <4>2. instances' = Append(instances, i)
        BY <2>2, <4>1 DEF PrintUnit
      <4> QED
        BY <4>1, <4>2
    <3>2. Straight(gen.calc) => Sequenced(gen.calc, outs)
      BY DEF Inv, Collected, Ledger
    <3>3. IsSeq(instances)
      BY DEF Inv, Past
    <3>4. /\ IsSeq(instances') /\ Len(instances) \in Nat
          /\ DOMAIN instances = 1 .. Len(instances)
          /\ DOMAIN instances' = 1 .. Len(instances) + 1
          /\ instances'[Len(instances) + 1] = i
          /\ \A n \in 1 .. Len(instances) : instances'[n] = instances[n]
      BY <3>1, <3>3, AppendIsSeq
    <3>5. \A n \in 1 .. Len(instances) + 1 : n \in 1 .. Len(instances) \/ n = Len(instances) + 1
      BY <3>4
    <3> QED
      BY <3>1, <3>2, <3>4, <3>5 DEF Inv, Past
  <2> QED
    BY <2>1, <2>2
<1>4. unit' \in Nat \ {0} /\ part' \in Nat \ {0}
  BY <1>1 DEF Inv
<1> QED
  BY <1>1, <1>2, <1>3, <1>4 DEF Inv

\* Every step keeps the invariant.
LEMMA NextInv == ASSUME Inv, [Next]_vars PROVE Inv'
<1>1. CASE CallInt BY <1>1, CallIntStep
<1>2. CASE CallVar BY <1>2, CallVarStep
<1>3. CASE CallCast BY <1>3, CallCastStep
<1>4. CASE CallBool BY <1>4, CallBoolStep
<1>5. CASE CallOperator BY <1>5, CallOperatorStep
<1>6. CASE CallQuery BY <1>6, CallQueryStep
<1>7. CASE CallConcat BY <1>7, CallConcatStep
<1>8. CASE EmitOperator BY <1>8, EmitOperatorStep
<1>9. CASE ReturnCondition BY <1>9, ReturnConditionStep
<1>10. CASE EmitQuery BY <1>10, EmitQueryStep
<1>11. CASE RejectQuery
  BY <1>11, UnchangedInv DEF RejectQuery, genVars, libVars
<1>12. CASE EmitConcat BY <1>12, EmitConcatStep
<1>13. CASE CreateSource BY <1>13, CreateSourceStep
<1>14. CASE LowerPart BY <1>14, LowerPartStep
<1>15. CASE EndPart BY <1>15, EndPartStep
<1>16. CASE PrintUnit BY <1>16, PrintUnitStep
<1>17. CASE UNCHANGED vars
  BY <1>17, UnchangedInv DEF vars, genVars, libVars
<1> QED
  BY <1>1, <1>2, <1>3, <1>4, <1>5, <1>6, <1>7, <1>8, <1>9, <1>10, <1>11, <1>12, <1>13,
     <1>14, <1>15, <1>16, <1>17 DEF Next

\* It implies the type invariant.
LEMMA InvTypeOK == ASSUME Inv PROVE TypeOK
<1>1. names \in Seq(Name) /\ DOMAIN todo = 1 .. Len(todo)
  <2>1. CASE Idles
    BY <2>1, EmptyFacts DEF Idles
  <2>2. CASE Lowers
    BY <2>2, WalkFacts DEF Lowers
  <2> QED
    BY <2>1, <2>2 DEF Inv
<1>2. Reserved = Keys(todo)
  BY <1>1 DEF Reserved, Concats, Keys, IsConcat
<1>3. /\ GenOK(gen, resSuffix) /\ Ledger(gen.calc, todo, names, outs, resSuffix)
      /\ NamesIn(names, Len(gen.argList), resSuffix) /\ Sends(outs, resSuffix)
  BY DEF Inv, Collected
<1>4. /\ Len(gen.resBWList) = Len(gen.calc) /\ Len(gen.argList) = Len(gen.argBW)
      /\ DOMAIN gen.hidden \subseteq 0 .. resSuffix /\ Len(gen.argList) \in Nat
  BY <1>3, AppendIsSeq DEF GenOK
<1>5. Len(gen.calc) + Cardinality(Keys(todo)) = resSuffix + 1 /\ resSuffix \in Int
  BY <1>3 DEF Ledger
<1>6. ASSUME NEW i \in DOMAIN names PROVE NameOK(names[i])
  <2>1. i \in 1 .. Len(names) /\ names[i] \in Name
    BY <1>1
  <2>2. /\ names[i][1] \in {"x", "res", "int"} /\ names[i][2] \in Nat
    BY <2>1 DEF Name
  <2>3. /\ names[i][1] = "x" => names[i][2] < Len(gen.argList)
        /\ names[i][1] = "res" => names[i][2] <= resSuffix
    BY <1>3, <2>1 DEF NamesIn
  <2> QED
    BY <1>4, <1>5, <2>2, <2>3 DEF NameOK
<1> QED
  BY <1>2, <1>3, <1>4, <1>5, <1>6 DEF TypeOK, Sends

\* What printExpr and DflowGenerator keep agrees at every step: lists of one
\* length, names on the stack that exist, every result named by a statement or by
\* a concatenation that waits, none sent before it is named.
THEOREM LoweringTypeOK == Spec => []TypeOK
<1>1. Inv /\ [Next]_vars => Inv'
  BY NextInv
<1>2. Inv => TypeOK
  BY InvTypeOK
<1> QED
  BY InitInv, <1>1, <1>2, PTL DEF Spec

\* The functions that printExpr generates, but for those that concatenate
\* calculated operands, assign every result once, before it is read or sent.
THEOREM SingleAssignmentAlways == Spec => []SingleAssignment
<1>1. Inv /\ [Next]_vars => Inv'
  BY NextInv
<1>2. Inv => SingleAssignment
  BY DEF Inv, Past, SingleAssignment
<1> QED
  BY InitInv, <1>1, <1>2, PTL DEF Spec

-----------------------------------------------------------------------------
\* The names in the table, and those of the processes that are printed.
Table == {processes[i] : i \in DOMAIN processes}
PrintedNames == {chpLib[k].name : k \in DOMAIN chpLib}

Filling ==
  /\ \E S : processes \in Seq(S)
  /\ \E S : chpLib \in Seq(S)
  /\ IsFiniteSet(Table) /\ Cardinality(Table) = Len(processes)
  /\ IsFiniteSet(PrintedNames)
  /\ Table \subseteq PrintedNames
  /\ Len(processes) <= MAX_PROCESSES
  /\ Len(processes) < MAX_PROCESSES => PrintedNames = Table

PrintInv == Filling /\ PrintedOnce

\* Appending adds one element to the image of a sequence.
LEMMA AppendImage ==
  ASSUME NEW S, NEW q \in Seq(S), NEW x
  PROVE  {Append(q, x)[i] : i \in DOMAIN Append(q, x)} = {q[i] : i \in DOMAIN q} \cup {x}
<1>1. \A i \in DOMAIN Append(q, x) : i \in 1 .. Len(q) \/ i = Len(q) + 1
  BY AppendFacts
<1>2. Len(q) + 1 \in DOMAIN Append(q, x) /\ 1 .. Len(q) \subseteq DOMAIN Append(q, x)
  BY AppendFacts
<1> QED
  BY <1>1, <1>2, AppendFacts

LEMMA AppendNames ==
  ASSUME NEW S, NEW q \in Seq(S), NEW x
  PROVE  {Append(q, x)[i].name : i \in DOMAIN Append(q, x)} =
           {q[i].name : i \in DOMAIN q} \cup {x.name}
<1>1. \A i \in DOMAIN Append(q, x) : i \in 1 .. Len(q) \/ i = Len(q) + 1
  BY AppendFacts
<1>2. Len(q) + 1 \in DOMAIN Append(q, x) /\ 1 .. Len(q) \subseteq DOMAIN Append(q, x)
  BY AppendFacts
<1> QED
  BY <1>1, <1>2, AppendFacts

LEMMA InitPrint == Init => PrintInv
<1> SUFFICES ASSUME Init PROVE PrintInv
  OBVIOUS
<1>1. processes = <<>> /\ chpLib = <<>>
  BY DEF Init
<1>2. processes \in Seq({}) /\ chpLib \in Seq({})
  BY <1>1
<1>3. Table = {} /\ PrintedNames = {} /\ Len(processes) = 0
  BY <1>1 DEF Table, PrintedNames
<1>4. Filling
  BY <1>2, <1>3, FS_EmptySet, BodyAssumption DEF Filling
<1>5. PrintedOnce
  BY <1>1 DEF PrintedOnce
<1> QED
  BY <1>4, <1>5 DEF PrintInv

LEMMA UnchangedPrint ==
  ASSUME PrintInv, UNCHANGED <<processes, chpLib>>
  PROVE  PrintInv'
BY DEF PrintInv, Filling, Table, PrintedNames, PrintedOnce

\* A name that is not in the table is printed and, if there is room, entered.
LEMMA NewNamePrint ==
  ASSUME PrintInv, NEW STATE e, ~Remembered(e.name), chpLib' = Append(chpLib, e), Remember(e.name)
  PROVE  PrintInv'
<1> USE BodyAssumption
<1>1. PICK S : processes \in Seq(S)
  BY DEF PrintInv, Filling
<1>2. PICK T : chpLib \in Seq(T)
  BY DEF PrintInv, Filling
<1>3. e.name \notin Table
  BY DEF Remembered, Table
<1>4. PrintedNames' = PrintedNames \cup {e.name}
  BY <1>2, AppendNames DEF PrintedNames
<1>5. chpLib' \in Seq(T \cup {e})
  BY <1>2, AppendFacts
<1>6. IsFiniteSet(PrintedNames')
  BY <1>4, FS_AddElement DEF PrintInv, Filling
<1>7. /\ IsFiniteSet(Table \cup {e.name})
      /\ Cardinality(Table \cup {e.name}) = Len(processes) + 1
      /\ Len(processes) \in Nat
  <2>1. IsFiniteSet(Table) /\ Cardinality(Table) = Len(processes)
    BY DEF PrintInv, Filling
  <2>2. /\ IsFiniteSet(Table \cup {e.name})
        /\ Cardinality(Table \cup {e.name}) = Cardinality(Table) + 1
    BY <1>3, <2>1, FS_AddElement, Zenon
  <2>3. Len(processes) \in Nat
    BY <1>1
  <2> QED
    BY <2>1, <2>2, <2>3
<1>8. CASE Len(processes) >= MAX_PROCESSES
  <2>1. processes' = processes
    BY <1>8 DEF Remember
  <2>2. Len(processes) = MAX_PROCESSES
    BY <1>7, <1>8 DEF PrintInv, Filling
  <2>3. Table' = Table /\ Table \subseteq PrintedNames'
    BY <1>4, <2>1 DEF Table, PrintInv, Filling
  <2>4. Filling'
    BY <1>1, <1>5, <1>6, <2>1, <2>2, <2>3 DEF PrintInv, Filling
  <2>5. Table \cup {e.name} \subseteq PrintedNames'
    BY <1>4, <2>3
  <2>6. Cardinality(PrintedNames') \in Nat
    BY <1>6, FS_CardinalityType
  <2>7. Cardinality(Table \cup {e.name}) <= Cardinality(PrintedNames')
    BY <1>6, <2>5, FS_Subset
  <2>8. Cardinality(PrintedNames') > MAX_PROCESSES
    BY <1>7, <2>2, <2>6, <2>7
  <2>9. PrintedOnce'
    BY <2>8 DEF PrintedOnce, PrintedNames
  <2> QED
    BY <2>4, <2>9 DEF PrintInv
<1>9. CASE Len(processes) < MAX_PROCESSES
  <2>1. processes' = Append(processes, e.name)
    BY <1>7, <1>9 DEF Remember
  <2>2. Table' = Table \cup {e.name}
    BY <1>1, <2>1, AppendImage DEF Table
  <2>3. PrintedNames = Table /\ PrintedNames' = Table'
    BY <1>4, <1>9, <2>2 DEF PrintInv, Filling
  <2>4. processes' \in Seq(S \cup {e.name}) /\ Len(processes') = Len(processes) + 1
    BY <1>1, <2>1, AppendFacts
  <2>5. Len(processes') <= MAX_PROCESSES
    BY <1>7, <1>9, <2>4
  <2>6. Filling'
    BY <1>5, <1>6, <1>7, <2>2, <2>3, <2>4, <2>5 DEF Filling
  <2>7. ASSUME NEW i \in DOMAIN chpLib', NEW j \in DOMAIN chpLib',
               i < j, chpLib'[i].name = chpLib'[j].name
        PROVE  Cardinality(PrintedNames') > MAX_PROCESSES
    <3>1. /\ DOMAIN chpLib = 1 .. Len(chpLib) /\ Len(chpLib) \in Nat
          /\ DOMAIN chpLib' = 1 .. Len(chpLib) + 1
          /\ chpLib'[Len(chpLib) + 1] = e
          /\ \A k \in 1 .. Len(chpLib) : chpLib'[k] = chpLib[k]
      BY <1>2, AppendFacts
    <3>2. i \in 1 .. Len(chpLib) /\ chpLib'[i] = chpLib[i]
      BY <2>7, <3>1
    <3>3. chpLib[i].name \in Table
      BY <2>3, <3>1, <3>2 DEF PrintedNames
    <3>4. j # Len(chpLib) + 1
      BY <1>3, <2>7, <3>1, <3>2, <3>3
    <3>5. j \in 1 .. Len(chpLib) /\ chpLib'[j] = chpLib[j]
      BY <3>1, <3>4
    <3>6. Cardinality(PrintedNames) > MAX_PROCESSES
      BY <2>7, <3>1, <3>2, <3>5 DEF PrintInv, PrintedOnce, PrintedNames
    <3>7. Cardinality(PrintedNames) = Len(processes)
      BY <2>3 DEF PrintInv, Filling
    <3> QED
      BY <1>7, <1>9, <3>6, <3>7
  <2>8. PrintedOnce'
    BY <2>7 DEF PrintedOnce, PrintedNames
  <2> QED
    BY <2>6, <2>8 DEF PrintInv
<1> QED
  BY <1>7, <1>8, <1>9

LEMMA PrintUnitPrint ==
  ASSUME PrintInv, PrintUnit
  PROVE  PrintInv'
<1> DEFINE name == ProcName(body[unit])
           e == [name |-> name, resBWList |-> gen.resBWList, calc |-> gen.calc,
                 outs |-> outs, of |-> unit]
<1>1. CASE gen.calc = <<>>
  <2>1. UNCHANGED <<processes, chpLib>>
    BY <1>1 DEF PrintUnit, libVars
  <2> QED
    BY <2>1, UnchangedPrint
<1>2. CASE gen.calc # <<>> /\ Remembered(name)
  <2>1. UNCHANGED <<processes, chpLib>>
    BY <1>2 DEF PrintUnit, Remember
  <2> QED
    BY <2>1, UnchangedPrint
<1>3. CASE gen.calc # <<>> /\ ~Remembered(name)
  <2>1. e.name = name
    OBVIOUS
  <2>2. Remember(e.name) /\ ~Remembered(e.name) /\ chpLib' = Append(chpLib, e)
    BY <1>3 DEF PrintUnit
  <2> HIDE DEF e
  <2> QED
    BY <2>2, NewNamePrint
<1> QED
  BY <1>1, <1>2, <1>3

LEMMA NextPrint ==
  ASSUME PrintInv, [Next]_vars
  PROVE  PrintInv'
<1>1. CASE PrintUnit
  BY <1>1, PrintUnitPrint
<1>2. CASE UNCHANGED vars
  BY <1>2, UnchangedPrint DEF vars, libVars
<1>3. CASE Next /\ ~PrintUnit
  <2>1. UNCHANGED libVars
    BY <1>3 DEF Next, CallInt, CallVar, CallCast, CallBool, CallOperator, CallQuery,
       CallConcat, EmitOperator, ReturnCondition, EmitQuery, RejectQuery, EmitConcat,
       CreateSource, LowerPart, EndPart
  <2> QED
    BY <2>1, UnchangedPrint DEF libVars
<1> QED
  BY <1>1, <1>2, <1>3

\* checkAndUpdateProcess prints a process of the library once, until more
\* names are in use than its table holds.
THEOREM PrintedOnceAlways == Spec => []PrintedOnce
<1>1. Init => PrintInv
  BY InitPrint
<1>2. PrintInv /\ [Next]_vars => PrintInv'
  BY NextPrint
<1>3. PrintInv => PrintedOnce
  BY DEF PrintInv
<1> QED
  BY <1>1, <1>2, <1>3, PTL DEF Spec
=============================================================================
