---------------------------- MODULE NetlistProofs ----------------------------
(*****************************************************************************)
(* The netlist of a functional unit calculates what its printed program does: *)
(* for every set of expressions and bodies, every input, and every unit      *)
(* without a concatenation, of which the optimizer is told what was never    *)
(* set.                                                                      *)
(*                                                                           *)
(* As long as no concatenation has taken a name below the latest and still   *)
(* waits, the optimizer is told, statement by statement, what is printed     *)
(* (Aligned).  Of two lists that agree statement by statement, the program   *)
(* is executed in order and the expressions are evaluated by need; that they *)
(* give the same is shown for the first result in which they could differ.   *)
(*                                                                           *)
(* And the name of an instance decides its netlist: the lowering of a unit   *)
(* is one function of its expressions and of the widths of its outputs       *)
(* (Advance), and both are in the name.                                      *)
(*****************************************************************************)
EXTENDS LoweringProofs

\* What a statement assigns, and the results after it.
Assigned(s, args, argBW, bw, before) ==
  Apply(s.op, [i \in DOMAIN s.args |-> Lookup(s.args[i], args, before)],
        [i \in DOMAIN s.args |-> Widths(s.args[i], argBW, bw)]) % Pow2[bw[s.to]]
After(s, args, argBW, bw, before) ==
  [before EXCEPT ![s.to] = Assigned(s, args, argBW, bw, before)]

\* f[k] are the results after the first k statements.
Runs(f, n, calc, args, argBW, bw) ==
  f = [k \in 0 .. n |-> IF k = 0 THEN [i \in DOMAIN bw |-> 0]
                        ELSE After(calc[k], args, argBW, bw, f[k - 1])]

\* What a hidden expression gives, if those before it give o.
Value(k, h, o, args, argBW, bw) ==
  Apply(h[k].op,
        [i \in DOMAIN h[k].args |->
           IF h[k].args[i][1] = "res" THEN o[h[k].args[i][2]]
           ELSE Lookup(h[k].args[i], args, <<>>)],
        [i \in DOMAIN h[k].args |-> Widths(h[k].args[i], argBW, bw)]) % Pow2[bw[k]]
Gives(o, h, args, argBW, bw) == o = [k \in DOMAIN h |-> Value(k, h, o, args, argBW, bw)]

\* The values of a unit's arguments, and the widths of its results.
ArgsOf(u, x) == [i \in DOMAIN u.gen.argList |-> x[u.gen.argList[i]]]
BWOf(rb) == [k \in 0 .. Len(rb) - 1 |-> rb[k + 1]]

\* The execution of a unit's program is a run of its statements.
LEMMA ExecutedIs ==
  ASSUME NEW p, NEW u, NEW x
  PROVE  Executed(p, u, x) =
           (CHOOSE f : Runs(f, Len(p.calc), p.calc, ArgsOf(u, x), u.gen.argBW,
                            BWOf(p.resBWList)))[Len(p.calc)]
BY DEF Executed, Runs, After, Assigned, ArgsOf, BWOf

\* The evaluation of what the optimizer is told.
LEMMA OptimizedIs ==
  ASSUME NEW u, NEW x
  PROVE  Optimized(u, x) =
           CHOOSE o : Gives(o, u.gen.hidden, ArgsOf(u, x), u.gen.argBW,
                            [k \in DOMAIN u.gen.hidden |-> u.gen.hidden[k].bw])
BY DEF Optimized, Gives, Value, ArgsOf

\* Every program runs.
LEMMA RunExists ==
  ASSUME NEW n \in Nat, NEW calc, NEW args, NEW argBW, NEW bw
  PROVE  \E f : Runs(f, n, calc, args, argBW, bw)
<1> DEFINE Run(f, m) == Runs(f, m, calc, args, argBW, bw)
           Stuck == {m \in Nat : ~ \E f : Run(f, m)}
<1>1. Stuck = {}
  <2> SUFFICES ASSUME Stuck # {} PROVE FALSE
    OBVIOUS
  <2>1. PICK m \in Stuck : \A k \in Stuck : m <= k
    BY SmallestOf
  <2>2. CASE m = 0
    <3> DEFINE f == [k \in 0 .. 0 |-> [i \in DOMAIN bw |-> 0]]
    <3>1. \A k \in 0 .. 0 : k = 0
      OBVIOUS
    <3>2. Run(f, 0)
      BY <3>1 DEF Runs
    <3> QED
      BY <2>1, <2>2, <3>2
  <2>3. CASE m # 0
    <3>1. m - 1 \in Nat /\ m - 1 \notin Stuck
      BY <2>1, <2>3
    <3>2. PICK f : Run(f, m - 1)
      BY <3>1
    <3> DEFINE g == [k \in 0 .. m |-> IF k = m THEN After(calc[m], args, argBW, bw, f[m - 1])
                                      ELSE f[k]]
    <3>3. ASSUME NEW k \in 0 .. m
          PROVE  g[k] = IF k = 0 THEN [i \in DOMAIN bw |-> 0]
                        ELSE After(calc[k], args, argBW, bw, g[k - 1])
      <4>1. CASE k = m
        <5>1. g[k - 1] = f[m - 1] /\ k # 0
          BY <2>1, <2>3, <4>1
        <5> QED
          BY <4>1, <5>1
      <4>2. CASE k # m
        <5>1. k \in 0 .. m - 1 /\ g[k] = f[k]
          BY <2>1, <4>2
        <5>2. k # 0 => g[k - 1] = f[k - 1]
          BY <2>1, <4>2
        <5>3. f[k] = IF k = 0 THEN [i \in DOMAIN bw |-> 0]
                     ELSE After(calc[k], args, argBW, bw, f[k - 1])
          BY <3>2, <5>1 DEF Runs
        <5> QED
          BY <5>1, <5>2, <5>3
      <4> QED
        BY <4>1, <4>2
    <3>4. g = [k \in 0 .. m |-> IF k = 0 THEN [i \in DOMAIN bw |-> 0]
                                ELSE After(calc[k], args, argBW, bw, g[k - 1])]
      <4>1. g = [k \in 0 .. m |-> g[k]]
        OBVIOUS
      <4> HIDE DEF g
      <4> QED
        BY <3>3, <4>1
    <3>5. Run(g, m)
      BY <3>4 DEF Runs
    <3> QED
      BY <2>1, <3>5
  <2> QED
    BY <2>2, <2>3
<1> QED
  BY <1>1

\* The statements assign the results in order, and the optimizer is told the
\* operations of all of them.
Matched(calc, rb, h) ==
  /\ DOMAIN h = 0 .. Len(calc) - 1
  /\ \A k \in 1 .. Len(calc) :
       calc[k].to = k - 1 /\ h[k - 1] = [op |-> calc[k].op, args |-> calc[k].args, bw |-> rb[k]]

\* One result of a matched list.
LEMMA MatchedAt ==
  ASSUME NEW calc, NEW rb, NEW h, Matched(calc, rb, h), NEW k \in 1 .. Len(calc)
  PROVE  /\ calc[k].to = k - 1 /\ h[k - 1].op = calc[k].op /\ h[k - 1].args = calc[k].args
         /\ h[k - 1].bw = rb[k]
<1>1. h[k - 1] = [op |-> calc[k].op, args |-> calc[k].args, bw |-> rb[k]]
  BY DEF Matched
<1>2. calc[k].to = k - 1
  BY DEF Matched
<1> QED
  BY ONLY <1>1, <1>2

\* Operands are arguments, literals and earlier results.
LEMMA ReadsBelow ==
  ASSUME NEW calc \in Seq(Statement), NEW rb, NEW h, NEW o, Matched(calc, rb, h), Sequenced(calc, o)
  PROVE  /\ Len(calc) \in Nat
         /\ \A k \in 1 .. Len(calc) : \A i \in DOMAIN calc[k].args :
              calc[k].args[i][1] = "res" => calc[k].args[i][2] \in 0 .. k - 2
         /\ \A i \in DOMAIN o : o[i].res \in 0 .. Len(calc) - 1
<1>1. Len(calc) \in Nat /\ DOMAIN calc = 1 .. Len(calc)
  OBVIOUS
<1>2. \A j \in 1 .. Len(calc) : calc[j].to = j - 1
  BY DEF Matched
<1>3. ASSUME NEW k \in 1 .. Len(calc) + 1, NEW r \in {calc[j].to : j \in 1 .. k - 1}
      PROVE  r \in 0 .. k - 2
  <2>1. PICK j \in 1 .. k - 1 : r = calc[j].to
    OBVIOUS
  <2>2. j \in 1 .. Len(calc)
    BY ONLY <1>1, <1>3, <2>1
  <2>3. r = j - 1
    BY <1>2, <2>1, <2>2
  <2> QED
    BY ONLY <1>1, <1>3, <2>1, <2>3
<1>4. ASSUME NEW k \in 1 .. Len(calc), NEW i \in DOMAIN calc[k].args,
             calc[k].args[i][1] = "res"
      PROVE  calc[k].args[i][2] \in 0 .. k - 2
  <2>1. k \in 1 .. Len(calc) + 1
    BY <1>1
  <2>2. calc[k].args[i][2] \in {calc[j].to : j \in 1 .. k - 1}
    BY <1>1, <1>4, SequencedIs
  <2> QED
    BY <1>3, <2>1, <2>2
<1>5. ASSUME NEW i \in DOMAIN o PROVE o[i].res \in 0 .. Len(calc) - 1
  <2>1. Len(calc) + 1 \in 1 .. Len(calc) + 1 /\ Len(calc) + 1 - 2 = Len(calc) - 1
    BY <1>1
  <2>2. o[i].res \in {calc[j].to : j \in 1 .. Len(calc) + 1 - 1}
    BY SequencedIs
  <2> QED
    BY <1>3, <2>1, <2>2
<1> QED
  BY <1>1, <1>4, <1>5

\* If no statement assigns a result below its own, a run assigns result k in
\* statement k + 1, if that does, and keeps it.
LEMMA RunKeeps ==
  ASSUME NEW calc \in Seq(Statement), \A k \in 1 .. Len(calc) : calc[k].to >= k - 1,
         NEW args, NEW argBW, NEW bw, DOMAIN bw = 0 .. Len(calc) - 1,
         NEW f, Runs(f, Len(calc), calc, args, argBW, bw)
  PROVE  /\ \A k \in 1 .. Len(calc) : calc[k].to = k - 1 =>
              f[k][k - 1] = Assigned(calc[k], args, argBW, bw, f[k - 1])
         /\ \A k \in 1 .. Len(calc) : \A n \in k .. Len(calc) : f[n][k - 1] = f[k][k - 1]
<1>1. /\ Len(calc) \in Nat
      /\ \A k \in 1 .. Len(calc) : calc[k].to \in Nat /\ calc[k].to >= k - 1
  <2>1. \A k \in 1 .. Len(calc) : calc[k] \in Statement
    OBVIOUS
  <2> QED
    BY <2>1 DEF Statement
<1>2. f[0] = [i \in DOMAIN bw |-> 0]
  BY <1>1 DEF Runs
<1>3. \A k \in 1 .. Len(calc) : f[k] = After(calc[k], args, argBW, bw, f[k - 1])
  <2>1. \A k \in 0 .. Len(calc) :
          f[k] = IF k = 0 THEN [i \in DOMAIN bw |-> 0]
                 ELSE After(calc[k], args, argBW, bw, f[k - 1])
    BY DEF Runs
  <2> QED
    BY <1>1, <2>1
<1>4. ASSUME NEW k \in 1 .. Len(calc), NEW j \in DOMAIN f[k - 1]
      PROVE  f[k][j] = IF j = calc[k].to THEN Assigned(calc[k], args, argBW, bw, f[k - 1])
                       ELSE f[k - 1][j]
  BY <1>3 DEF After
<1>5. ASSUME NEW k \in 1 .. Len(calc)
      PROVE  DOMAIN f[k] = DOMAIN f[k - 1]
  BY <1>3 DEF After
<1>6. \A n \in 0 .. Len(calc) : DOMAIN f[n] = DOMAIN bw
  <2> DEFINE Odd == {n \in Nat : n <= Len(calc) /\ DOMAIN f[n] # DOMAIN bw}
  <2>1. SUFFICES ASSUME Odd # {} PROVE FALSE
    BY <1>1
  <2>2. PICK m \in Odd : \A n \in Odd : m <= n
    <3>1. Odd \in SUBSET Nat
      OBVIOUS
    <3> HIDE DEF Odd
    <3> QED
      BY <2>1, <3>1, SmallestOf
  <2>3. CASE m = 0
    BY <1>2, <2>2, <2>3
  <2>4. CASE m # 0
    <3>1. m - 1 \in Nat /\ m - 1 \notin Odd /\ m \in 1 .. Len(calc)
      BY <1>1, <2>2, <2>4
    <3>2. DOMAIN f[m - 1] = DOMAIN bw
      BY <1>1, <3>1
    <3> QED
      BY <1>5, <2>2, <3>1, <3>2
  <2> QED
    BY <2>3, <2>4
<1>7. ASSUME NEW k \in 1 .. Len(calc), calc[k].to = k - 1
      PROVE  f[k][k - 1] = Assigned(calc[k], args, argBW, bw, f[k - 1])
  <2>1. k - 1 \in 0 .. Len(calc) /\ k - 1 \in 0 .. Len(calc) - 1
    BY <1>1
  <2>2. k - 1 \in DOMAIN f[k - 1]
    BY <1>6, <2>1
  <2> QED
    BY <1>4, <1>7, <2>2
<1>8. ASSUME NEW k \in 1 .. Len(calc)
      PROVE  \A n \in k .. Len(calc) : f[n][k - 1] = f[k][k - 1]
  <2> DEFINE Odd == {n \in Nat : n \in k .. Len(calc) /\ f[n][k - 1] # f[k][k - 1]}
  <2>1. SUFFICES ASSUME Odd # {} PROVE FALSE
    BY <1>1
  <2>2. PICK m \in Odd : \A n \in Odd : m <= n
    <3>1. Odd \in SUBSET Nat
      OBVIOUS
    <3> HIDE DEF Odd
    <3> QED
      BY <2>1, <3>1, SmallestOf
  <2>3. m # k /\ m \in k .. Len(calc) /\ f[m][k - 1] # f[k][k - 1]
    BY <2>2
  <2>4. /\ m - 1 \in Nat /\ m - 1 \in k .. Len(calc) /\ m \in 1 .. Len(calc)
        /\ m - 1 \in 0 .. Len(calc) /\ k - 1 \in 0 .. Len(calc) - 1 /\ k - 1 # calc[m].to
    BY <1>1, <2>3
  <2>5. m - 1 \notin Odd
    <3>1. ~(m <= m - 1)
      BY <2>4
    <3> QED
      BY <2>2, <3>1
  <2>6. f[m - 1][k - 1] = f[k][k - 1]
    BY <2>4, <2>5
  <2>7. k - 1 \in DOMAIN f[m - 1]
    BY <1>6, <2>4
  <2>8. f[m][k - 1] = f[m - 1][k - 1]
    BY <1>4, <2>4, <2>7
  <2> QED
    BY <2>3, <2>6, <2>8
<1> QED
  BY <1>7, <1>8

\* An operation has one value, in the program and for the optimizer, if both
\* know the same results before it.
LEMMA SameValue ==
  ASSUME NEW calc \in Seq(Statement), NEW rb, NEW h, NEW s, Matched(calc, rb, h),
         Sequenced(calc, s), NEW args, NEW argBW, NEW bw,
         NEW k \in 1 .. Len(calc), NEW before, NEW o,
         \A j \in 0 .. k - 2 : before[j] = o[j]
  PROVE  Assigned(calc[k], args, argBW, bw, before) = Value(k - 1, h, o, args, argBW, bw)
<1>1. calc[k].to = k - 1 /\ h[k - 1].op = calc[k].op /\ h[k - 1].args = calc[k].args
  BY MatchedAt
<1>2. ASSUME NEW i \in DOMAIN calc[k].args
      PROVE  Lookup(calc[k].args[i], args, before) =
               IF calc[k].args[i][1] = "res" THEN o[calc[k].args[i][2]]
               ELSE Lookup(calc[k].args[i], args, <<>>)
  <2>1. CASE calc[k].args[i][1] = "res"
    <3>1. calc[k].args[i][2] \in 0 .. k - 2
      BY <2>1, ReadsBelow
    <3>2. Lookup(calc[k].args[i], args, before) = before[calc[k].args[i][2]]
      BY <2>1 DEF Lookup
    <3> QED
      BY <2>1, <3>1, <3>2
  <2>2. CASE calc[k].args[i][1] # "res"
    BY <2>2 DEF Lookup
  <2> QED
    BY <2>1, <2>2
<1>3. [i \in DOMAIN calc[k].args |-> Lookup(calc[k].args[i], args, before)] =
        [i \in DOMAIN calc[k].args |->
           IF calc[k].args[i][1] = "res" THEN o[calc[k].args[i][2]]
           ELSE Lookup(calc[k].args[i], args, <<>>)]
  BY <1>2
<1> QED
  BY <1>1, <1>3 DEF Assigned, Value

\* What the hidden expressions give is what the program leaves.
LEMMA SameResults ==
  ASSUME NEW calc \in Seq(Statement), NEW rb, NEW h, NEW s, Matched(calc, rb, h),
         Sequenced(calc, s), NEW args, NEW argBW, NEW bw, DOMAIN bw = 0 .. Len(calc) - 1,
         NEW f, Runs(f, Len(calc), calc, args, argBW, bw)
  PROVE  /\ \E o : Gives(o, h, args, argBW, bw)
         /\ \A o : Gives(o, h, args, argBW, bw) =>
              \A r \in 0 .. Len(calc) - 1 : f[Len(calc)][r] = o[r]
<1>a. \A i \in 1 .. Len(calc) : calc[i].to = i - 1
  BY DEF Matched
<1>b. \A i \in 1 .. Len(calc) : calc[i].to >= i - 1
  BY <1>a
<1>c. /\ \A k \in 1 .. Len(calc) : calc[k].to = k - 1 =>
           f[k][k - 1] = Assigned(calc[k], args, argBW, bw, f[k - 1])
      /\ \A k \in 1 .. Len(calc) : \A n \in k .. Len(calc) : f[n][k - 1] = f[k][k - 1]
  BY <1>b, RunKeeps
<1>0. \A i \in 1 .. Len(calc) : f[i][i - 1] = Assigned(calc[i], args, argBW, bw, f[i - 1])
  BY <1>a, <1>c
<1>1. Len(calc) \in Nat /\ DOMAIN h = 0 .. Len(calc) - 1
  <2>1. Len(calc) \in Nat
    OBVIOUS
  <2> QED
    BY <2>1 DEF Matched
<1> DEFINE end == f[Len(calc)]
           o == [r \in 0 .. Len(calc) - 1 |-> end[r]]
<1>2. ASSUME NEW k \in 1 .. Len(calc), NEW n \in k .. Len(calc)
      PROVE  f[n][k - 1] = end[k - 1]
  <2>1. Len(calc) \in k .. Len(calc)
    BY <1>1
  <2>2. \A m \in k .. Len(calc) : f[m][k - 1] = f[k][k - 1]
    BY <1>c
  <2> QED
    BY <2>1, <2>2
<1>3. ASSUME NEW k \in 1 .. Len(calc), NEW p, \A j \in 0 .. k - 2 : end[j] = p[j]
      PROVE  end[k - 1] = Value(k - 1, h, p, args, argBW, bw)
  <2>1. ASSUME NEW j \in 0 .. k - 2 PROVE f[k - 1][j] = p[j]
    <3>1. j + 1 \in 1 .. Len(calc) /\ k - 1 \in j + 1 .. Len(calc) /\ j + 1 - 1 = j
      BY <1>1
    <3>2. f[k - 1][j + 1 - 1] = end[j + 1 - 1]
      BY <1>2, <3>1
    <3> QED
      BY <1>3, <3>1, <3>2
  <2>2. k \in k .. Len(calc)
    BY <1>1
  <2>3. end[k - 1] = f[k][k - 1]
    BY <1>2, <2>2
  <2>4. f[k][k - 1] = Assigned(calc[k], args, argBW, bw, f[k - 1])
    BY <1>0
  <2>5. Assigned(calc[k], args, argBW, bw, f[k - 1]) = Value(k - 1, h, p, args, argBW, bw)
    BY <2>1, SameValue
  <2> QED
    BY <2>3, <2>4, <2>5
<1>4. ASSUME NEW r \in 0 .. Len(calc) - 1, NEW p, \A j \in 0 .. r - 1 : end[j] = p[j]
      PROVE  end[r] = Value(r, h, p, args, argBW, bw)
  <2>1. r + 1 \in 1 .. Len(calc) /\ r + 1 - 1 = r /\ r + 1 - 2 = r - 1
    BY <1>1
  <2>2. end[r + 1 - 1] = Value(r + 1 - 1, h, p, args, argBW, bw)
    BY <1>3, <1>4, <2>1
  <2> QED
    BY <2>1, <2>2
<1>5. Gives(o, h, args, argBW, bw)
  <2>1. ASSUME NEW r \in 0 .. Len(calc) - 1 PROVE o[r] = Value(r, h, o, args, argBW, bw)
    <3>1. \A j \in 0 .. r - 1 : j \in 0 .. Len(calc) - 1
      BY <1>1
    <3>2. \A j \in 0 .. r - 1 : end[j] = o[j]
      BY <3>1
    <3> HIDE DEF end
    <3>3. o[r] = end[r]
      OBVIOUS
    <3> HIDE DEF o
    <3> QED
      BY <1>4, <3>2, <3>3
  <2>2. o = [r \in 0 .. Len(calc) - 1 |-> o[r]]
    OBVIOUS
  <2> HIDE DEF o
  <2>3. o = [r \in 0 .. Len(calc) - 1 |-> Value(r, h, o, args, argBW, bw)]
    BY <2>1, <2>2
  <2> QED
    BY <1>1, <2>3 DEF Gives
<1>6. ASSUME NEW p, Gives(p, h, args, argBW, bw)
      PROVE  \A r \in 0 .. Len(calc) - 1 : end[r] = p[r]
  <2> DEFINE Odd == {r \in Nat : r \in 0 .. Len(calc) - 1 /\ end[r] # p[r]}
  <2>1. SUFFICES ASSUME Odd # {} PROVE FALSE
    OBVIOUS
  <2>2. PICK m \in Odd : \A r \in Odd : m <= r
    <3>1. Odd \in SUBSET Nat
      OBVIOUS
    <3> HIDE DEF Odd
    <3> QED
      BY <2>1, <3>1, SmallestOf
  <2>3. m \in 0 .. Len(calc) - 1 /\ end[m] # p[m]
    BY <2>2
  <2>4. ASSUME NEW j \in 0 .. m - 1 PROVE end[j] = p[j]
    <3>1. j \in Nat /\ j \in 0 .. Len(calc) - 1 /\ ~(m <= j)
      BY <1>1, <2>3
    <3> QED
      BY <2>2, <3>1
  <2>5. p[m] = Value(m, h, p, args, argBW, bw)
    BY <1>1, <1>6, <2>3 DEF Gives
  <2> HIDE DEF end
  <2> QED
    BY <1>4, <2>3, <2>4, <2>5
<1> QED
  BY <1>5, <1>6

-----------------------------------------------------------------------------
\* The names that concatenations have taken are those not assigned.
LEMMA LedgerKeys ==
  ASSUME NEW calc, NEW q, NEW s, NEW o, NEW r, Ledger(calc, q, s, o, r), Straight(calc)
  PROVE  /\ calc \in Seq(Statement) /\ Len(calc) \in Nat
         /\ r \in Int /\ r >= -1 /\ Keys(q) \subseteq 0 .. r /\ Sequenced(calc, o)
         /\ To(calc) = (0 .. r) \ Keys(q) /\ Keys(q) = (0 .. r) \ To(calc)
         /\ Len(calc) + Cardinality(Keys(q)) = r + 1
<1>1. calc \in Seq(Statement) /\ To(calc) = (0 .. r) \ Keys(q) /\ Keys(q) \subseteq 0 .. r
  BY DEF Ledger
<1>2. Keys(q) = (0 .. r) \ To(calc)
  BY ONLY <1>1
<1>3. Len(calc) \in Nat
  BY <1>1
<1> QED
  BY <1>1, <1>2, <1>3 DEF Ledger

\* A program without a concatenation has none with a calculated operand.
LEMMA PlainStraight ==
  ASSUME NEW calc, ~Concatenates(calc)
  PROVE  Straight(calc)
BY DEF Concatenates, Straight

\* In a program without a concatenation, what the optimizer is told is what is
\* printed, unless a concatenation waits below the latest name.
Aligned(g, q, r) ==
  (~Concatenates(g.calc) /\ Keys(q) \subseteq {r}) => Matched(g.calc, g.resBWList, g.hidden)

\* Nothing is generated, a name may be taken.
LEMMA AlignedSame ==
  ASSUME NEW g, NEW q, NEW s, NEW o, NEW r, Ledger(g.calc, q, s, o, r), Aligned(g, q, r),
         NEW d, NEW p, NEW t, NEW u, NEW n, Ledger(d.calc, p, t, u, n),
         d.calc = g.calc, d.resBWList = g.resBWList, d.hidden = g.hidden,
         n = r \/ n = r + 1
  PROVE  Aligned(d, p, n)
<1> SUFFICES ASSUME ~Concatenates(d.calc), Keys(p) \subseteq {n}
             PROVE  Matched(d.calc, d.resBWList, d.hidden)
  BY DEF Aligned
<1>1. /\ Keys(q) = (0 .. r) \ To(g.calc) /\ Keys(p) = (0 .. n) \ To(g.calc) /\ r \in Int
      /\ Keys(q) \subseteq 0 .. r
  BY PlainStraight, LedgerKeys
<1>2. Keys(q) \subseteq {r}
  <2>1. CASE n = r
    BY <1>1, <2>1
  <2>2. CASE n = r + 1
    <3>1. \A k \in 0 .. r : k \in 0 .. n /\ k # n
      BY ONLY <1>1, <2>2
    <3> QED
      BY <1>1, <3>1
  <2> QED
    BY <2>1, <2>2
<1> QED
  BY <1>2 DEF Aligned

\* The hidden expressions h, with the operation of st for key.
Told(h, key, st, w) ==
  [k \in DOMAIN h \cup {key} |->
     IF k \in DOMAIN h THEN h[k] ELSE [op |-> st.op, args |-> Listed(st.op, st.args), bw |-> w]]

\* A statement assigns the latest result, for the name that it was given.
LEMMA AlignedMore ==
  ASSUME NEW g, NEW q, NEW s, NEW o, NEW r, Ledger(g.calc, q, s, o, r), Aligned(g, q, r),
         NEW rb, rb = g.resBWList, IsSeq(rb), Len(rb) = Len(g.calc),
         NEW n, NEW key, NEW w,
         (n = r /\ key \in Keys(q)) \/ (n = r + 1 /\ key = n),
         NEW d, NEW p, NEW t, NEW u, Ledger(d.calc, p, t, u, n),
         NEW st \in Statement, st.to = n,
         d.calc = Append(g.calc, st), d.resBWList = Append(rb, w),
         d.hidden = Told(g.hidden, key, st, w)
  PROVE  Aligned(d, p, n)
<1> DEFINE N == Len(g.calc)
<1> SUFFICES ASSUME ~Concatenates(d.calc), Keys(p) \subseteq {n}
             PROVE  Matched(d.calc, d.resBWList, d.hidden)
  BY DEF Aligned
<1>1. g.calc \in Seq(Statement) /\ N \in Nat
  BY DEF Ledger
<1>2. /\ d.calc \in Seq(Statement) /\ Len(d.calc) = N + 1 /\ DOMAIN d.calc = 1 .. N + 1
      /\ d.calc[N + 1] = st /\ \A k \in 1 .. N : d.calc[k] = g.calc[k]
      /\ DOMAIN g.calc = 1 .. N
  <2>1. d.calc \in Seq(Statement)
    BY DEF Ledger
  <2> QED
    BY <1>1, <2>1, AppendFacts
<1>3. ~Concatenates(g.calc) /\ st.op # "concat"
  <2>1. N + 1 \in 1 .. N + 1 /\ \A k \in 1 .. N : k \in 1 .. N + 1
    BY <1>1
  <2> QED
    BY <1>2, <2>1 DEF Concatenates
<1>4. /\ Keys(q) = (0 .. r) \ To(g.calc) /\ r \in Int /\ r >= -1 /\ Keys(q) \subseteq 0 .. r
  BY <1>3, PlainStraight, LedgerKeys
<1>5. /\ To(d.calc) = (0 .. n) \ Keys(p) /\ Sequenced(d.calc, u)
      /\ N + 1 + Cardinality(Keys(p)) = n + 1
  <2>1. /\ To(d.calc) = (0 .. n) \ Keys(p) /\ Sequenced(d.calc, u)
        /\ Len(d.calc) + Cardinality(Keys(p)) = n + 1
    BY ONLY Ledger(d.calc, p, t, u, n), ~Concatenates(d.calc), PlainStraight, LedgerKeys
  <2> QED
    BY <1>2, <2>1
<1>7. To(d.calc) = To(g.calc) \cup {n}
  <2>1. \A k \in 1 .. N + 1 : k \in 1 .. N \/ k = N + 1
    BY <1>1
  <2>2. 1 .. N \subseteq 1 .. N + 1 /\ N + 1 \in 1 .. N + 1
    BY <1>1
  <2> QED
    BY <1>2, <2>1, <2>2 DEF To
<1>8. Keys(p) = {}
  BY <1>5, <1>7
<1>9. N = n
  <2>1. Cardinality(Keys(p)) = 0
    BY <1>8, FS_EmptySet
  <2> QED
    BY <1>1, <1>4, <1>5, <2>1
<1>10. Keys(q) \subseteq {r} /\ key = n
  <2>1. To(g.calc) \cup {n} = 0 .. n
    BY <1>5, <1>7, <1>8
  <2>2. CASE n = r + 1 /\ key = n
    <3>1. \A k \in 0 .. r : k \in 0 .. n /\ k # n
      BY ONLY <1>4, <2>2
    <3> QED
      BY <1>4, <2>1, <2>2, <3>1
  <2>3. CASE n = r /\ key \in Keys(q)
    <3>1. Keys(q) \subseteq {r}
      BY <1>4, <2>1, <2>3
    <3> QED
      BY <2>3, <3>1
  <2> QED
    BY <2>2, <2>3
<1>11. Matched(g.calc, rb, g.hidden)
  BY <1>3, <1>10 DEF Aligned
<1>12. /\ DOMAIN g.hidden = 0 .. N - 1
       /\ \A k \in 1 .. N : g.calc[k].to = k - 1 /\
            g.hidden[k - 1] = [op |-> g.calc[k].op, args |-> g.calc[k].args, bw |-> rb[k]]
  BY <1>11 DEF Matched
<1>13. N \notin DOMAIN g.hidden /\ DOMAIN g.hidden \cup {key} = 0 .. N + 1 - 1
  BY <1>1, <1>9, <1>10, <1>12
<1>14. d.resBWList[N + 1] = w /\ \A k \in 1 .. N : d.resBWList[k] = rb[k]
  BY AppendIsSeq
<1>15. ASSUME NEW k \in 1 .. N + 1
       PROVE  /\ d.calc[k].to = k - 1
              /\ d.hidden[k - 1] = [op |-> d.calc[k].op, args |-> d.calc[k].args,
                                    bw |-> d.resBWList[k]]
  <2>1. CASE k \in 1 .. N
    <3>1. k - 1 \in DOMAIN g.hidden
      BY <1>1, <1>12, <2>1
    <3>2. d.hidden[k - 1] = g.hidden[k - 1]
      BY <3>1 DEF Told
    <3> QED
      BY <1>2, <1>12, <1>14, <2>1, <3>2
  <2>2. CASE k = N + 1
    <3>1. k - 1 = N
      BY <1>1, <2>2
    <3>2. d.hidden[N] = [op |-> st.op, args |-> Listed(st.op, st.args), bw |-> w]
      BY <1>9, <1>10, <1>13 DEF Told
    <3>3. Listed(st.op, st.args) = st.args
      BY <1>3 DEF Listed
    <3> QED
      BY <1>2, <1>9, <1>14, <2>2, <3>1, <3>2, <3>3
  <2> QED
    BY <1>1, <2>1, <2>2
<1>16. DOMAIN d.hidden = DOMAIN g.hidden \cup {key}
  BY DEF Told
<1>17. DOMAIN d.hidden = 0 .. Len(d.calc) - 1
  BY ONLY <1>2, <1>13, <1>16
<1>18. \A k \in 1 .. Len(d.calc) :
         d.calc[k].to = k - 1 /\ d.hidden[k - 1] =
           [op |-> d.calc[k].op, args |-> d.calc[k].args, bw |-> d.resBWList[k]]
  BY ONLY <1>2, <1>15
<1> QED
  BY ONLY <1>17, <1>18 DEF Matched

-----------------------------------------------------------------------------
\* The printed units, and the one being generated.
PastMatched ==
  \A n \in DOMAIN instances :
    LET g == instances[n].gen
    IN  /\ g.calc \in Seq(Statement) /\ Len(g.resBWList) = Len(g.calc)
        /\ ~Concatenates(g.calc) => Matched(g.calc, g.resBWList, g.hidden)
\* The inductive invariant.
NetInv == Inv /\ Aligned(gen, todo, resSuffix) /\ PastMatched

\* A step that generates nothing.
LEMMA SilentStep ==
  ASSUME NetInv, Inv', resSuffix' = resSuffix \/ resSuffix' = resSuffix + 1,
         gen'.calc = gen.calc, gen'.resBWList = gen.resBWList, gen'.hidden = gen.hidden,
         UNCHANGED instances
  PROVE  NetInv'
<1>1. /\ Ledger(gen.calc, todo, names, outs, resSuffix)
      /\ Ledger(gen'.calc, todo', names', outs', resSuffix')
  BY DEF NetInv, Inv, Collected
<1>2. Aligned(gen', todo', resSuffix')
  BY <1>1, AlignedSame DEF NetInv
<1>3. PastMatched'
  BY DEF NetInv, PastMatched
<1> QED
  BY <1>2, <1>3 DEF NetInv

\* A step that generates a statement.
LEMMA StatementStep ==
  ASSUME NetInv, Inv', UNCHANGED instances,
         NEW key, NEW op, NEW operands, NEW w, NEW n, n = resSuffix',
         Generate(n, key, op, operands, w),
         (n = resSuffix /\ key \in Keys(todo)) \/ (n = resSuffix + 1 /\ key = n)
  PROVE  NetInv'
<1>1. /\ Ledger(gen.calc, todo, names, outs, resSuffix)
      /\ Ledger(gen'.calc, todo', names', outs', n)
  BY DEF NetInv, Inv, Collected
<1>2. PICK a, b, rb, c, h :
        gen = [argList |-> a, argBW |-> b, resBWList |-> rb, calc |-> c, hidden |-> h]
  BY DEF NetInv, Inv, Collected, GenOK
<1>3. gen.resBWList = rb /\ gen.calc = c /\ gen.hidden = h
  BY ONLY <1>2
<1>4. PICK st : st = [to |-> n, op |-> op, args |-> operands]
  OBVIOUS
<1>5. PICK g : g = Told(h, key, st, w)
  OBVIOUS
<1>6. gen' = [argList |-> a, argBW |-> b, resBWList |-> Append(rb, w),
              calc |-> Append(c, st), hidden |-> g]
  <2>1. st.op = op /\ st.args = operands
    BY ONLY <1>4
  <2>2. g = [k \in DOMAIN h \cup {key} |->
               IF k \in DOMAIN h THEN h[k]
               ELSE [op |-> op, args |-> Listed(op, operands), bw |-> w]]
    BY ONLY <1>5, <2>1 DEF Told
  <2> QED
    BY ONLY <1>2, <1>4, <2>2, Generate(n, key, op, operands, w) DEF Generate
<1>7. gen'.resBWList = Append(rb, w) /\ gen'.calc = Append(c, st) /\ gen'.hidden = g
  BY ONLY <1>6
<1>8. IsSeq(rb) /\ Len(rb) = Len(c)
  BY <1>3 DEF NetInv, Inv, Collected, GenOK
<1>9. st \in Statement
  <2>1. Append(c, st) \in Seq(Statement) /\ c \in Seq(Statement)
    BY <1>1, <1>3, <1>7 DEF Ledger
  <2>2. Len(c) + 1 \in 1 .. Len(Append(c, st)) /\ Append(c, st)[Len(c) + 1] = st
    BY <2>1, AppendFacts
  <2> QED
    BY <2>1, <2>2
<1>10. Aligned(gen', todo', n)
  <2>1. Aligned(gen, todo, resSuffix)
    BY DEF NetInv
  <2>2. rb = gen.resBWList /\ Len(rb) = Len(gen.calc) /\ gen'.calc = Append(gen.calc, st)
    BY ONLY <1>3, <1>7, <1>8
  <2>3. gen'.hidden = Told(gen.hidden, key, st, w) /\ st.to = n
    BY ONLY <1>3, <1>4, <1>5, <1>7
  <2>4. gen'.resBWList = Append(rb, w)
    BY ONLY <1>7
  <2>5. (n = resSuffix /\ key \in Keys(todo)) \/ (n = resSuffix + 1 /\ key = n)
    OBVIOUS
  <2> QED
    BY ONLY <1>1, <1>8, <1>9, <2>1, <2>2, <2>3, <2>4, <2>5, AlignedMore
<1>11. PastMatched'
  BY DEF NetInv, PastMatched
<1> QED
  BY <1>10, <1>11 DEF NetInv

\* A variable of the expression becomes an argument, which generates nothing.
LEMMA CallVarSilent ==
  ASSUME NetInv, CallVar
  PROVE  gen'.calc = gen.calc /\ gen'.resBWList = gen.resBWList /\ gen'.hidden = gen.hidden
<1>1. PICK a, b, rb, c, h :
        gen = [argList |-> a, argBW |-> b, resBWList |-> rb, calc |-> c, hidden |-> h]
  BY DEF NetInv, Inv, Collected, GenOK
<1>2. CASE UNCHANGED gen
  BY <1>2
<1>3. CASE gen' = [gen EXCEPT !.argList = Append(@, Next1.e.n),
                              !.argBW = Append(@, body[unit].inBW[Next1.e.n])]
  <2>1. PICK y, z : y = Append(a, Next1.e.n) /\ z = Append(b, body[unit].inBW[Next1.e.n])
    OBVIOUS
  <2>2. gen' = [argList |-> y, argBW |-> z, resBWList |-> rb, calc |-> c, hidden |-> h]
    BY ONLY <1>1, <1>3, <2>1
  <2> QED
    BY ONLY <1>1, <2>2
<1> QED
  BY <1>2, <1>3 DEF CallVar

\* The statement of a concatenation assigns the latest result, for its own name.
LEMMA EmitConcatNet == ASSUME NetInv, Inv', EmitConcat PROVE NetInv'
<1>1. /\ todo # <<>> /\ todo \in Seq(Frame) /\ Next1 = todo[1]
      /\ todo[1].do = "emit" /\ todo[1].e.op \in {"concat"}
  BY AtFacts DEF EmitConcat, NetInv
<1>2. todo[1].key \in Keys(todo)
  <2>1. 1 \in 1 .. Len(todo) /\ IsConcat(todo[1])
    BY <1>1, TailFacts DEF IsConcat
  <2> QED
    BY <2>1 DEF Keys
<1> QED
  BY <1>1, <1>2, StatementStep DEF EmitConcat, libVars

\* The end of a part copies an argument, or generates nothing.
LEMMA EndPartNet == ASSUME NetInv, Inv', EndPart PROVE NetInv'
<1>1. UNCHANGED instances
  BY DEF EndPart, libVars
<1>2. CASE OnlyVar(Root)
  BY <1>1, <1>2, StatementStep DEF EndPart
<1>3. CASE ~OnlyVar(Root)
  BY <1>1, <1>3, SilentStep DEF EndPart, genVars
<1> QED
  BY <1>2, <1>3

\* A unit is printed with all its statements.
LEMMA PrintUnitNet == ASSUME NetInv, Inv', PrintUnit PROVE NetInv'
<1>1. todo = <<>> /\ gen' = EmptyGen /\ UNCHANGED todo
  BY DEF PrintUnit, Between
<1>2. Aligned(gen', todo', resSuffix')
  <2>1. Len(<<>>) = 0 /\ \A k : k \notin 1 .. 0 /\ k \notin 0 .. 0 - 1
    OBVIOUS
  <2>2. Matched(<<>>, <<>>, <<>>)
    BY <2>1 DEF Matched
  <2> QED
    BY <1>1, <2>2 DEF Aligned, EmptyGen
<1>3. PastMatched'
  <2>1. CASE gen.calc = <<>>
    BY <2>1 DEF NetInv, PastMatched, PrintUnit, libVars
  <2>2. CASE gen.calc # <<>>
    <3>1. PICK i : instances' = Append(instances, i) /\ i.gen = gen
      <4>1. PICK i : i = [name |-> ProcName(body[unit]), of |-> unit, gen |-> gen, outs |-> outs,
                          instance |-> FUName(body[unit], gen.argBW, outs)]
        OBVIOUS
      <4>2. instances' = Append(instances, i)
        BY <2>2, <4>1 DEF PrintUnit
      <4> QED
        BY <4>1, <4>2
    <3>2. /\ gen.calc \in Seq(Statement) /\ Len(gen.resBWList) = Len(gen.calc)
          /\ ~Concatenates(gen.calc) => Matched(gen.calc, gen.resBWList, gen.hidden)
      <4>1. Keys(todo) = {}
        BY <1>1 DEF Keys
      <4>2. gen.calc \in Seq(Statement) /\ Len(gen.resBWList) = Len(gen.calc)
        BY DEF NetInv, Inv, Collected, Ledger, GenOK
      <4> QED
        BY <4>1, <4>2 DEF NetInv, Aligned
    <3>3. IsSeq(instances)
      BY DEF NetInv, Inv, Past
    <3>4. /\ Len(instances) \in Nat
          /\ DOMAIN instances = 1 .. Len(instances)
          /\ DOMAIN instances' = 1 .. Len(instances) + 1
          /\ instances'[Len(instances) + 1] = i
          /\ \A n \in 1 .. Len(instances) : instances'[n] = instances[n]
      BY <3>1, <3>3, AppendIsSeq
    <3>5. \A n \in 1 .. Len(instances) + 1 : n \in 1 .. Len(instances) \/ n = Len(instances) + 1
      BY <3>4
    <3> QED
      BY <3>1, <3>2, <3>4, <3>5 DEF NetInv, PastMatched
  <2> QED
    BY <2>1, <2>2
<1> QED
  BY <1>2, <1>3 DEF NetInv

\* Every step preserves the invariant.
LEMMA NextNet == ASSUME NetInv, [Next]_vars PROVE NetInv'
<1>1. Inv'
  BY NextInv DEF NetInv
<1>2. CASE CallVar
  BY <1>1, <1>2, CallVarSilent, SilentStep DEF CallVar, libVars
<1>3. CASE CallConcat
  BY <1>1, <1>3, SilentStep DEF CallConcat, libVars
<1>4. CASE EmitOperator
  BY <1>1, <1>4, StatementStep DEF EmitOperator, libVars
<1>5. CASE EmitQuery
  BY <1>1, <1>5, StatementStep DEF EmitQuery, libVars
<1>6. CASE EmitConcat
  BY <1>1, <1>6, EmitConcatNet
<1>7. CASE EndPart
  BY <1>1, <1>7, EndPartNet
<1>8. CASE PrintUnit
  BY <1>1, <1>8, PrintUnitNet
<1>9. CASE CallInt \/ CallCast \/ CallBool \/ CallOperator \/ CallQuery \/ ReturnCondition
           \/ RejectQuery \/ CreateSource \/ LowerPart \/ UNCHANGED vars
  <2>1. UNCHANGED <<resSuffix, gen, instances>>
    BY <1>9 DEF CallInt, CallCast, CallBool, CallOperator, CallQuery, ReturnCondition,
       RejectQuery, CreateSource, LowerPart, vars, genVars, libVars
  <2> QED
    BY <1>1, <2>1, SilentStep
<1> QED
  BY <1>2, <1>3, <1>4, <1>5, <1>6, <1>7, <1>8, <1>9 DEF Next

\* Nothing is printed and nothing named at the start.
LEMMA InitNet == Init => NetInv
<1> SUFFICES ASSUME Init PROVE NetInv
  OBVIOUS
<1>1. gen = EmptyGen /\ instances = <<>>
  BY DEF Init
<1>2. Matched(<<>>, <<>>, <<>>)
  <2>1. Len(<<>>) = 0 /\ \A k : k \notin 1 .. 0 /\ k \notin 0 .. 0 - 1
    OBVIOUS
  <2> QED
    BY <2>1 DEF Matched
<1> QED
  BY <1>1, <1>2, InitInv DEF NetInv, Aligned, PastMatched, EmptyGen

\* What the optimizer is told of a unit gives what its program leaves.
LEMMA UnitAgrees ==
  ASSUME NEW u, u.gen.calc \in Seq(Statement), Len(u.gen.resBWList) = Len(u.gen.calc),
         Matched(u.gen.calc, u.gen.resBWList, u.gen.hidden), Sequenced(u.gen.calc, u.outs),
         NEW x, NEW i \in DOMAIN u.outs
  PROVE  Executed([resBWList |-> u.gen.resBWList, calc |-> u.gen.calc], u, x)[u.outs[i].res] =
           Optimized(u, x)[u.outs[i].res]
<1>1. PICK calc, rb, h, o : /\ calc = u.gen.calc /\ rb = u.gen.resBWList
                            /\ h = u.gen.hidden /\ o = u.outs
  OBVIOUS
<1>2. /\ calc \in Seq(Statement) /\ Len(rb) = Len(calc) /\ Matched(calc, rb, h)
      /\ Sequenced(calc, o)
  BY <1>1
<1>3. Len(calc) \in Nat /\ o[i].res \in 0 .. Len(calc) - 1
  BY <1>1, <1>2, ReadsBelow
<1> DEFINE args == ArgsOf(u, x)
           argBW == u.gen.argBW
           bw == BWOf(rb)
           f == CHOOSE g : Runs(g, Len(calc), calc, args, argBW, bw)
           p == CHOOSE g : Gives(g, h, args, argBW, bw)
<1>4. DOMAIN bw = 0 .. Len(calc) - 1
  BY <1>2 DEF BWOf
<1>5. bw = [k \in DOMAIN h |-> h[k].bw]
  <2>1. DOMAIN h = 0 .. Len(calc) - 1
    BY <1>2 DEF Matched
  <2>2. ASSUME NEW k \in 0 .. Len(calc) - 1 PROVE h[k].bw = rb[k + 1]
    <3>1. PICK m \in 1 .. Len(calc) : m = k + 1
      BY <1>3
    <3>2. h[m - 1].bw = rb[m]
      BY <1>2, MatchedAt
    <3> QED
      BY <1>3, <3>1, <3>2
  <2> QED
    BY <1>2, <2>1, <2>2 DEF BWOf
<1>6. Executed([resBWList |-> u.gen.resBWList, calc |-> u.gen.calc], u, x) = f[Len(calc)]
  BY <1>1, ExecutedIs
<1>7. Optimized(u, x) = p
  BY <1>1, <1>5, OptimizedIs
<1>8. Runs(f, Len(calc), calc, args, argBW, bw)
  <2>1. \E g : Runs(g, Len(calc), calc, args, argBW, bw)
    BY <1>3, RunExists
  <2> HIDE DEF args, argBW, bw
  <2> QED
    BY <2>1
<1>9. /\ \E g : Gives(g, h, args, argBW, bw)
      /\ \A g : Gives(g, h, args, argBW, bw) =>
           \A r \in 0 .. Len(calc) - 1 : f[Len(calc)][r] = g[r]
  <2> HIDE DEF args, argBW, bw, f
  <2> QED
    BY ONLY <1>2, <1>4, <1>8, SameResults
<1>10. Gives(p, h, args, argBW, bw)
  <2> HIDE DEF args, argBW, bw
  <2> QED
    BY <1>9
<1>11. f[Len(calc)][o[i].res] = p[o[i].res]
  <2> HIDE DEF args, argBW, bw, f, p
  <2> QED
    BY <1>3, <1>9, <1>10
<1> QED
  BY <1>1, <1>6, <1>7, <1>11

\* For every input, the netlist synthesized from the hidden expressions of a unit
\* calculates what its printed program does, unless the unit has a
\* concatenation.
THEOREM NetlistAgreesAlways == Spec => []NetlistAgrees
<1>1. NetInv /\ [Next]_vars => NetInv'
  BY NextNet
<1>2. NetInv => NetlistAgrees
  <2> SUFFICES ASSUME NetInv, NEW n \in DOMAIN instances,
                      ~Concatenates(instances[n].gen.calc),
                      NEW x \in Inputs(instances[n]), NEW i \in DOMAIN instances[n].outs
               PROVE  Executed([resBWList |-> instances[n].gen.resBWList,
                                calc |-> instances[n].gen.calc],
                               instances[n], x)[instances[n].outs[i].res] =
                        Optimized(instances[n], x)[instances[n].outs[i].res]
    BY DEF NetlistAgrees
  <2>1. /\ instances[n].gen.calc \in Seq(Statement)
        /\ Len(instances[n].gen.resBWList) = Len(instances[n].gen.calc)
        /\ Matched(instances[n].gen.calc, instances[n].gen.resBWList, instances[n].gen.hidden)
    BY DEF NetInv, PastMatched
  <2>2. Sequenced(instances[n].gen.calc, instances[n].outs)
    BY PlainStraight DEF NetInv, Inv, Past
  <2> QED
    BY <2>1, <2>2, UnitAgrees
<1> QED
  BY InitNet, <1>1, <1>2, PTL DEF Spec
-----------------------------------------------------------------------------
(* One name is one circuit. *)

\* What the lowering of a unit has made, but for the widths of its arguments,
\* which nothing reads.
Rest(g) == [argList |-> g.argList, resBWList |-> g.resBWList, calc |-> g.calc,
            hidden |-> g.hidden]

\* Generate, on that.
Stated(g, to, key, op, operands, w) ==
  [argList |-> g.argList, resBWList |-> Append(g.resBWList, w),
   calc |-> Append(g.calc, [to |-> to, op |-> op, args |-> operands]),
   hidden |-> Told(g.hidden, key, [to |-> to, op |-> op, args |-> operands], w)]

\* The steps of Lowering as one function of the expressions es of a unit, the
\* widths w of its outputs and what has been made of them:
\* <<part, todo, names, resBW, resSuffix, Rest(gen), outs>>.
PartStep(es, w, p, s, c, r, g, o) ==
  IF s = <<>>
  THEN IF es[p].op = "int" THEN <<p + 1, <<>>, <<>>, c, r, g, o>>
       ELSE <<p, <<Call(es[p])>>, <<>>, <<w[p]>>, r, g, o>>
  ELSE IF UnderCasts[es[p]].op = "var"
       THEN <<p + 1, <<>>, <<>>, <<>>, r + 1, Stated(g, r + 1, r + 1, "port", s, c[Len(c)]),
              Append(o, [res |-> r + 1, bw |-> w[p]])>>
       ELSE <<p + 1, <<>>, <<>>, <<>>, r, g, Append(o, [res |-> r, bw |-> w[p]])>>

VarStep(id, p, q, s, c, r, g, o) ==
  LET old == {i \in DOMAIN g.argList : g.argList[i] = id}
  IN  IF old = {}
      THEN <<p, q, Left(s, 0, <<"x", Len(g.argList)>>), c, r,
             [argList |-> Append(g.argList, id), resBWList |-> g.resBWList, calc |-> g.calc,
              hidden |-> g.hidden], o>>
      ELSE <<p, q, Left(s, 0, <<"x", (CHOOSE i \in old : TRUE) - 1>>), c, r, g, o>>

CallStep(e, p, q, s, c, r, g, o) ==
  IF e.op = "int" THEN <<p, q, Left(s, 0, <<"int", e.n>>), c, r, g, o>>
  ELSE IF e.op = "var" THEN VarStep(e.n, p, q, s, c, r, g, o)
  ELSE IF e.op = "cast" THEN <<p, Calls(e.args) \o q, s, c, r, g, o>>
  ELSE IF e.op = "bool"
  THEN <<p, Calls(e.args) \o q, s, [c EXCEPT ![Len(c)] = 1], r, g, o>>
  ELSE IF e.op = "query"
  THEN <<p, <<Call(e.args[1]), EndCondition(e), Call(e.args[2]), Call(e.args[3]),
              Emit(e, 0)>> \o q, s, Append(c, 1), r, g, o>>
  ELSE IF e.op = "concat"
  THEN <<p, Calls(e.args) \o <<Emit(e, r + 1)>> \o q, s, c, r + 1, g, o>>
  ELSE <<p, Calls(e.args) \o <<Emit(e, 0)>> \o q, s, c, r, g, o>>

EmitStepOf(t, p, q, s, c, r, g, o) ==
  LET k == Len(t.e.args)
      last == SubSeq(s, Len(s) - k + 1, Len(s))
  IN  IF t.e.op = "concat"
      THEN <<p, q, Left(s, k, <<"res", t.key>>), c, r,
             Stated(g, r, t.key, "concat", last, c[Len(c)]), o>>
      ELSE <<p, q, Left(s, k, <<"res", r + 1>>), c, r + 1,
             Stated(g, r + 1, r + 1, t.e.op, last, c[Len(c)]), o>>

Advance(es, w, K) ==
  LET p == K[1]  q == K[2]  s == K[3]  c == K[4]  r == K[5]  g == K[6]  o == K[7]
  IN  IF q = <<>> THEN PartStep(es, w, p, s, c, r, g, o)
      ELSE IF Head(q).do = "call" THEN CallStep(Head(q).e, p, Tail(q), s, c, r, g, o)
      ELSE IF Head(q).do = "end" THEN <<p, Tail(q), s, SubSeq(c, 1, Len(c) - 1), r, g, o>>
      ELSE EmitStepOf(Head(q), p, Tail(q), s, c, r, g, o)

\* Between two parts no width is in scope.
Bare(K) == IF K[2] = <<>> /\ K[3] = <<>> THEN <<K[1], <<>>, <<>>, <<>>, K[5], K[6], K[7]>> ELSE K

\* No part is left.
Ended(es, K) == K[1] > Len(es) /\ K[2] = <<>> /\ K[3] = <<>>

\* K comes from the start of the unit after n steps, the states f[0], f[1] ...
Traced(es, w, f, n, K) ==
  /\ f[0] = <<1, <<>>, <<>>, <<>>, -1, Rest(EmptyGen), <<>>>> /\ f[n] = K
  /\ \A i \in Nat : i < n => ~Ended(es, f[i]) /\ f[i + 1] = Bare(Advance(es, w, f[i]))
Reached(es, w, K) == \E n \in Nat : \E f : Traced(es, w, f, n, K)

\* A unit that is lowered ends in one way.
LEMMA EndsOnce ==
  ASSUME NEW es, NEW w, NEW K, NEW L, Reached(es, w, K), Reached(es, w, L),
         Ended(es, K), Ended(es, L)
  PROVE  K = L
<1>1. PICK n \in Nat : \E f : Traced(es, w, f, n, K)
  BY DEF Reached
<1>2. PICK f : Traced(es, w, f, n, K)
  BY <1>1
<1>3. PICK m \in Nat : \E g : Traced(es, w, g, m, L)
  BY DEF Reached
<1>4. PICK g : Traced(es, w, g, m, L)
  BY <1>3
<1> DEFINE Odd == {i \in Nat : i <= n /\ i <= m /\ f[i] # g[i]}
<1>5. Odd = {}
  <2> SUFFICES ASSUME Odd # {} PROVE FALSE
    OBVIOUS
  <2>1. PICK i \in Odd : \A j \in Odd : i <= j
    <3>1. Odd \in SUBSET Nat
      OBVIOUS
    <3> HIDE DEF Odd
    <3> QED
      BY <3>1, SmallestOf
  <2>2. i # 0
    BY <1>2, <1>4 DEF Traced
  <2>3. i - 1 \in Nat /\ i - 1 < n /\ i - 1 < m /\ i - 1 + 1 = i /\ i - 1 \notin Odd
    BY <2>1, <2>2
  <2>4. f[i - 1] = g[i - 1]
    BY <2>1, <2>3
  <2>5. f[i] = Bare(Advance(es, w, f[i - 1])) /\ g[i] = Bare(Advance(es, w, g[i - 1]))
    <3>1. /\ f[i - 1 + 1] = Bare(Advance(es, w, f[i - 1]))
         /\ g[i - 1 + 1] = Bare(Advance(es, w, g[i - 1]))
      BY <1>2, <1>4, <2>3 DEF Traced
    <3> QED
      BY <2>3, <3>1
  <2> QED
    BY <2>1, <2>4, <2>5
<1>6. ~(n < m)
  <2> SUFFICES ASSUME n < m PROVE FALSE
    OBVIOUS
  <2>1. f[n] = g[n] /\ f[n] = K
    BY <1>2, <1>5 DEF Traced
  <2>2. ~Ended(es, g[n])
    BY <1>4 DEF Traced
  <2> QED
    BY <2>1, <2>2
<1>7. ~(m < n)
  <2> SUFFICES ASSUME m < n PROVE FALSE
    OBVIOUS
  <2>1. f[m] = g[m] /\ g[m] = L
    BY <1>4, <1>5 DEF Traced
  <2>2. ~Ended(es, f[m])
    BY <1>2 DEF Traced
  <2> QED
    BY <2>1, <2>2
<1>8. n = m
  BY <1>6, <1>7
<1> QED
  BY <1>2, <1>4, <1>5, <1>8 DEF Traced

\* One step more.
LEMMA ReachedNext ==
  ASSUME NEW es, NEW w, NEW K, Reached(es, w, K), ~Ended(es, K)
  PROVE  Reached(es, w, Bare(Advance(es, w, K)))
<1>1. PICK n \in Nat : \E f : Traced(es, w, f, n, K)
  BY DEF Reached
<1>2. PICK f : Traced(es, w, f, n, K)
  BY <1>1
<1>3. PICK L : L = Bare(Advance(es, w, K))
  OBVIOUS
<1> DEFINE g == [i \in Nat |-> IF i = n + 1 THEN L ELSE f[i]]
<1>4. g[0] = f[0] /\ g[n + 1] = L /\ g[n] = f[n] /\ n + 1 \in Nat
  OBVIOUS
<1>5. ASSUME NEW i \in Nat, i < n + 1
      PROVE  ~Ended(es, g[i]) /\ g[i + 1] = Bare(Advance(es, w, g[i]))
  <2>1. CASE i = n
    BY <1>2, <1>3, <1>4, <2>1 DEF Traced
  <2>2. CASE i # n
    <3>1. i < n /\ i + 1 \in Nat /\ i + 1 # n + 1 /\ i # n + 1
      BY <1>5, <2>2
    <3>2. g[i] = f[i] /\ g[i + 1] = f[i + 1]
      BY <3>1
    <3> QED
      BY <1>2, <3>1, <3>2 DEF Traced
  <2> QED
    BY <2>1, <2>2
<1>6. Traced(es, w, g, n + 1, L)
  <2> HIDE DEF g
  <2> QED
    BY <1>2, <1>4, <1>5 DEF Traced
<1> QED
  BY <1>3, <1>4, <1>6 DEF Reached

-----------------------------------------------------------------------------
Calculated(es) == {p \in DOMAIN es : es[p].op # "int"}
OutWidths(b) == [p \in Calculated(b.exprs) |-> b.outBW[p]]
Progress == <<part, todo, names, resBW, resSuffix, Rest(gen), outs>>
Own(K) == Advance(body[unit].exprs, OutWidths(body[unit]), K)

\* A step within a unit is the one that Advance says.
OneStep ==
  /\ ~Ended(body[unit].exprs, Progress) /\ Progress' = Own(Progress)
  /\ UNCHANGED <<body, unit, instances>>

\* What a call and an emit do, without their guards.
LEMMA AdvanceFrame ==
  ASSUME todo # <<>>, NEW es, NEW w
  PROVE  /\ ~Ended(es, Progress)
         /\ Head(todo).do = "call" => Advance(es, w, Progress) =
              CallStep(Head(todo).e, part, Tail(todo), names, resBW, resSuffix, Rest(gen), outs)
         /\ Head(todo).do = "end" => Advance(es, w, Progress) =
              <<part, Tail(todo), names, SubSeq(resBW, 1, Len(resBW) - 1), resSuffix,
                Rest(gen), outs>>
         /\ Head(todo).do = "emit" => Advance(es, w, Progress) =
              EmitStepOf(Head(todo), part, Tail(todo), names, resBW, resSuffix, Rest(gen), outs)
BY DEF Advance, Progress, Ended

\* Calls that generate nothing.
LEMMA SilentOne ==
  ASSUME Inv, CallInt \/ CallCast \/ CallBool \/ CallOperator \/ CallQuery \/ CallConcat
              \/ ReturnCondition
  PROVE  OneStep
<1>1. CASE CallInt
  <2>1. todo # <<>> /\ Head(todo).do = "call" /\ Head(todo).e.op = "int"
    BY <1>1 DEF CallInt, At, Next1
  <2>2. names' = Left(names, 0, <<"int", Head(todo).e.n>>)
    BY <1>1 DEF CallInt, Return, Left, Next1
  <2>3. Progress' = CallStep(Head(todo).e, part, Tail(todo), names, resBW, resSuffix, Rest(gen), outs)
    BY <1>1, <2>1, <2>2 DEF CallInt, CallStep, Progress, genVars
  <2> QED
    BY <1>1, <2>1, <2>3, AdvanceFrame DEF CallInt, OneStep, Own, libVars
<1>2. CASE CallCast
  <2>1. todo # <<>> /\ Head(todo).do = "call" /\ Head(todo).e.op = "cast"
    BY <1>2 DEF CallCast, At, Next1
  <2>3. Progress' = CallStep(Head(todo).e, part, Tail(todo), names, resBW, resSuffix, Rest(gen), outs)
    BY <1>2, <2>1 DEF CallCast, CallStep, Progress, genVars, Next1
  <2> QED
    BY <1>2, <2>1, <2>3, AdvanceFrame DEF CallCast, OneStep, Own, libVars
<1>3. CASE CallBool
  <2>1. todo # <<>> /\ Head(todo).do = "call" /\ Head(todo).e.op = "bool"
    BY <1>3 DEF CallBool, At, Next1
  <2>3. Progress' = CallStep(Head(todo).e, part, Tail(todo), names, resBW, resSuffix, Rest(gen), outs)
    BY <1>3, <2>1 DEF CallBool, CallStep, Progress, genVars, Next1
  <2> QED
    BY <1>3, <2>1, <2>3, AdvanceFrame DEF CallBool, OneStep, Own, libVars
<1>4. CASE CallOperator
  <2>1. todo # <<>> /\ Head(todo).do = "call" /\ Head(todo).e.op \in Operators
    BY <1>4 DEF CallOperator, At, Next1
  <2>2. Head(todo).e.op \notin {"int", "var", "cast", "bool", "query", "concat"}
    BY <2>1 DEF Operators
  <2>3. Progress' = CallStep(Head(todo).e, part, Tail(todo), names, resBW, resSuffix, Rest(gen), outs)
    BY <1>4, <2>2 DEF CallOperator, CallStep, Progress, genVars, Next1
  <2> QED
    BY <1>4, <2>1, <2>3, AdvanceFrame DEF CallOperator, OneStep, Own, libVars
<1>5. CASE CallQuery
  <2>1. todo # <<>> /\ Head(todo).do = "call" /\ Head(todo).e.op = "query"
    BY <1>5 DEF CallQuery, At, Next1
  <2>3. Progress' = CallStep(Head(todo).e, part, Tail(todo), names, resBW, resSuffix, Rest(gen), outs)
    BY <1>5, <2>1 DEF CallQuery, CallStep, Progress, genVars, Next1
  <2> QED
    BY <1>5, <2>1, <2>3, AdvanceFrame DEF CallQuery, OneStep, Own, libVars
<1>6. CASE CallConcat
  <2>1. todo # <<>> /\ Head(todo).do = "call" /\ Head(todo).e.op = "concat"
    BY <1>6 DEF CallConcat, At, Next1
  <2>3. Progress' = CallStep(Head(todo).e, part, Tail(todo), names, resBW, resSuffix, Rest(gen), outs)
    BY <1>6, <2>1 DEF CallConcat, CallStep, Progress, Next1
  <2> QED
    BY <1>6, <2>1, <2>3, AdvanceFrame DEF CallConcat, OneStep, Own, libVars
<1>7. CASE ReturnCondition
  <2>1. todo # <<>> /\ Head(todo).do = "end"
    BY <1>7 DEF ReturnCondition, At, Next1
  <2>3. Progress' = <<part, Tail(todo), names, SubSeq(resBW, 1, Len(resBW) - 1), resSuffix,
                      Rest(gen), outs>>
    BY <1>7 DEF ReturnCondition, Progress, genVars
  <2> QED
    BY <1>7, <2>1, <2>3, AdvanceFrame DEF ReturnCondition, OneStep, Own, libVars
<1> QED
  BY <1>1, <1>2, <1>3, <1>4, <1>5, <1>6, <1>7

\* Generate does what Stated says.
LEMMA GenerateRest ==
  ASSUME Inv, NEW to, NEW key, NEW op, NEW operands, NEW w, Generate(to, key, op, operands, w)
  PROVE  Rest(gen') = Stated(Rest(gen), to, key, op, operands, w) /\ gen'.argBW = gen.argBW
<1>1. PICK a, b, rb, c, h :
        gen = [argList |-> a, argBW |-> b, resBWList |-> rb, calc |-> c, hidden |-> h]
  BY DEF Inv, Collected, GenOK
<1>2. gen' = [argList |-> a, argBW |-> b, resBWList |-> Append(rb, w),
              calc |-> Append(c, [to |-> to, op |-> op, args |-> operands]),
              hidden |-> Told(h, key, [to |-> to, op |-> op, args |-> operands], w)]
  BY ONLY <1>1, Generate(to, key, op, operands, w) DEF Generate, Told
<1> QED
  BY ONLY <1>1, <1>2 DEF Rest, Stated

\* The step is the one of the identifier.
LEMMA VarOne ==
  ASSUME CallVar, Progress' = VarStep(Head(todo).e.n, part, Tail(todo), names, resBW, resSuffix,
                                      Rest(gen), outs)
  PROVE  OneStep
<1>1. todo # <<>> /\ Head(todo).do = "call" /\ Head(todo).e.op = "var"
  BY DEF CallVar, At, Next1
<1>2. Progress' = CallStep(Head(todo).e, part, Tail(todo), names, resBW, resSuffix, Rest(gen), outs)
  BY <1>1 DEF CallStep
<1> QED
  BY <1>1, <1>2, AdvanceFrame DEF CallVar, OneStep, Own, libVars

\* An identifier becomes an argument.
LEMMA CallVarOne == ASSUME Inv, CallVar PROVE OneStep
<1>1. PICK a, b, rb, c, h :
        gen = [argList |-> a, argBW |-> b, resBWList |-> rb, calc |-> c, hidden |-> h]
  BY DEF Inv, Collected, GenOK
<1>2. todo # <<>> /\ Head(todo).do = "call" /\ Head(todo).e.op = "var"
  BY DEF CallVar, At, Next1
<1>3. PICK id, old : id = Head(todo).e.n /\ old = {i \in DOMAIN a : a[i] = id}
  OBVIOUS
<1>4. Rest(gen) = [argList |-> a, resBWList |-> rb, calc |-> c, hidden |-> h]
  BY ONLY <1>1 DEF Rest
<1>5. PICK g : g = Rest(gen) /\ g.argList = a /\ g.resBWList = rb /\ g.calc = c /\ g.hidden = h
  BY ONLY <1>4
<1>8. todo' = Tail(todo) /\ UNCHANGED <<part, resBW, resSuffix, outs>>
  BY DEF CallVar
<1>9. VarStep(id, part, Tail(todo), names, resBW, resSuffix, g, outs) =
        IF old = {}
        THEN <<part, Tail(todo), Left(names, 0, <<"x", Len(a)>>), resBW, resSuffix,
               [argList |-> Append(a, id), resBWList |-> g.resBWList,
                calc |-> g.calc, hidden |-> g.hidden], outs>>
        ELSE <<part, Tail(todo), Left(names, 0, <<"x", (CHOOSE i \in old : TRUE) - 1>>), resBW,
               resSuffix, g, outs>>
  <2>1. g.argList = a /\ old = {i \in DOMAIN a : a[i] = id}
    BY <1>3, <1>5
  <2> QED
    BY ONLY <2>1 DEF VarStep
<1>6. CASE old = {}
  <2>1. gen' = [argList |-> Append(a, id), argBW |-> Append(b, body[unit].inBW[id]),
                resBWList |-> rb, calc |-> c, hidden |-> h]
    BY <1>1, <1>3, <1>6 DEF CallVar, Next1
  <2>2. names' = Left(names, 0, <<"x", Len(a)>>)
    BY <1>1, <1>3, <1>6 DEF CallVar, Return, Left, Next1
  <2>3. Rest(gen') = [argList |-> Append(a, id), resBWList |-> rb, calc |-> c, hidden |-> h]
    BY ONLY <2>1 DEF Rest
  <2>4. VarStep(id, part, Tail(todo), names, resBW, resSuffix, g, outs) =
          <<part, Tail(todo), Left(names, 0, <<"x", Len(a)>>), resBW, resSuffix,
            [argList |-> Append(a, id), resBWList |-> rb, calc |-> c, hidden |-> h], outs>>
    BY ONLY <1>5, <1>6, <1>9
  <2>5. Progress' = <<part, Tail(todo), Left(names, 0, <<"x", Len(a)>>), resBW, resSuffix,
                      Rest(gen'), outs>>
    BY ONLY <1>8, <2>2 DEF Progress
  <2> QED
    BY <1>3, <1>5, <2>3, <2>4, <2>5, VarOne
<1>7. CASE old # {}
  <2>1. gen' = gen /\ names' = Left(names, 0, <<"x", (CHOOSE i \in old : TRUE) - 1>>)
    BY <1>1, <1>3, <1>7 DEF CallVar, Return, Left, Next1
  <2>2. VarStep(id, part, Tail(todo), names, resBW, resSuffix, g, outs) =
          <<part, Tail(todo), Left(names, 0, <<"x", (CHOOSE i \in old : TRUE) - 1>>), resBW,
            resSuffix, g, outs>>
    BY ONLY <1>7, <1>9
  <2>3. Progress' = <<part, Tail(todo), names', resBW, resSuffix, Rest(gen), outs>>
    BY ONLY <1>8, <2>1 DEF Progress
  <2> QED
    BY <1>3, <1>5, <2>1, <2>2, <2>3, VarOne
<1> QED
  BY <1>6, <1>7

\* A statement is generated.
LEMMA EmitOne ==
  ASSUME Inv, EmitOperator \/ EmitQuery \/ EmitConcat
  PROVE  OneStep
<1>1. CASE EmitOperator
  <2>1. todo # <<>> /\ Head(todo).do = "emit" /\ Head(todo).e.op # "concat"
    BY <1>1 DEF EmitOperator, At, Next1, Operators
  <2>2. Rest(gen') = Stated(Rest(gen), resSuffix + 1, resSuffix + 1, Head(todo).e.op,
                            Operands(Len(Head(todo).e.args)), Width)
    BY <1>1, GenerateRest DEF EmitOperator, Next1
  <2>3. Progress' = EmitStepOf(Head(todo), part, Tail(todo), names, resBW, resSuffix, Rest(gen), outs)
    BY <1>1, <2>1, <2>2 DEF EmitOperator, EmitStepOf, Progress, Return, Left, Operands, Width, Next1
  <2> QED
    BY <1>1, <2>1, <2>3, AdvanceFrame DEF EmitOperator, OneStep, Own, libVars
<1>2. CASE EmitQuery
  <2>1. /\ todo # <<>> /\ Head(todo).do = "emit" /\ Head(todo).e.op = "query"
        /\ Len(Head(todo).e.args) = 3
    <3>1. todo # <<>> /\ Head(todo).do = "emit" /\ Head(todo).e.op = "query"
      BY <1>2 DEF EmitQuery, At, Next1
    <3>2. At("emit", {"query"})
      BY <1>2 DEF EmitQuery
    <3>3. todo[1].e \in Exprs /\ Next1 = todo[1]
      BY <3>2, AtFacts
    <3> QED
      BY <3>1, <3>3, ExprFacts DEF Arity, Next1
  <2>2. Rest(gen') = Stated(Rest(gen), resSuffix + 1, resSuffix + 1, "query", Operands(3), Width)
    BY <1>2, GenerateRest DEF EmitQuery
  <2>3. Progress' = EmitStepOf(Head(todo), part, Tail(todo), names, resBW, resSuffix, Rest(gen), outs)
    BY <1>2, <2>1, <2>2 DEF EmitQuery, EmitStepOf, Progress, Return, Left, Operands, Width
  <2> QED
    BY <1>2, <2>1, <2>3, AdvanceFrame DEF EmitQuery, OneStep, Own, libVars
<1>3. CASE EmitConcat
  <2>1. todo # <<>> /\ Head(todo).do = "emit" /\ Head(todo).e.op = "concat"
    BY <1>3 DEF EmitConcat, At, Next1
  <2>2. Rest(gen') = Stated(Rest(gen), resSuffix, Head(todo).key, "concat",
                            Operands(Len(Head(todo).e.args)), Width)
    BY <1>3, GenerateRest DEF EmitConcat, Next1
  <2>3. Progress' = EmitStepOf(Head(todo), part, Tail(todo), names, resBW, resSuffix, Rest(gen), outs)
    BY <1>3, <2>1, <2>2 DEF EmitConcat, EmitStepOf, Progress, Return, Left, Operands, Width, Next1
  <2> QED
    BY <1>3, <2>1, <2>3, AdvanceFrame DEF EmitConcat, OneStep, Own, libVars
<1> QED
  BY <1>1, <1>2, <1>3

\* The start and the end of a part.
LEMMA PartOne ==
  ASSUME Inv, CreateSource \/ LowerPart \/ EndPart
  PROVE  OneStep
<1> DEFINE es == body[unit].exprs
           w == OutWidths(body[unit])
<1>0. todo = <<>> => Advance(es, w, Progress) =
                       PartStep(es, w, part, names, resBW, resSuffix, Rest(gen), outs)
  BY DEF Advance, Progress
<1>1. unit <= Len(body) => unit \in 1 .. Len(body) /\ Len(es) \in Nat /\ DOMAIN es = 1 .. Len(es)
  <2>1. body \in Seq({body[i] : i \in DOMAIN body})
    BY BodyAssumption DEF Inv
  <2>2. unit <= Len(body) => unit \in 1 .. Len(body)
    BY <2>1 DEF Inv
  <2>3. unit <= Len(body) => es \in Seq(Exprs)
    BY <2>2, BodyFacts DEF Inv
  <2> QED
    BY <2>2, <2>3
<1>2. ASSUME part \in 1 .. Len(es), Root.op # "int", unit \in 1 .. Len(body)
      PROVE  w[part] = body[unit].outBW[part]
  BY <1>1, <1>2 DEF OutWidths, Calculated, Root
<1>3. CASE CreateSource
  <2>1. todo = <<>> /\ names = <<>> /\ part <= Len(es) /\ es[part].op = "int"
    BY <1>3 DEF CreateSource, Between, Root
  <2>2. Progress' = PartStep(es, w, part, names, resBW, resSuffix, Rest(gen), outs)
    BY <1>3, <2>1 DEF CreateSource, PartStep, Progress, genVars
  <2>3. ~Ended(es, Progress)
    <3>1. ~(part > Len(es))
      BY <1>1, <1>3, <2>1 DEF CreateSource, Between, Inv
    <3> QED
      BY <3>1 DEF Ended, Progress
  <2> QED
    BY <1>0, <1>3, <2>1, <2>2, <2>3 DEF CreateSource, OneStep, Own, libVars
<1>4. CASE LowerPart
  <2>1. todo = <<>> /\ names = <<>> /\ part <= Len(es) /\ es[part].op # "int" /\ unit <= Len(body)
    BY <1>4 DEF LowerPart, Between, Root
  <2>2. part \in 1 .. Len(es)
    BY <1>1, <2>1 DEF Inv
  <2>3. w[part] = body[unit].outBW[part]
    BY <1>1, <1>2, <2>1, <2>2 DEF Root
  <2>4. Progress' = PartStep(es, w, part, names, resBW, resSuffix, Rest(gen), outs)
    BY <1>4, <2>1, <2>3 DEF LowerPart, PartStep, Progress, genVars, Root
  <2>5. ~Ended(es, Progress)
    <3>1. ~(part > Len(es))
      BY <2>2
    <3> QED
      BY <3>1 DEF Ended, Progress
  <2> QED
    BY <1>0, <1>4, <2>1, <2>4, <2>5 DEF LowerPart, OneStep, Own, libVars
<1>5. CASE EndPart
  <2>1. todo = <<>> /\ names # <<>>
    BY <1>5 DEF EndPart
  <2>2. Lowers
    BY <2>1 DEF Inv, Idles
  <2>3. w[part] = body[unit].outBW[part]
    BY <1>2, <2>2 DEF Lowers
  <2>4. Progress' = PartStep(es, w, part, names, resBW, resSuffix, Rest(gen), outs)
    <3>1. CASE OnlyVar(Root)
      <4>1. Rest(gen') = Stated(Rest(gen), resSuffix + 1, resSuffix + 1, "port", names, Width)
        BY <1>5, <3>1, GenerateRest DEF EndPart
      <4>2. UnderCasts[es[part]].op = "var"
        BY <3>1 DEF OnlyVar, Root
      <4> QED
        BY <1>5, <2>1, <2>3, <3>1, <4>1, <4>2 DEF EndPart, PartStep, Progress, Width
    <3>2. CASE ~OnlyVar(Root)
      <4>2. UnderCasts[es[part]].op # "var"
        BY <3>2 DEF OnlyVar, Root
      <4> QED
        BY <1>5, <2>1, <2>3, <3>2, <4>2 DEF EndPart, PartStep, Progress, genVars
    <3> QED
      BY <3>1, <3>2
  <2>5. ~Ended(es, Progress)
    BY <2>1 DEF Ended, Progress
  <2> QED
    BY <1>0, <1>5, <2>1, <2>4, <2>5 DEF EndPart, OneStep, Own, libVars
<1> QED
  BY <1>3, <1>4, <1>5

\* A step of a unit takes what was reached to what is reached.
LEMMA StepReached ==
  ASSUME OneStep, NEW es, es = body[unit].exprs, NEW w, w = OutWidths(body[unit]),
         Reached(es, w, Bare(Progress))
  PROVE  Reached(es, w, Bare(Progress'))
<1>1. ~Ended(es, Progress) /\ Progress' = Advance(es, w, Progress)
  BY DEF OneStep, Own
<1>2. ~Ended(es, Bare(Progress))
  BY <1>1 DEF Ended, Bare
<1>3. Bare(Advance(es, w, Bare(Progress))) = Bare(Advance(es, w, Progress))
  <2>1. CASE todo = <<>> /\ names = <<>>
    <3>1. Bare(Progress) = <<part, <<>>, <<>>, <<>>, resSuffix, Rest(gen), outs>>
      BY <2>1 DEF Bare, Progress
    <3>2. /\ Advance(es, w, Bare(Progress)) = PartStep(es, w, part, <<>>, <<>>, resSuffix, Rest(gen), outs)
          /\ Advance(es, w, Progress) = PartStep(es, w, part, <<>>, resBW, resSuffix, Rest(gen), outs)
      BY <2>1, <3>1 DEF Advance, Progress
    <3>3. CASE es[part].op = "int"
      BY <3>2, <3>3 DEF PartStep, Bare
    <3>4. CASE es[part].op # "int"
      BY <3>2, <3>4 DEF PartStep
    <3> QED
      BY <3>3, <3>4
  <2>2. CASE ~(todo = <<>> /\ names = <<>>)
    <3>1. Bare(Progress) = Progress
      BY <2>2 DEF Bare, Progress
    <3> QED
      BY <3>1
  <2> QED
    BY <2>1, <2>2
<1> QED
  BY <1>1, <1>2, <1>3, ReachedNext

\* The outputs o of the parts before p have the widths w.
Sized(es, w, o, p) ==
  /\ IsSeq(o) /\ Len(o) = Cardinality({q \in Calculated(es) : q < p})
  /\ w = [q \in Calculated(es) |-> w[q]]
  /\ \A q \in Calculated(es) : q < p => o[Cardinality({n \in Calculated(es) : n <= q})].bw = w[q]

\* A printed unit: its expressions and widths, how far it came, and its name.
NamedAs(i, es, w, K) ==
  /\ Reached(es, w, K) /\ Ended(es, K) /\ K[6] = Rest(i.gen) /\ K[7] = i.outs
  /\ es \in Seq(Exprs) /\ Sized(es, w, i.outs, Len(es) + 1)
  /\ i.instance = [proc |-> es, args |-> i.gen.argBW,
                   outs |-> [j \in DOMAIN i.outs |-> i.outs[j].bw]]
Named(i) == \E es, w, K : NamedAs(i, es, w, K)

\* The inductive invariant.
NameInv ==
  /\ Inv
  /\ unit <= Len(body) =>
       /\ Reached(body[unit].exprs, OutWidths(body[unit]), Bare(Progress))
       /\ Sized(body[unit].exprs, OutWidths(body[unit]), outs, part)
  /\ \A n \in DOMAIN instances : Named(instances[n])

\* The calculated parts up to one of them.
LEMMA CountParts ==
  ASSUME NEW es \in Seq(Exprs), NEW p \in 1 .. Len(es)
  PROVE  LET before == {q \in Calculated(es) : q < p}
             upto == {q \in Calculated(es) : q <= p}
         IN  /\ upto = {q \in Calculated(es) : q < p + 1}
             /\ Cardinality(before) \in Nat
             /\ Cardinality(upto) = Cardinality(before) + (IF p \in Calculated(es) THEN 1 ELSE 0)
<1> DEFINE before == {q \in Calculated(es) : q < p}
           upto == {q \in Calculated(es) : q <= p}
<1>1. Len(es) \in Nat /\ DOMAIN es = 1 .. Len(es)
  OBVIOUS
<1>2. Calculated(es) \subseteq 1 .. Len(es)
  BY <1>1 DEF Calculated
<1>3. IsFiniteSet(before)
  <2>1. before \subseteq 1 .. Len(es) /\ IsFiniteSet(1 .. Len(es))
    BY <1>1, <1>2, FS_Interval
  <2> QED
    BY <2>1, FS_Subset
<1>4. upto = {q \in Calculated(es) : q < p + 1}
  BY <1>2
<1>5. Cardinality(before) \in Nat
  BY <1>3, FS_CardinalityType
<1>6. p \notin before /\ upto = IF p \in Calculated(es) THEN before \cup {p} ELSE before
  BY <1>2
<1>7. Cardinality(before \cup {p}) = Cardinality(before) + 1
  BY <1>3, <1>6, FS_AddElement
<1>8. Cardinality(upto) = Cardinality(before) + (IF p \in Calculated(es) THEN 1 ELSE 0)
  <2>1. CASE p \in Calculated(es)
    BY <1>6, <1>7, <2>1
  <2>2. CASE p \notin Calculated(es)
    <3>1. upto = before
      BY <1>6, <2>2
    <3> HIDE DEF before, upto
    <3> QED
      BY <1>5, <2>2, <3>1
  <2> QED
    BY <2>1, <2>2
<1> QED
  BY <1>4, <1>5, <1>8

\* Fewer parts come before an earlier one.
LEMMA CountFewer ==
  ASSUME NEW es \in Seq(Exprs), NEW p \in 1 .. Len(es), NEW q \in Calculated(es), q < p
  PROVE  /\ Cardinality({n \in Calculated(es) : n <= q}) \in Nat
         /\ Cardinality({n \in Calculated(es) : n <= q}) >= 1
         /\ Cardinality({n \in Calculated(es) : n <= q}) <= Cardinality({n \in Calculated(es) : n < p})
<1> DEFINE S == {n \in Calculated(es) : n <= q}
           T == {n \in Calculated(es) : n < p}
<1>1. Len(es) \in Nat /\ DOMAIN es = 1 .. Len(es) /\ Calculated(es) \subseteq 1 .. Len(es)
  BY DEF Calculated
<1>2. IsFiniteSet(T)
  <2>1. T \subseteq 1 .. Len(es) /\ IsFiniteSet(1 .. Len(es))
    BY <1>1, FS_Interval
  <2> QED
    BY <2>1, FS_Subset
<1>3. S \subseteq T
  BY <1>1
<1>4. IsFiniteSet(S) /\ Cardinality(S) <= Cardinality(T)
  BY <1>2, <1>3, FS_Subset
<1>5. Cardinality(S) \in Nat /\ Cardinality(S) # 0
  <2>1. S # {}
    BY <1>1
  <2> QED
    BY <1>4, <2>1, FS_CardinalityType, FS_EmptySet
<1>6. Cardinality(S) >= 1
  <2> HIDE DEF S
  <2> QED
    BY <1>5
<1> QED
  BY <1>4, <1>5, <1>6

\* A part is done: one output more if it is calculated.
LEMMA SizedMore ==
  ASSUME NEW es \in Seq(Exprs), NEW p \in 1 .. Len(es), NEW w, NEW o, Sized(es, w, o, p),
         NEW u, IF p \in Calculated(es) THEN \E r : u = Append(o, [res |-> r, bw |-> w[p]])
                ELSE u = o
  PROVE  Sized(es, w, u, p + 1)
<1> DEFINE Upto(q) == Cardinality({n \in Calculated(es) : n <= q})
           Before(q) == Cardinality({n \in Calculated(es) : n < q})
<1>1. /\ IsSeq(o) /\ Len(o) = Before(p) /\ w = [q \in Calculated(es) |-> w[q]]
      /\ \A q \in Calculated(es) : q < p => o[Upto(q)].bw = w[q]
  BY DEF Sized
<1>2. /\ Before(p + 1) = Upto(p) /\ Before(p) \in Nat
      /\ Upto(p) = Before(p) + (IF p \in Calculated(es) THEN 1 ELSE 0)
  BY CountParts
<1>3. Len(es) \in Nat /\ DOMAIN es = 1 .. Len(es) /\ Calculated(es) \subseteq 1 .. Len(es)
  BY DEF Calculated
<1>4. \A q \in Calculated(es) : q < p + 1 => (q < p \/ q = p)
  BY <1>3
<1>5. ASSUME NEW q \in Calculated(es), q < p
      PROVE  Upto(q) \in 1 .. Len(o)
  <2>1. Upto(q) \in Nat /\ Upto(q) >= 1 /\ Upto(q) <= Before(p)
    BY <1>5, CountFewer
  <2> HIDE DEF Upto, Before
  <2> QED
    BY <1>1, <1>2, <2>1
<1>6. CASE p \in Calculated(es)
  <2>1. PICK x : u = Append(o, x) /\ x.bw = w[p]
    <3>1. PICK r : u = Append(o, [res |-> r, bw |-> w[p]])
      BY <1>6
    <3>2. [res |-> r, bw |-> w[p]].bw = w[p]
      OBVIOUS
    <3> QED
      BY <3>1, <3>2
  <2>2. IsSeq(u) /\ Len(u) = Len(o) + 1 /\ u[Len(o) + 1] = x /\ \A i \in 1 .. Len(o) : u[i] = o[i]
    <3>1. IsSeq(o)
      BY <1>1
    <3> QED
      BY ONLY <2>1, <3>1, AppendIsSeq
  <2>3. Len(u) = Before(p + 1) /\ Upto(p) = Len(o) + 1
    <3>1. Len(o) = Before(p)
      BY <1>1
    <3> HIDE DEF Before, Upto
    <3> QED
      BY <1>2, <1>6, <2>2, <3>1
  <2>4. ASSUME NEW q \in Calculated(es), q < p + 1 PROVE u[Upto(q)].bw = w[q]
    <3>1. CASE q < p
      <4>1. u[Upto(q)] = o[Upto(q)]
        BY <1>5, <2>2, <3>1
      <4> QED
        BY <1>1, <3>1, <4>1
    <3>2. CASE q = p
      BY <2>1, <2>2, <2>3, <3>2
    <3> QED
      BY <1>4, <2>4, <3>1, <3>2
  <2> QED
    BY <1>1, <2>2, <2>3, <2>4 DEF Sized
<1>7. CASE p \notin Calculated(es)
  <2>1. u = o /\ Len(u) = Before(p + 1)
    BY <1>1, <1>2, <1>7
  <2>2. ASSUME NEW q \in Calculated(es), q < p + 1 PROVE u[Upto(q)].bw = w[q]
    BY <1>1, <1>4, <1>7, <2>1, <2>2
  <2> QED
    BY <1>1, <2>1, <2>2 DEF Sized
<1> QED
  BY <1>6, <1>7

\* No part is done.
LEMMA SizedNone ==
  ASSUME NEW b, b.exprs \in Seq(Exprs)
  PROVE  Sized(b.exprs, OutWidths(b), <<>>, 1)
<1>1. \A q \in Calculated(b.exprs) : q \in 1 .. Len(b.exprs)
  BY DEF Calculated
<1>2. {q \in Calculated(b.exprs) : q < 1} = {} /\ \A q \in Calculated(b.exprs) : ~(q < 1)
  BY <1>1
<1>3. OutWidths(b) = [q \in Calculated(b.exprs) |-> OutWidths(b)[q]]
  BY DEF OutWidths
<1>4. IsSeq(<<>>) /\ Len(<<>>) = 0
  <2>1. <<>> \in Seq({})
    OBVIOUS
  <2> QED
    BY <2>1, SeqIsSeq
<1> QED
  BY <1>2, <1>3, <1>4, FS_EmptySet DEF Sized

\* A unit starts.
LEMMA StartReached ==
  ASSUME NEW es, NEW w
  PROVE  Reached(es, w, <<1, <<>>, <<>>, <<>>, -1, Rest(EmptyGen), <<>>>>)
<1> DEFINE f == [i \in Nat |-> <<1, <<>>, <<>>, <<>>, -1, Rest(EmptyGen), <<>>>>]
<1>1. \A i \in Nat : ~(i < 0)
  OBVIOUS
<1>2. f[0] = <<1, <<>>, <<>>, <<>>, -1, Rest(EmptyGen), <<>>>>
  OBVIOUS
<1>3. Traced(es, w, f, 0, <<1, <<>>, <<>>, <<>>, -1, Rest(EmptyGen), <<>>>>)
  <2> HIDE DEF f
  <2> QED
    BY <1>1, <1>2 DEF Traced
<1> QED
  BY <1>3 DEF Reached

\* The units of the body, once more.
LEMMA UnitFacts ==
  ASSUME Inv
  PROVE  /\ Len(body) \in Nat /\ unit \in Nat \ {0}
         /\ \A u \in 1 .. Len(body) : body[u].exprs \in Seq(Exprs)
         /\ unit <= Len(body) => unit \in 1 .. Len(body)
<1>1. body \in Seq({body[i] : i \in DOMAIN body})
  BY BodyAssumption DEF Inv
<1> QED
  BY <1>1, BodyFacts DEF Inv

\* A step within a unit, whose parts end as Sized says.
LEMMA OneStepNamed ==
  ASSUME NameInv, Inv', OneStep,
         unit <= Len(body) => Sized(body[unit].exprs, OutWidths(body[unit]), outs', part')
  PROVE  NameInv'
<1>1. UNCHANGED <<body, unit, instances>>
  BY DEF OneStep
<1>2. (unit <= Len(body) => /\ Reached(body[unit].exprs, OutWidths(body[unit]), Bare(Progress))
                            /\ Sized(body[unit].exprs, OutWidths(body[unit]), outs, part))'
  <2>1. ASSUME unit <= Len(body)
        PROVE  Reached(body[unit].exprs, OutWidths(body[unit]), Bare(Progress'))
    BY <2>1, StepReached DEF NameInv
  <2> QED
    BY <1>1, <2>1
<1>3. (\A n \in DOMAIN instances : Named(instances[n]))'
  BY <1>1 DEF NameInv
<1> QED
  BY <1>2, <1>3 DEF NameInv

\* In the middle of a part no output is added.
LEMMA MiddleNamed ==
  ASSUME NameInv, Inv', OneStep, UNCHANGED <<outs, part>>
  PROVE  NameInv'
BY OneStepNamed DEF NameInv

\* A part ends.
LEMMA PartNamed ==
  ASSUME NameInv, Inv', CreateSource \/ LowerPart \/ EndPart
  PROVE  NameInv'
<1>1. OneStep
  BY PartOne DEF NameInv
<1>2. CASE LowerPart
  BY <1>1, <1>2, MiddleNamed DEF LowerPart
<1> DEFINE es == body[unit].exprs
           w == OutWidths(body[unit])
<1>3. CASE CreateSource
  <2>1. /\ unit <= Len(body) /\ part <= Len(es) /\ es[part].op = "int"
        /\ part' = part + 1 /\ outs' = outs
    BY <1>3 DEF CreateSource, Between, Root
  <2>2. es \in Seq(Exprs) /\ Len(es) \in Nat /\ DOMAIN es = 1 .. Len(es)
    BY <2>1, UnitFacts DEF NameInv
  <2>3. part \in 1 .. Len(es) /\ part \notin Calculated(es)
    BY <2>1, <2>2 DEF Calculated, NameInv, Inv
  <2>4. Sized(es, w, outs, part)
    BY <2>1 DEF NameInv
  <2>5. Sized(es, w, outs', part + 1)
    <3> HIDE DEF es, w
    <3> QED
      BY <2>1, <2>2, <2>3, <2>4, SizedMore
  <2> QED
    BY <1>1, <2>1, <2>5, OneStepNamed
<1>4. CASE EndPart
  <2>1. /\ names # <<>> /\ part' = part + 1
        /\ \E r : outs' = Append(outs, [res |-> r, bw |-> body[unit].outBW[part]])
    BY <1>4 DEF EndPart
  <2>2. Lowers
    BY <2>1 DEF NameInv, Inv, Idles
  <2>3. unit \in 1 .. Len(body) /\ part \in 1 .. Len(es) /\ es[part].op # "int"
    BY <2>2 DEF Lowers, Root
  <2>4. unit <= Len(body)
    BY <2>3, UnitFacts DEF NameInv
  <2>5. es \in Seq(Exprs) /\ part \in Calculated(es)
    BY <2>3, UnitFacts DEF NameInv, Calculated
  <2>6. w[part] = body[unit].outBW[part]
    BY <2>5 DEF OutWidths
  <2>7. Sized(es, w, outs, part)
    BY <2>4 DEF NameInv
  <2>8. Sized(es, w, outs', part + 1)
    <3>1. \E r : outs' = Append(outs, [res |-> r, bw |-> w[part]])
      BY <2>1, <2>6
    <3> HIDE DEF es, w
    <3> QED
      BY <2>3, <2>5, <2>7, <3>1, SizedMore
  <2> QED
    BY <1>1, <2>1, <2>8, OneStepNamed
<1> QED
  BY <1>2, <1>3, <1>4

\* A unit is named after what it is: its expressions and the widths of its
\* arguments and outputs.
LEMMA PrintNamed == ASSUME NameInv, Inv', PrintUnit PROVE NameInv'
<1> DEFINE es == body[unit].exprs
           w == OutWidths(body[unit])
<1>1. /\ unit <= Len(body) /\ todo = <<>> /\ names = <<>> /\ part > Len(es)
      /\ unit' = unit + 1 /\ part' = 1 /\ resSuffix' = -1 /\ gen' = EmptyGen /\ outs' = <<>>
      /\ UNCHANGED <<body, todo, names>>
  BY DEF PrintUnit, Between
<1>2. es \in Seq(Exprs) /\ Len(es) \in Nat
  BY <1>1, UnitFacts DEF NameInv
<1>3. ASSUME unit + 1 <= Len(body)
      PROVE  /\ Reached(body[unit + 1].exprs, OutWidths(body[unit + 1]), Bare(Progress'))
             /\ Sized(body[unit + 1].exprs, OutWidths(body[unit + 1]), outs', part')
  <2>1. unit + 1 \in 1 .. Len(body)
    BY <1>3, UnitFacts DEF NameInv
  <2>2. body[unit + 1].exprs \in Seq(Exprs)
    BY <2>1, UnitFacts DEF NameInv
  <2>3. Bare(Progress') = <<1, <<>>, <<>>, <<>>, -1, Rest(EmptyGen), <<>>>>
    BY <1>1 DEF Bare, Progress
  <2> QED
    BY <1>1, <2>2, <2>3, StartReached, SizedNone
<1>4. ASSUME gen.calc # <<>>
      PROVE  \E i : instances' = Append(instances, i) /\ Named(i)
  <2>1. PICK i : i = [name |-> ProcName(body[unit]), of |-> unit, gen |-> gen, outs |-> outs,
                      instance |-> FUName(body[unit], gen.argBW, outs)]
    OBVIOUS
  <2>2. instances' = Append(instances, i)
    BY <1>4, <2>1 DEF PrintUnit
  <2>3. PICK K : K = Bare(Progress)
    OBVIOUS
  <2>4. Reached(es, w, K)
    BY <1>1, <2>3 DEF NameInv
  <2>5. Ended(es, K) /\ K[6] = Rest(gen) /\ K[7] = outs
    BY <1>1, <2>3 DEF Ended, Bare, Progress
  <2>6. Sized(es, w, outs, Len(es) + 1)
    <3>1. Sized(es, w, outs, part)
      BY <1>1 DEF NameInv
    <3>2. \A q \in Calculated(es) : q < part /\ q < Len(es) + 1
      BY <1>1, <1>2 DEF Calculated, NameInv, Inv
    <3>3. {q \in Calculated(es) : q < part} = {q \in Calculated(es) : q < Len(es) + 1}
      BY <3>2
    <3> HIDE DEF es, w
    <3> QED
      BY <3>1, <3>2, <3>3 DEF Sized
  <2>7. i.gen = gen /\ i.outs = outs /\ i.instance = FUName(body[unit], gen.argBW, outs)
    BY <2>1
  <2>8. i.instance = [proc |-> es, args |-> i.gen.argBW,
                      outs |-> [j \in DOMAIN i.outs |-> i.outs[j].bw]]
    BY <2>7 DEF FUName, ProcName
  <2>9. NamedAs(i, es, w, K)
    BY <1>2, <2>4, <2>5, <2>6, <2>7, <2>8 DEF NamedAs
  <2> QED
    BY <2>2, <2>9 DEF Named
<1>5. (\A n \in DOMAIN instances : Named(instances[n]))'
  <2>1. CASE gen.calc = <<>>
    BY <2>1 DEF NameInv, PrintUnit, libVars
  <2>2. CASE gen.calc # <<>>
    <3>1. PICK i : instances' = Append(instances, i) /\ Named(i)
      BY <1>4, <2>2
    <3>2. IsSeq(instances)
      BY DEF NameInv, Inv, Past
    <3>3. /\ Len(instances) \in Nat
          /\ DOMAIN instances = 1 .. Len(instances)
          /\ DOMAIN instances' = 1 .. Len(instances) + 1
          /\ instances'[Len(instances) + 1] = i
          /\ \A n \in 1 .. Len(instances) : instances'[n] = instances[n]
      BY <3>1, <3>2, AppendIsSeq
    <3>4. \A n \in 1 .. Len(instances) + 1 : n \in 1 .. Len(instances) \/ n = Len(instances) + 1
      BY <3>3
    <3> QED
      BY <3>1, <3>3, <3>4 DEF NameInv
  <2> QED
    BY <2>1, <2>2
<1> QED
  BY <1>1, <1>3, <1>5 DEF NameInv

\* Every step preserves the invariant.
LEMMA NextNamed == ASSUME NameInv, [Next]_vars PROVE NameInv'
<1>1. Inv'
  BY NextInv DEF NameInv
<1>2. CASE CallInt \/ CallCast \/ CallBool \/ CallOperator \/ CallQuery \/ CallConcat
           \/ ReturnCondition
  <2>1. OneStep
    BY <1>2, SilentOne DEF NameInv
  <2>2. UNCHANGED <<outs, part>>
    BY <1>2 DEF CallInt, CallCast, CallBool, CallOperator, CallQuery, CallConcat, ReturnCondition
  <2> QED
    BY <1>1, <2>1, <2>2, MiddleNamed
<1>3. CASE CallVar
  <2>1. OneStep
    BY <1>3, CallVarOne DEF NameInv
  <2> QED
    BY <1>1, <1>3, <2>1, MiddleNamed DEF CallVar
<1>4. CASE EmitOperator \/ EmitQuery \/ EmitConcat
  <2>1. OneStep
    BY <1>4, EmitOne DEF NameInv
  <2>2. UNCHANGED <<outs, part>>
    BY <1>4 DEF EmitOperator, EmitQuery, EmitConcat
  <2> QED
    BY <1>1, <2>1, <2>2, MiddleNamed
<1>5. CASE CreateSource \/ LowerPart \/ EndPart
  BY <1>1, <1>5, PartNamed
<1>6. CASE PrintUnit
  BY <1>1, <1>6, PrintNamed
<1>7. CASE RejectQuery \/ UNCHANGED vars
  <2>1. UNCHANGED <<body, unit, part, todo, names, resBW, resSuffix, gen, outs, instances>>
    BY <1>7 DEF RejectQuery, vars, genVars, libVars
  <2>2. Progress' = Progress
    BY <2>1 DEF Progress
  <2> QED
    BY <1>1, <2>1, <2>2 DEF NameInv
<1> QED
  BY <1>2, <1>3, <1>4, <1>5, <1>6, <1>7 DEF Next

\* Nothing is printed at the start.
LEMMA InitNamed == Init => NameInv
<1> SUFFICES ASSUME Init PROVE NameInv
  OBVIOUS
<1>1. Inv
  BY InitInv
<1>2. /\ unit = 1 /\ part = 1 /\ todo = <<>> /\ names = <<>> /\ resSuffix = -1
      /\ gen = EmptyGen /\ outs = <<>> /\ instances = <<>>
  BY DEF Init
<1>3. unit <= Len(body) => body[unit].exprs \in Seq(Exprs)
  BY <1>1, UnitFacts
<1>4. Bare(Progress) = <<1, <<>>, <<>>, <<>>, -1, Rest(EmptyGen), <<>>>>
  BY <1>2 DEF Bare, Progress
<1> QED
  BY <1>1, <1>2, <1>3, <1>4, StartReached, SizedNone DEF NameInv

\* Units of one name were lowered alike.
LEMMA SameName ==
  ASSUME NEW i, NEW j, Named(i), Named(j), i.instance = j.instance
  PROVE  i.gen.hidden = j.gen.hidden /\ i.gen.argBW = j.gen.argBW /\ i.outs = j.outs
<1>1. PICK es, w, K : NamedAs(i, es, w, K)
  BY DEF Named
<1>2. PICK ds, v, L : NamedAs(j, ds, v, L)
  BY DEF Named
<1>3. /\ es = ds /\ i.gen.argBW = j.gen.argBW
      /\ [k \in DOMAIN i.outs |-> i.outs[k].bw] = [k \in DOMAIN j.outs |-> j.outs[k].bw]
  <2>1. PICK a, b, c, d : /\ a = i.gen.argBW /\ b = j.gen.argBW
                          /\ c = [k \in DOMAIN i.outs |-> i.outs[k].bw]
                          /\ d = [k \in DOMAIN j.outs |-> j.outs[k].bw]
    OBVIOUS
  <2>2. [proc |-> es, args |-> a, outs |-> c] = [proc |-> ds, args |-> b, outs |-> d]
    BY <1>1, <1>2, <2>1 DEF NamedAs
  <2>3. es = ds /\ a = b /\ c = d
    BY ONLY <2>2
  <2> QED
    BY <2>1, <2>3
<1>4. DOMAIN i.outs = DOMAIN j.outs /\ \A k \in DOMAIN i.outs : i.outs[k].bw = j.outs[k].bw
  <2>1. DOMAIN i.outs = DOMAIN j.outs
    BY <1>3
  <2> QED
    BY <1>3, <2>1
<1>5. w = v
  <2>1. Sized(es, w, i.outs, Len(es) + 1) /\ Sized(es, v, j.outs, Len(es) + 1) /\ es \in Seq(Exprs)
    BY <1>1, <1>2, <1>3 DEF NamedAs
  <2>2. ASSUME NEW q \in Calculated(es) PROVE w[q] = v[q]
    <3>1. q \in 1 .. Len(es) /\ Len(es) \in Nat /\ q < Len(es) + 1
      BY <2>1 DEF Calculated
    <3>2. PICK k : k = Cardinality({n \in Calculated(es) : n <= q})
      OBVIOUS
    <3>3. k \in 1 .. Len(i.outs)
      <4>1. Cardinality({n \in Calculated(es) : n < q}) \in Nat
            /\ k = Cardinality({n \in Calculated(es) : n < q}) + 1
        BY <2>1, <3>1, <3>2, CountParts
      <4>2. k <= Len(i.outs) /\ Len(i.outs) \in Nat
        <5>1. Len(i.outs) = Cardinality({n \in Calculated(es) : n < Len(es) + 1})
          BY <2>1 DEF Sized
        <5>2. IsFiniteSet({n \in Calculated(es) : n < Len(es) + 1})
          <6>1. {n \in Calculated(es) : n < Len(es) + 1} \subseteq 1 .. Len(es)
            BY <2>1 DEF Calculated
          <6>2. IsFiniteSet(1 .. Len(es))
            BY <3>1, FS_Interval
          <6> QED
            BY <6>1, <6>2, FS_Subset
        <5>3. {n \in Calculated(es) : n <= q} \subseteq {n \in Calculated(es) : n < Len(es) + 1}
          <6>1. \A n \in Calculated(es) : n < Len(es) + 1
            BY <2>1, <3>1 DEF Calculated
          <6> QED
            BY <6>1
        <5>4. Cardinality({n \in Calculated(es) : n <= q}) <=
                Cardinality({n \in Calculated(es) : n < Len(es) + 1})
          BY <5>2, <5>3, FS_Subset
        <5>5. Cardinality({n \in Calculated(es) : n < Len(es) + 1}) \in Nat
          BY <5>2, FS_CardinalityType
        <5> QED
          BY <3>2, <5>1, <5>4, <5>5
      <4> QED
        BY <4>1, <4>2
    <3>4. k \in DOMAIN i.outs
      BY <2>1, <3>3 DEF Sized, IsSeq
    <3>5. w[q] = i.outs[k].bw /\ v[q] = j.outs[k].bw
      BY <2>1, <3>1, <3>2 DEF Sized
    <3> QED
      BY <1>4, <3>4, <3>5
  <2> QED
    BY <2>1, <2>2 DEF Sized
<1>6. K = L
  BY <1>1, <1>2, <1>3, <1>5, EndsOnce DEF NamedAs
<1>7. Rest(i.gen) = Rest(j.gen) /\ i.outs = j.outs
  BY <1>1, <1>2, <1>6 DEF NamedAs
<1>8. i.gen.hidden = j.gen.hidden
  BY <1>7 DEF Rest
<1> QED
  BY <1>3, <1>7, <1>8

\* The name of an instance decides its netlist: units of one name have the same
\* hidden expressions, widths of arguments and outputs, whatever process they
\* come from, so what is cached under the name fits all of them.
THEOREM NameDeterminesNetlistAlways == Spec => []NameDeterminesNetlist
<1>1. NameInv => NameDeterminesNetlist
  BY SameName DEF NameInv, NameDeterminesNetlist
<1>2. NameInv /\ [Next]_vars => NameInv'
  BY NextNamed
<1> QED
  BY InitNamed, <1>1, <1>2, PTL DEF Spec
==============================================================================
