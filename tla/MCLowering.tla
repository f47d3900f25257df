----------------------------- MODULE MCLowering -----------------------------
(* Every expression of one operator over two identifiers and a literal, an *)
(* operator in any operand of another, and pairs of them as clusters and   *)
(* as the units of one process.                                            *)
EXTENDS Lowering

CONSTANT Tests  \* the bodies of a test file, or all the generated ones

Node(op, n, args) == [op |-> op, n |-> n, args |-> args]
X(i) == Node("var", i, <<>>)
Lit(v) == Node("int", v, <<>>)
Cast(e, w) == Node("cast", w, <<e>>)
Not(e) == Node("not", 0, <<e>>)
Bool(e) == Node("bool", 0, <<e>>)
Plus(e, f) == Node("plus", 0, <<e, f>>)
Lt(e, f) == Node("lt", 0, <<e, f>>)
Concat(e, f) == Node("concat", 0, <<e, f>>)
Query(c, e, f) == Node("query", 0, <<c, e, f>>)

Vars == {X(1), X(2)}
Leaves == Vars \cup {Lit(1)}

\* One operator with an operand from S and the others leaves.
Over(S) ==
  UNION {{Plus(e, l), Plus(l, e), Lt(e, l), Lt(l, e)} : e \in S, l \in Vars} \cup
  {Cast(e, w) : e \in S, w \in {1, 2}} \cup
  UNION {{Not(e), Bool(e), Concat(e, X(2)), Concat(X(1), e),
          Query(e, X(1), X(2)), Query(X(1), e, X(2)), Query(X(2), X(1), e)} : e \in S}

Simple == Over(Leaves)
Nested == Over(Simple)

\* The identifiers are numbered in the order they are met.
FirstUses[e \in Leaves \cup Simple \cup Nested] ==
  IF e.op = "var" THEN {e.n}
  ELSE LET with == {i \in DOMAIN e.args : FirstUses[e.args[i]] # {}}
       IN  IF with = {} THEN {}
           ELSE FirstUses[e.args[CHOOSE i \in with : \A j \in with : i <= j]]
Numbered(S) == {e \in S : FirstUses[e] = {1}}

Unit1(es, inBW, outBW) == [exprs |-> es, inBW |-> inBW, outBW |-> outBW]

\* tests/init.act, with 2 bits for 32: calc_I7_ is int<1>.
InitAct == Cast(Lt(Cast(Plus(X(1), Lit(1)), 2), X(2)), 1)

Widths2 == {<<1, 1>>, <<1, 2>>, <<2, 1>>, <<2, 2>>}
Singles == {<<Unit1(<<e>>, <<1, 2>>, <<w>>)>> : e \in Numbered(Nested), w \in {1, 2}} \cup
           {<<Unit1(<<e>>, in, <<w>>)>> : e \in Numbered(Simple \cup Vars), in \in Widths2,
                                         w \in 1 .. 3}
Few == {Plus(X(1), X(2)), Lt(X(1), X(2)), Plus(Lt(X(1), X(2)), X(1)), X(1),
        Query(X(1), X(2), Plus(X(1), X(2))), Bool(X(1)), Concat(X(1), X(2))}
Clusters == {<<Unit1(<<e, f>>, <<1, 2>>, <<2, w>>)>> : e \in Few \cup {Lit(1)}, f \in Few,
                                                      w \in {1, 2}}
Pairs == {<<Unit1(<<e>>, <<1, 2>>, <<v>>), Unit1(<<f>>, in, <<w>>)>> :
            e \in Few, f \in Few, in \in {<<1, 1>>, <<2, 2>>}, v \in {1, 2}, w \in {1, 2}}
Triples == {<<Unit1(<<e>>, <<1, 1>>, <<1>>), Unit1(<<f>>, <<1, 1>>, <<1>>),
              Unit1(<<g>>, <<1, 1>>, <<1>>)>> : e \in Few, f \in Few, g \in Few}

MCExprs == Leaves \cup Simple \cup Nested \cup {InitAct} \cup Few \cup
           {InitAct.args[1], InitAct.args[1].args[1]}
MCBodies == IF Tests THEN {<<Unit1(<<InitAct>>, <<2, 2>>, <<1>>)>>}
            ELSE Singles \cup Clusters \cup Pairs \cup Triples
=============================================================================
