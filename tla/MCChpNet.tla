------------------------------ MODULE MCChpNet ------------------------------
(* Bodies after the test programs, small enough for every interleaving.    *)
EXTENDS ChpNet

CONSTANTS c1, c2, c3, c4, c5, c6, c7, c8, c9, c10, c11, c12, Stored, Unstored

MCChan == {c1, c2, c3, c4, c5, c6, c7, c8, c9, c10, c11, c12}

Fn == [t |-> "func", lhs |-> "other", buf |-> FALSE]
Lit == [Fn EXCEPT !.lhs = "int"]
Elem(t, in, guard, out, parts) ==
  [t |-> t, in |-> in, guard |-> guard, out |-> out, parts |-> parts]
Func(in, out) == Elem("func", in, NoChan, <<out>>, <<Fn>>)
Const(out) == Elem("func", <<>>, NoChan, <<out>>, <<Lit>>)
Buffered(in, out) ==
  Elem("func", <<in>>, NoChan, <<out>>, <<[Fn EXCEPT !.buf = TRUE]>>)
Split(g, in, outs) == Elem("split", <<in>>, g, outs, <<>>)
Merge(g, ins, out) == Elem("merge", ins, g, <<out>>, <<>>)

\* tests/if.act: 3 > 2, and the taken branch adds 1.
If == << Const(c1), Const(c2), Const(c3),
         Func(<<c7>>, c5), Func(<<c1, c2>>, c4), Func(<<c8, c3>>, c6),
         Merge(c4, <<c5, c6>>, c9), Split(c4, c1, <<c7, c8>>) >>

\* tests/loop.act: s and i start at 0; i is counted up to 2, s sums it; the
\* sum leaves the loop and the last i is dropped.  With buf, the channel of
\* the sum has a buffer.
LoopOf(buf) ==
  << Const(c1), Const(c2),
     Elem("func", <<c3, c4>>, NoChan, <<c5>>, <<[Fn EXCEPT !.buf = buf]>>),
     Func(<<c3>>, c6), Func(<<c6>>, c7), Buffered(c6, c8), Buffered(c6, c9),
     Merge(c8, <<c1, c10>>, c3), Merge(c9, <<c2, c11>>, c4),
     Split(c7, c5, <<c12, c11>>), Split(c7, c6, <<NoChan, c10>>) >>
Loop == LoopOf(FALSE)
BufferedLoop == LoopOf(TRUE)

\* Five reads of one channel behind a COPY tree, two of them by one split.
Fan == << Func(<<c1, c1>>, c2), Split(c1, c1, <<c3, NoChan>>), Func(<<c1>>, c4),
          Func(<<c1>>, c5) >>

\* A cluster with a literal, buffer chains and a split with dropped outputs.
Chain == << Elem("cluster", <<c1, c2>>, NoChan, <<c3, c4, c5>>,
                 <<[Fn EXCEPT !.buf = TRUE], Lit, [Fn EXCEPT !.buf = TRUE]>>),
            Split(c3, c5, <<NoChan, c6, NoChan>>), Buffered(c4, c7) >>

\* An arbiter whose datum and choice are calculated with; the control is as
\* wide as the data, or one bit (enough for the choice between two inputs).
ArbiterOf(control) ==
  << Elem("arbiter", <<c1, c2>>, NoChan, <<c3, control>>, <<>>),
     Func(<<c3, control>>, c6) >>
Arbiter == ArbiterOf(c4)
Narrowed == ArbiterOf(c5)

MCWidth(q, c) ==
  CASE q = Narrowed /\ c = c5 -> 1
    [] q \in {Arbiter, Narrowed} /\ c # c6 -> 2
    [] OTHER -> 4

\* A merge whose unselected input has a token waiting.
Steer == << Merge(c1, <<c2, c3>>, c4) >>

Named(n) ==
  CASE n = "if" -> If [] n = "loop" -> Loop [] n = "bufloop" -> BufferedLoop
    [] n = "fan" -> Fan [] n = "chain" -> Chain [] n = "steer" -> Steer
    [] n = "narrow" -> Narrowed [] OTHER -> Arbiter

MCPrograms == {Named(n) : n \in Stored \cup Unstored}
MCBuilds(q) == {b \in BOOLEAN : \E n \in IF b THEN Stored ELSE Unstored : Named(n) = q}

Bit(b) == IF b THEN 1 ELSE 0

Calculated(q, i, o, v) ==
  CASE q = If -> (CASE i = 1 -> 3 [] i = 2 -> 2 [] i = 3 -> 1
                    [] i = 4 -> v[1] + 5 [] i = 5 -> Bit(v[1] > v[2])
                    [] OTHER -> v[1] + v[2])
    [] q \in {Loop, BufferedLoop} -> (CASE i \in {1, 2} -> 0 [] i = 3 -> v[1] + v[2] [] i = 4 -> v[1] + 1
                      [] OTHER -> Bit(v[1] < 2))
    [] q = Fan -> v[1] + 5
    [] q = Chain -> (CASE i # 1 -> v[1] + 1 [] o = 1 -> v[1] % 3 [] o = 2 -> 4
                       [] OTHER -> v[2] + v[1])
    [] OTHER -> 3 * v[1] + v[2]

\* A unit's result is of the width of its output.
MCCompute(q, i, o, v) == Calculated(q, i, o, v) % Pow2[MCWidth(q, q[i].out[o])]

\* One pass through a loop, two tokens otherwise.
MCMaxTokens(q) == IF q \in {Loop, BufferedLoop} THEN 1 ELSE 2

NoBuffer == [n |-> 0, init |-> Idle]
MCBuffer(q, i, o) ==
  CASE q \in {Loop, BufferedLoop} /\ i \in {6, 7} -> [n |-> 1, init |-> 0]
    [] q = BufferedLoop /\ i = 3 -> [n |-> 1, init |-> Idle]
    [] q = Chain /\ i = 3 -> [n |-> 1, init |-> Idle]
    [] q = Chain /\ i = 1 /\ o = 1 -> [n |-> 2, init |-> 1]
    [] q = Chain /\ i = 1 /\ o = 3 -> [n |-> 3, init |-> Idle]
    [] OTHER -> NoBuffer

MCFeed(q, c) ==
  CASE q = Fan /\ c = c1 -> <<0, 0>>
    [] q = Chain /\ c = c1 -> <<1, 2, 1, 0>>
    [] q = Chain /\ c = c2 -> <<5, 6, 7, 8>>
    [] q = Steer -> (CASE c = c1 -> <<0, 1>> [] c = c2 -> <<3>> [] c = c3 -> <<4, 5>>
                       [] OTHER -> <<>>)
    [] q \in {Arbiter, Narrowed} /\ c = c1 -> <<0, 3>>
    [] q \in {Arbiter, Narrowed} /\ c = c2 -> <<2>>
    [] OTHER -> <<>>

\* What the theorems about the circuit ask of the bodies.
ASSUME MCBodiesAssumption == UnsharedSinks /\ Bodies /\ Widths

ASSUME MCFeedAssumption ==
  \A q \in Programs : \A c \in Chan : Feed(q, c) \in Seq(Carried(q, c))

\* The narrow control does for the build that holds no datum, and only for it.
ASSUME MCControlsAssumption == WideControls <=> "narrow" \notin Stored
=============================================================================
