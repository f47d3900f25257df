----------------------------- MODULE MCProcGen -----------------------------
(* Every dataflow body of at most MaxElems elements drawn from a pool that *)
(* reads two channels.  Position i drives channels of its own.             *)
EXTENDS ProcGen

CONSTANTS a, b, d1, d2, d3, e1, e2, e3, MaxElems, Pools

Driven == <<d1, d2, d3>>
Driven2 == <<e1, e2, e3>>

MCChan == {a, b, d1, d2, d3, e1, e2, e3}

Fn == [t |-> "func", lhs |-> "other", buf |-> FALSE]
Lit == [Fn EXCEPT !.lhs = "int"]
Elem(t, in, guard, out, parts) ==
  [t |-> t, in |-> in, guard |-> guard, out |-> out, parts |-> parts]

Reads == {<<a>>, <<a, a>>, <<a, b>>, <<b, a, a>>}

Sinks(i) == {Elem("sink", <<c>>, NoChan, <<>>, <<>>) : c \in {a, b}}
Funcs(i) ==
  {Elem("func", r, NoChan, <<Driven[i]>>, <<Fn>>) : r \in Reads} \cup
  {Elem("func", <<>>, NoChan, <<Driven[i]>>, <<[Lit EXCEPT !.buf = x]>>) : x \in BOOLEAN}
Splits(i) ==
  {Elem("split", <<a>>, g, o, <<>>) :
     g \in {a, b},
     o \in {<<NoChan, Driven[i]>>, <<NoChan, Driven[i], NoChan>>}}
Merges(i) ==
  {Elem("merge", r, g, <<Driven[i]>>, <<>>) : r \in Reads, g \in {a, b}}
Mixers(i) ==
  {Elem(t, r, NoChan, <<Driven[i], o>>, <<>>) :
     t \in {"mixer", "arbiter"}, r \in {<<a, a>>, <<a, b>>}, o \in {NoChan, Driven2[i]}}
Clusters(i) ==
  {Elem("cluster", r, NoChan, <<Driven[i], Driven2[i]>>, p) :
     r \in {<<a, b>>, <<b, a, a>>},
     p \in {<<Fn, Fn>>, <<Lit, Fn>>, <<Fn, [Fn EXCEPT !.lhs = "concat"]>>,
            <<Fn, [Fn EXCEPT !.t = "split"]>>, <<Fn, [Fn EXCEPT !.t = "cluster"]>>}}

PoolAt(i) ==
  UNION {IF "sinks" \in Pools THEN Sinks(i) ELSE {},
         IF "norm" \in Pools THEN Funcs(i) \cup Splits(i) \cup Merges(i) ELSE {},
         IF "mixers" \in Pools THEN Mixers(i) ELSE {},
         IF "clusters" \in Pools THEN Clusters(i) ELSE {}}

MCPrograms ==
  {<<x>> : x \in PoolAt(1)} \cup
  (IF MaxElems > 1 THEN {<<x, y>> : x \in PoolAt(1), y \in PoolAt(2)} ELSE {}) \cup
  (IF MaxElems > 2 THEN {<<x, y, z>> : x \in PoolAt(1), y \in PoolAt(2), z \in PoolAt(3)}
                   ELSE {})

\* The bodies in which a channel that is sunk is read by nothing else.
UnsharedPrograms ==
  {q \in MCPrograms : \A i, j \in DOMAIN q :
     (q[i].t = "sink" /\ i # j) =>
       q[i].in[1] \notin {SlotChan(q[j], k) : k \in CountedSlots(q[j])}}
=============================================================================
