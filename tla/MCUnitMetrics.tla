--------------------------- MODULE MCUnitMetrics ---------------------------
(* Every program of up to three of these elements, in three runs that take *)
(* it in this or the reverse order, with one kill.  Widths 8 and 9 share an *)
(* equivalent width; copies of 5 outputs take two standard copies; 65 is   *)
(* too wide.                                                               *)
EXTENDS UnitMetrics

Elem(kind, bw, n, ctrl) == [kind |-> kind, bw |-> bw, n |-> n, ctrl |-> ctrl, init |-> FALSE]
Elements ==
  {Elem("copy", 9, 5, 0), Elem("copy", 8, 5, 0),
   Elem("split", 9, 3, 2), Elem("split", 8, 3, 2), Elem("split", 9, 2, 1),
   Elem("merge", 9, 2, 1), Elem("merge", 8, 2, 1), Elem("mixer", 9, 2, 1),
   Elem("func", 1, 1, 0), [Elem("buffer", 8, 2, 0) EXCEPT !.init = TRUE]}
Rare == {Elem("source", 8, 1, 0), Elem("sink", 8, 1, 0), Elem("buffer", 8, 1, 0),
         Elem("copy", 65, 2, 0), Elem("split", 65, 2, 1), Elem("merge", 65, 2, 1),
         Elem("arbiter", 65, 2, 1), Elem("func", 1, 2, 0), Elem("copy", 8, 2, 0)}

MCPrograms == {<<a, b, c>> : a \in Elements, b \in Elements, c \in Elements} \cup
              {<<a, b>> : a \in Elements \cup Rare, b \in Elements \cup Rare}

Reversed(p) == [i \in DOMAIN p |-> p[Len(p) + 1 - i]]
MCRevisions(p) == {p, Reversed(p)}

MCStandard == {Latch, Source, Sink} \cup
  {CopyInst(w, 2) : w \in {1, 8, 16, 32, 64}} \cup {SplitInst(1, w, 2) : w \in {1, 8, 16, 32, 64}}

MCArea(name) == 7 * name[2] + name[4]
=============================================================================
