------------------------------- MODULE Fanout -------------------------------
(***************************************************************************)
(* What the two walks of ProcGen promise together.  Every read of a        *)
(* channel is wanted from the start; once the reads are counted, exactly   *)
(* as many ends are laid out for a channel as it has reads; ends are then  *)
(* given to reads, one each, never taken back; and it is only over when no *)
(* read and no end is left.                                                *)
(***************************************************************************)
EXTENDS Naturals, FiniteSets

CONSTANT Chan

VARIABLES
  stage,   \* "counting", "attaching", "closed" or "failed"
  wanted,  \* the reads: [elem, slot, chan]
  ends,    \* the ends laid out: [chan, out]
  held     \* the ends given out: [elem, slot, at]

vars == <<stage, wanted, ends, held>>

WantedOn(c) == {w \in wanted : w.chan = c}
EndsOf(c) == {x \in ends : x.chan = c}

\* A read holds one end, of its own channel, and holds it alone.
Matched(h) ==
  \A g \in h :
    /\ g.at \in ends
    /\ [elem |-> g.elem, slot |-> g.slot, chan |-> g.at.chan] \in wanted
    /\ \A f \in h : (f.at = g.at) <=> (f.elem = g.elem /\ f.slot = g.slot)

Init ==
  /\ stage = "counting"
  /\ \A w \in wanted : w.chan \in Chan
  /\ ends = {} /\ held = {}

LayOut ==
  /\ stage = "counting" /\ stage' = "attaching"
  /\ \A c \in Chan :
       Cardinality({x \in ends' : x.chan = c}) = Cardinality(WantedOn(c))
  /\ UNCHANGED <<wanted, held>>

Attach ==
  /\ stage = "attaching"
  /\ held \subseteq held'
  /\ Matched(held')
  /\ UNCHANGED <<stage, wanted, ends>>

Close ==
  /\ stage = "attaching" /\ stage' = "closed"
  /\ \A w \in wanted : \E h \in held : h.elem = w.elem /\ h.slot = w.slot
  /\ \A x \in ends : \E h \in held : h.at = x
  /\ UNCHANGED <<wanted, ends, held>>

Fail ==
  /\ stage \in {"counting", "attaching"} /\ stage' = "failed"
  /\ UNCHANGED wanted

Next == LayOut \/ Attach \/ Close \/ Fail

Spec == Init /\ [][Next]_vars
=============================================================================
