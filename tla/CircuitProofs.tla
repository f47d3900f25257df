--------------------------- MODULE CircuitProofs ---------------------------
(***************************************************************************)
(* The printed circuit implements Dataflow, for every body, build, buffer  *)
(* and leaf width.                                                         *)
(*                                                                         *)
(* Two halves.  What the walks and the printing leave is well wired: every *)
(* wire has one sender and one receiver, or is a port (Printed => Wired,   *)
(* WellWiredHolds).  A well wired circuit keeps its tokens in order: for   *)
(* every wire the receiver has taken a number of tokens of the channel,    *)
(* and the wire offers the next one (Flow); what an element sends is then  *)
(* what Dataflow lets it fire (ChoiceFires).  The values on a channel fit  *)
(* its width (InRange), so that a pipelined mixer or arbiter, which holds  *)
(* its datum in a variable of the control's width, holds all of it when    *)
(* the control is as wide as the data (WholeHeld).                         *)
(***************************************************************************)
EXTENDS ChpNet, ProcGenProofs, Recursion

USE DEF Mixers

-----------------------------------------------------------------------------
Relay(p) ==
  /\ p.elem = 0 /\ p.kind \in {"onebuf", "init", "copy_leaf"}
  /\ DOMAIN p.ins = {1} /\ p.ins[1][1] \in Chan
  /\ \A k \in DOMAIN p.outs : p.outs[k][1] = p.ins[1][1]

Drop(p) ==
  /\ p.elem = 0 /\ p.kind = "sink"
  /\ DOMAIN p.ins = {1} /\ p.ins[1][1] = NoChan
  /\ DOMAIN p.outs = {}

Constant(p) ==
  /\ p.elem \in DOMAIN prog /\ p.kind = "source"
  /\ p.ins = <<>>
  /\ \E o \in Literals(prog[p.elem]) : DOMAIN p.outs = {o}
  /\ \A o \in DOMAIN p.outs : p.outs[o][1] = prog[p.elem].out[o]

Unit(p) ==
  /\ p.elem \in DOMAIN prog /\ p.kind = prog[p.elem].t
  /\ DOMAIN p.ins = CountedSlots(prog[p.elem])
  /\ \A k \in DOMAIN p.ins : p.ins[k][1] = SlotChan(prog[p.elem], k)
  /\ DOMAIN p.outs = DOMAIN prog[p.elem].out \ Literals(prog[p.elem])
  /\ \A o \in DOMAIN p.outs : p.outs[o][1] = prog[p.elem].out[o]

Kinds(ps) == \A p \in ps : Relay(p) \/ Drop(p) \/ Constant(p) \/ Unit(p)

NamesDistinct(ps) ==
  \A p, q \in ps :
    /\ p.name = q.name => p = q
    /\ (p.elem = q.elem /\ p.elem > 0) =>
         /\ (p.kind # "source" /\ q.kind # "source") => p = q
         /\ DOMAIN p.outs \cap DOMAIN q.outs # {} => p = q

OneSender(ps) ==
  \A p, q \in ps : \A k \in DOMAIN p.outs : \A j \in DOMAIN q.outs :
    p.outs[k] = q.outs[j] => p = q /\ k = j
OneReceiver(ps) ==
  \A p, q \in ps : \A k \in DOMAIN p.ins : \A j \in DOMAIN q.ins :
    p.ins[k] = q.ins[j] => p = q /\ k = j
PortsFree(ps) ==
  /\ \A c \in InPorts : \A p \in ps : \A k \in DOMAIN p.outs : p.outs[k] # <<c, -1, 0>>
  /\ \A c \in OutPorts : \A p \in ps : \A k \in DOMAIN p.ins : p.ins[k] # <<c, -1, 0>>

Wired(ps) ==
  Kinds(ps) /\ NamesDistinct(ps) /\ OneSender(ps) /\ OneReceiver(ps) /\ PortsFree(ps)

-----------------------------------------------------------------------------
Full(v) == IF v = Idle THEN 0 ELSE 1

Histories ==
  /\ hist \in [Chan -> Seq(Nat)]
  /\ delivered \in [Chan -> Seq(Nat)]
  /\ DOMAIN used = DOMAIN prog
  /\ \A i \in DOMAIN prog : used[i] \in [CountedSlots(prog[i]) -> Nat]

\* What was put on a channel fits its width.
InRange ==
  /\ pipeline \in Builds(prog)
  /\ \A c \in Chan : \A m \in 1 .. Len(hist[c]) : hist[c][m] \in Carried(prog, c)

Signals ==
  /\ wire \in [WiresOf(net) -> Nat \cup {Idle}]
  /\ DOMAIN got = {p.name : p \in net} /\ DOMAIN mid = {p.name : p \in net}
  /\ \A p \in net : /\ got[p.name] \in [DOMAIN p.ins -> Nat \cup {Idle}]
                    /\ mid[p.name] \subseteq DOMAIN p.ins

Rounds ==
  \A p \in net :
    /\ Storing(p) => mid[p.name] = {}
    /\ ~Storing(p) => /\ \A k \in DOMAIN p.ins : got[p.name][k] = Idle
                      /\ \A k \in mid[p.name] : wire[p.ins[k]] # Idle
                      /\ mid[p.name] = {} => Sent(p)
    /\ p.kind = "merge" => \A k \in DOMAIN p.ins \ {0} :
                             got[p.name][k] # Idle => got[p.name][0] = k - 1
    /\ p.kind \in Mixers => \A j, k \in DOMAIN p.ins :
                             (got[p.name][j] # Idle /\ got[p.name][k] # Idle) => j = k

\* taken[w] is how many tokens the receiver of w has taken from it.
InOrder(taken) ==
  \A w \in WiresOf(net) : w[1] \in Chan =>
    /\ taken[w] + Full(wire[w]) <= Len(hist[w[1]])
    /\ wire[w] # Idle => wire[w] = hist[w[1]][taken[w] + 1]
Relayed(taken) ==
  \A p \in net : Relay(p) => \A k \in DOMAIN p.outs :
    taken[p.ins[1]] = taken[p.outs[k]] + Full(wire[p.outs[k]]) + Full(got[p.name][1])
Latest(taken) ==
  /\ \A p \in net : p.elem > 0 => \A o \in DOMAIN p.outs : p.outs[o][1] \in Chan =>
       taken[p.outs[o]] + Full(wire[p.outs[o]]) = Len(hist[p.outs[o][1]])
  /\ \A c \in InPorts : taken[<<c, -1, 0>>] + Full(wire[<<c, -1, 0>>]) = Len(hist[c])
Consumed(taken) ==
  \A p \in net : Unit(p) => \A k \in DOMAIN p.ins :
    used[p.elem][k] + Full(got[p.name][k])
      = taken[p.ins[k]] + (IF k \in mid[p.name] THEN 1 ELSE 0)
InHand(taken) ==
  \A p \in net : \A k \in DOMAIN p.ins : (p.ins[k][1] \in Chan /\ got[p.name][k] # Idle) =>
    taken[p.ins[k]] >= 1 /\ got[p.name][k] = hist[p.ins[k][1]][taken[p.ins[k]]]
Delivered(taken) ==
  \A c \in OutPorts : Len(delivered[c]) = taken[<<c, -1, 0>>]

Flow(taken) ==
  /\ taken \in [WiresOf(net) -> Nat]
  /\ InOrder(taken) /\ Relayed(taken) /\ Latest(taken) /\ Consumed(taken) /\ InHand(taken)
  /\ Delivered(taken)

NotYet ==
  /\ \A c \in Chan : delivered[c] = <<>>
  /\ \A c \in Chan : hist[c] = IF FirstTokens(c) = {} THEN <<>> ELSE <<CHOOSE v \in FirstTokens(c) : TRUE>>
  /\ \A i \in DOMAIN used : \A k \in DOMAIN used[i] : used[i][k] = 0

NothingElsewhere == \A c \in Chan \ OutPorts : delivered[c] = <<>>

Offers == \A w \in DOMAIN wire : wire[w] = Idle \/ wire[w] \in Nat

CircuitInv ==
  /\ Histories /\ InRange /\ NothingElsewhere /\ Offers
  /\ net = {} => NotYet
  /\ net # {} => /\ phase = "done" /\ Wired(net) /\ Signals /\ Rounds
                 /\ \E taken : Flow(taken)
-----------------------------------------------------------------------------
(* A circuit at work *)

Running == prog \in Programs /\ Histories /\ Wired(net) /\ Signals /\ Rounds

\* Every mixer and arbiter tells its inputs apart.
Fitted == \A p \in net : p.kind \in Mixers => \A k \in DOMAIN p.ins : Narrow(p, k - 1) = k - 1

\* The wires of a process, and of a port, are wires of the circuit.
LEMMA WiresThere ==
  ASSUME NEW ps
  PROVE  /\ \A p \in ps : /\ \A k \in DOMAIN p.ins : p.ins[k] \in WiresOf(ps)
                          /\ \A k \in DOMAIN p.outs : p.outs[k] \in WiresOf(ps)
         /\ \A c \in InPorts \cup OutPorts : <<c, -1, 0>> \in WiresOf(ps)
<1> DEFINE W(p) == Values(p.ins) \cup Values(p.outs)
           U == UNION {W(p) : p \in ps}
           P == {<<c, -1, 0>> : c \in InPorts \cup OutPorts}
<1>1. WiresOf(ps) = U \cup P
  BY DEF WiresOf
<1>2. ASSUME NEW p \in ps PROVE W(p) \subseteq U
  OBVIOUS
<1>3. ASSUME NEW p \in ps, NEW k \in DOMAIN p.ins PROVE p.ins[k] \in U
  BY <1>2 DEF Values
<1>4. ASSUME NEW p \in ps, NEW k \in DOMAIN p.outs PROVE p.outs[k] \in U
  BY <1>2 DEF Values
<1>5. \A c \in InPorts \cup OutPorts : <<c, -1, 0>> \in P
  OBVIOUS
<1> QED
  BY <1>1, <1>3, <1>4, <1>5

LEMMA FullFacts ==
  /\ Full(Idle) = 0
  /\ \A v : v # Idle => Full(v) = 1
  /\ \A v : Full(v) \in {0, 1} /\ (Full(v) = 0 <=> v = Idle)
BY DEF Full

\* What p receives on input k fits the variable it is received into.
Whole(p, k) == Holds(p, wire[p.ins[k]]) = wire[p.ins[k]]

LEMMA ReceiveEffect ==
  ASSUME Running, NEW p \in net, NEW k \in DOMAIN p.ins, Receive(p, k),
         NEW w0, w0 = p.ins[k], Whole(p, k)
  PROVE  /\ w0 \in DOMAIN wire /\ wire[w0] # Idle /\ wire[w0] \in Nat
         /\ DOMAIN wire' = DOMAIN wire /\ wire' \in [WiresOf(net) -> Nat \cup {Idle}]
         /\ \A w \in DOMAIN wire : wire'[w] = IF w = w0 THEN Idle ELSE wire[w]
         /\ got[p.name][k] = Idle
         /\ \A q \in net : \A j \in DOMAIN q.ins :
              got'[q.name][j] = IF q = p /\ j = k THEN wire[w0] ELSE got[q.name][j]
         /\ DOMAIN got' = DOMAIN got
         /\ \A q \in net : got'[q.name] \in [DOMAIN q.ins -> Nat \cup {Idle}]
         /\ \A q \in net : \A j \in DOMAIN q.ins : q.ins[j] = w0 => q = p /\ j = k
<1>1. /\ wire \in [WiresOf(net) -> Nat \cup {Idle}]
      /\ DOMAIN got = {q.name : q \in net}
      /\ \A q \in net : got[q.name] \in [DOMAIN q.ins -> Nat \cup {Idle}]
  BY DEF Running, Signals
<1>2. /\ got[p.name][k] = Idle /\ wire[w0] # Idle
      /\ got' = [got EXCEPT ![p.name][k] = wire[w0]]
      /\ wire' = [wire EXCEPT ![w0] = Idle]
  BY DEF Receive, Whole
<1>3. w0 \in DOMAIN wire /\ wire[w0] \in Nat
  BY <1>1, <1>2, WiresThere
<1>4. \A q \in net : q.name = p.name => q = p
  BY DEF Running, Wired, NamesDistinct
<1>5. \A q \in net : \A j \in DOMAIN q.ins : q.ins[j] = w0 => q = p /\ j = k
  BY DEF Running, Wired, OneReceiver
<1>6. /\ DOMAIN wire' = DOMAIN wire /\ wire' \in [WiresOf(net) -> Nat \cup {Idle}]
      /\ \A w \in DOMAIN wire : wire'[w] = IF w = w0 THEN Idle ELSE wire[w]
  BY <1>1, <1>2, <1>3
<1>7. DOMAIN got' = DOMAIN got /\ p.name \in DOMAIN got
  BY <1>1, <1>2
<1>8. ASSUME NEW q \in net
      PROVE  /\ got'[q.name] \in [DOMAIN q.ins -> Nat \cup {Idle}]
             /\ \A j \in DOMAIN q.ins :
                  got'[q.name][j] = IF q = p /\ j = k THEN wire[w0] ELSE got[q.name][j]
  <2>1. q.name \in DOMAIN got
    BY <1>1
  <2>2. got'[q.name] = IF q.name = p.name THEN [got[p.name] EXCEPT ![k] = wire[w0]]
                       ELSE got[q.name]
    BY <1>2, <1>7, <2>1
  <2>3. got[q.name] \in [DOMAIN q.ins -> Nat \cup {Idle}]
    BY <1>1
  <2>4. CASE q = p
    BY <2>2, <2>3, <2>4, <1>3
  <2>5. CASE q # p
    BY <2>2, <2>3, <2>5, <1>4
  <2> QED
    BY <2>4, <2>5
<1> QED
  BY <1>2, <1>3, <1>5, <1>6, <1>7, <1>8

LEMMA SameCircuit ==
  ASSUME prog' = prog, net' = net, pipeline' = pipeline
  PROVE  /\ InPorts' = InPorts /\ OutPorts' = OutPorts /\ WiresOf(net)' = WiresOf(net)
         /\ \A p : /\ Relay(p)' <=> Relay(p)
                   /\ Drop(p)' <=> Drop(p)
                   /\ Constant(p)' <=> Constant(p)
                   /\ Unit(p)' <=> Unit(p)
                   /\ Storing(p)' <=> Storing(p)
         /\ Wired(net) => Wired(net)'
<1>1. InPorts' = InPorts /\ OutPorts' = OutPorts
  BY DEF InPorts, OutPorts
<1>2. \A p : Relay(p)' <=> Relay(p)
  BY DEF Relay
<1>3. \A p : Drop(p)' <=> Drop(p)
  BY DEF Drop
<1>4. \A p : Constant(p)' <=> Constant(p)
  BY DEF Constant
<1>5. \A p : Unit(p)' <=> Unit(p)
  BY DEF Unit
<1>6. \A p : Storing(p)' <=> Storing(p)
  BY DEF Storing
<1>7. Kinds(net)' <=> Kinds(net)
  BY <1>2, <1>3, <1>4, <1>5 DEF Kinds
<1>8. NamesDistinct(net)' <=> NamesDistinct(net)
  BY DEF NamesDistinct
<1>9. (OneSender(net)' <=> OneSender(net)) /\ (OneReceiver(net)' <=> OneReceiver(net))
  BY DEF OneSender, OneReceiver
<1>10. PortsFree(net)' <=> PortsFree(net)
  BY <1>1 DEF PortsFree
<1>11. WiresOf(net)' = WiresOf(net)
  BY <1>1 DEF WiresOf
<1> QED
  BY <1>1, <1>2, <1>3, <1>4, <1>5, <1>6, <1>7, <1>8, <1>9, <1>10, <1>11 DEF Wired

LEMMA ReceiveFlow ==
  ASSUME Running, NEW taken, Flow(taken),
         NEW p \in net, NEW k \in DOMAIN p.ins, Receive(p, k),
         Whole(p, k)
  PROVE  \E u : Flow(u)'
<1> DEFINE w0 == p.ins[k]
<1>1. /\ UNCHANGED <<prog, pipeline, net, mid, hist, used, delivered>>
  BY DEF Receive, vars
<1>2. /\ w0 \in DOMAIN wire /\ wire[w0] # Idle /\ wire[w0] \in Nat
      /\ DOMAIN wire' = DOMAIN wire
      /\ \A w \in DOMAIN wire : wire'[w] = IF w = w0 THEN Idle ELSE wire[w]
      /\ got[p.name][k] = Idle
      /\ \A q \in net : \A j \in DOMAIN q.ins :
           got'[q.name][j] = IF q = p /\ j = k THEN wire[w0] ELSE got[q.name][j]
      /\ \A q \in net : \A j \in DOMAIN q.ins : q.ins[j] = w0 => q = p /\ j = k
  BY ReceiveEffect
<1>3. /\ DOMAIN wire = WiresOf(net) /\ taken \in [WiresOf(net) -> Nat]
      /\ hist \in [Chan -> Seq(Nat)]
  BY DEF Running, Signals, Histories, Flow
<1>4. PICK u : 
      /\ u \in [WiresOf(net) -> Nat]
      /\ \A w \in WiresOf(net) : u[w] = IF w = w0 THEN taken[w] + 1 ELSE taken[w]
  <2> DEFINE f == [taken EXCEPT ![w0] = @ + 1]
  <2>1. /\ f \in [WiresOf(net) -> Nat]
        /\ \A w \in WiresOf(net) : f[w] = IF w = w0 THEN taken[w] + 1 ELSE taken[w]
    BY <1>2, <1>3
  <2> QED
    BY <2>1
<1>5. /\ \A w \in WiresOf(net) : u[w] + Full(wire'[w]) = taken[w] + Full(wire[w])
  BY <1>2, <1>3, <1>4, FullFacts
<1>6. /\ InPorts' = InPorts /\ OutPorts' = OutPorts /\ WiresOf(net)' = WiresOf(net)
      /\ \A q : /\ Relay(q)' <=> Relay(q)
                /\ Unit(q)' <=> Unit(q)
  BY <1>1, SameCircuit
<1>7. /\ \A q \in net : /\ \A j \in DOMAIN q.ins : q.ins[j] \in WiresOf(net)
                        /\ \A j \in DOMAIN q.outs : q.outs[j] \in WiresOf(net)
      /\ \A c \in InPorts \cup OutPorts : <<c, -1, 0>> \in WiresOf(net)
  BY WiresThere
<1>8. InOrder(u)'
  <2> SUFFICES ASSUME NEW w \in WiresOf(net), w[1] \in Chan
               PROVE  /\ u[w] + Full(wire'[w]) <= Len(hist[w[1]])
                      /\ wire'[w] # Idle => wire'[w] = hist[w[1]][u[w] + 1]
    BY <1>1, <1>6 DEF InOrder
  <2>1. /\ taken[w] + Full(wire[w]) <= Len(hist[w[1]])
        /\ wire[w] # Idle => wire[w] = hist[w[1]][taken[w] + 1]
    BY DEF Flow, InOrder
  <2> QED
    BY <1>2, <1>3, <1>4, <1>5, <2>1
<1>9. Relayed(u)'
  <2> SUFFICES ASSUME NEW q \in net, Relay(q), NEW j \in DOMAIN q.outs
               PROVE  u[q.ins[1]] = u[q.outs[j]] + Full(wire'[q.outs[j]]) + Full(got'[q.name][1])
    BY <1>1, <1>6 DEF Relayed
  <2>1. taken[q.ins[1]] = taken[q.outs[j]] + Full(wire[q.outs[j]]) + Full(got[q.name][1])
    BY DEF Flow, Relayed
  <2>2. 1 \in DOMAIN q.ins /\ q.ins[1] \in WiresOf(net) /\ q.outs[j] \in WiresOf(net)
    BY <1>7 DEF Relay
  <2>3. u[q.outs[j]] + Full(wire'[q.outs[j]]) = taken[q.outs[j]] + Full(wire[q.outs[j]])
    BY <1>5, <2>2
  <2>4. u[q.ins[1]] - taken[q.ins[1]] = Full(got'[q.name][1]) - Full(got[q.name][1])
    <3>1. taken[q.ins[1]] \in Nat
      BY <1>3, <2>2
    <3>2. CASE q = p /\ k = 1
      <4>1. /\ u[q.ins[1]] = taken[q.ins[1]] + 1
            /\ got'[q.name][1] # Idle /\ got[q.name][1] = Idle
        BY <1>2, <1>4, <2>2, <3>2
      <4> QED
        BY <3>1, <4>1, FullFacts
    <3>3. CASE ~(q = p /\ k = 1)
      <4>1. q.ins[1] # w0 /\ got'[q.name][1] = got[q.name][1]
        BY <1>2, <2>2, <3>3
      <4>2. u[q.ins[1]] = taken[q.ins[1]]
        BY <1>4, <2>2, <4>1
      <4>3. Full(got[q.name][1]) \in {0, 1}
        BY FullFacts
      <4> QED
        BY <3>1, <4>1, <4>2, <4>3
    <3> QED
      BY <3>2, <3>3
  <2> QED
    BY <1>3, <1>4, <2>1, <2>2, <2>3, <2>4, FullFacts
<1>10. Latest(u)'
  BY <1>1, <1>5, <1>6, <1>7 DEF Latest, Flow
<1>11. Consumed(u)'
  <2> SUFFICES ASSUME NEW q \in net, Unit(q), NEW j \in DOMAIN q.ins
               PROVE  used[q.elem][j] + Full(got'[q.name][j])
                        = u[q.ins[j]] + (IF j \in mid[q.name] THEN 1 ELSE 0)
    BY <1>1, <1>6 DEF Consumed
  <2>1. used[q.elem][j] + Full(got[q.name][j])
          = taken[q.ins[j]] + (IF j \in mid[q.name] THEN 1 ELSE 0)
    BY DEF Flow, Consumed
  <2>2. used[q.elem][j] \in Nat
    BY DEF Running, Histories, Unit
  <2>3. CASE q = p /\ j = k
    BY <1>2, <1>3, <1>4, <1>7, <2>1, <2>2, <2>3, FullFacts
  <2>4. CASE ~(q = p /\ j = k)
    BY <1>2, <1>3, <1>4, <1>7, <2>1, <2>4
  <2> QED
    BY <2>3, <2>4
<1>12. InHand(u)'
  <2> SUFFICES ASSUME NEW q \in net, NEW j \in DOMAIN q.ins, q.ins[j][1] \in Chan,
                      got'[q.name][j] # Idle
               PROVE  u[q.ins[j]] >= 1 /\ got'[q.name][j] = hist[q.ins[j][1]][u[q.ins[j]]]
    BY <1>1 DEF InHand
  <2>3. CASE q = p /\ j = k
    <3>1. wire[w0] = hist[w0[1]][taken[w0] + 1]
      BY <1>2, <1>3, <2>3 DEF Flow, InOrder
    <3> QED
      BY <1>2, <1>3, <1>4, <2>3, <3>1
  <2>4. CASE ~(q = p /\ j = k)
    <3>1. q.ins[j] # w0 /\ u[q.ins[j]] = taken[q.ins[j]] /\ got'[q.name][j] = got[q.name][j]
      BY <1>2, <1>4, <1>7, <2>4
    <3>2. got[q.name][j] # Idle =>
            taken[q.ins[j]] >= 1 /\ got[q.name][j] = hist[q.ins[j][1]][taken[q.ins[j]]]
      BY DEF Flow, InHand
    <3> QED
      BY <3>1, <3>2
  <2> QED
    BY <2>3, <2>4
<1>13. Delivered(u)'
  <2>1. delivered' = delivered /\ OutPorts' = OutPorts
    BY <1>1, <1>6
  <2>2. ASSUME NEW c \in OutPorts
        PROVE  Len(delivered[c]) = u[<<c, -1, 0>>]
    <3>1. Len(delivered[c]) = taken[<<c, -1, 0>>]
      BY DEF Flow, Delivered
    <3>2. <<c, -1, 0>> # w0 /\ <<c, -1, 0>> \in WiresOf(net)
      BY <1>7 DEF Running, Wired, PortsFree
    <3> QED
      BY <1>4, <3>1, <3>2
  <2>3. \A c \in OutPorts' : Len(delivered'[c]) = u[<<c, -1, 0>>]
    BY <2>1, <2>2, Zenon
  <2> QED
    BY <2>3 DEF Delivered
<1>14. Flow(u)'
  BY <1>1, <1>4, <1>6, <1>8, <1>9, <1>10, <1>11, <1>12, <1>13 DEF Flow
<1> QED
  BY <1>14

LEMMA KindFacts ==
  ASSUME Running, NEW p \in net
  PROVE  /\ Relay(p) \/ Drop(p) \/ Constant(p) \/ Unit(p)
         /\ p.kind \in Selections => Unit(p)
         /\ Unit(p) => /\ prog[p.elem] \in Element /\ p.elem \in Nat \ {0}
                       /\ prog[p.elem].t \in {"split", "merge"} => prog[p.elem].guard \in Chan
                       /\ DOMAIN p.ins \subseteq Nat
                       /\ p.kind \in {"split", "merge"} <=> 0 \in DOMAIN p.ins
                       /\ \A k \in DOMAIN p.ins : p.ins[k][1] \in Chan
<1>1. Relay(p) \/ Drop(p) \/ Constant(p) \/ Unit(p)
  BY DEF Running, Wired, Kinds
<1>2. p.kind \in Selections => Unit(p)
  BY <1>1 DEF Selections, Relay, Drop, Constant
<1>3. ASSUME Unit(p)
      PROVE  /\ prog[p.elem] \in Element /\ p.elem \in Nat \ {0}
             /\ prog[p.elem].t \in {"split", "merge"} => prog[p.elem].guard \in Chan
             /\ DOMAIN p.ins \subseteq Nat
             /\ p.kind \in {"split", "merge"} <=> 0 \in DOMAIN p.ins
             /\ \A k \in DOMAIN p.ins : p.ins[k][1] \in Chan
  <2> DEFINE e == prog[p.elem]
  <2>1. /\ p.elem \in DOMAIN prog /\ p.kind = e.t /\ prog \in Programs
        /\ DOMAIN p.ins = CountedSlots(e)
        /\ \A k \in DOMAIN p.ins : p.ins[k][1] = SlotChan(e, k)
    BY <1>3 DEF Unit, Running
  <2>2. /\ e \in Element /\ (e.t \in {"split", "merge"} => e.guard \in Chan)
        /\ Len(prog) \in Nat /\ DOMAIN prog = 1 .. Len(prog)
    BY <2>1, ElementFacts
  <2>3. /\ CountedSlots(e) \subseteq 0 .. Len(e.in) /\ Len(e.in) \in Nat
        /\ \A k \in CountedSlots(e) : SlotChan(e, k) \in Chan
        /\ DOMAIN e.in = 1 .. Len(e.in)
    BY <2>2, SlotFacts
  <2>4. 0 \in CountedSlots(e) <=> e.t \in {"split", "merge"}
    BY <2>3 DEF CountedSlots, GuardSlot
  <2> QED
    BY <2>1, <2>2, <2>3, <2>4
<1> QED
  BY <1>1, <1>2, <1>3

LEMMA ReceiveRounds ==
  ASSUME Running, NEW p \in net, NEW k \in DOMAIN p.ins, Receive(p, k),
         Whole(p, k)
  PROVE  Running'
<1> DEFINE w0 == p.ins[k]
<1>1. /\ UNCHANGED <<prog, pipeline, net, mid, hist, used, delivered>>
      /\ Storing(p) /\ Awaits(p, k)
  BY DEF Receive, vars
<1>2. /\ w0 \in DOMAIN wire /\ wire[w0] # Idle /\ wire[w0] \in Nat
      /\ DOMAIN wire' = DOMAIN wire /\ wire' \in [WiresOf(net) -> Nat \cup {Idle}]
      /\ \A w \in DOMAIN wire : wire'[w] = IF w = w0 THEN Idle ELSE wire[w]
      /\ got[p.name][k] = Idle
      /\ \A q \in net : \A j \in DOMAIN q.ins :
           got'[q.name][j] = IF q = p /\ j = k THEN wire[w0] ELSE got[q.name][j]
      /\ DOMAIN got' = DOMAIN got
      /\ \A q \in net : got'[q.name] \in [DOMAIN q.ins -> Nat \cup {Idle}]
      /\ \A q \in net : \A j \in DOMAIN q.ins : q.ins[j] = w0 => q = p /\ j = k
  BY ReceiveEffect
<1>3. /\ DOMAIN wire = WiresOf(net)
      /\ DOMAIN got = {q.name : q \in net} /\ DOMAIN mid = {q.name : q \in net}
      /\ \A q \in net : mid[q.name] \subseteq DOMAIN q.ins
  BY DEF Running, Signals
<1>4. /\ WiresOf(net)' = WiresOf(net)
      /\ \A q : Storing(q)' <=> Storing(q)
      /\ Wired(net)'
  BY <1>1, SameCircuit DEF Running
<1>5. \A q \in net : /\ \A j \in DOMAIN q.ins : q.ins[j] \in WiresOf(net)
                     /\ \A j \in DOMAIN q.outs : q.outs[j] \in WiresOf(net)
  BY WiresThere
<1>6. Signals'
  BY <1>1, <1>2, <1>3, <1>4 DEF Signals
<1>7. Rounds'
  <2> SUFFICES ASSUME NEW q \in net
               PROVE  /\ Storing(q) => mid[q.name] = {}
                      /\ ~Storing(q) => /\ \A j \in DOMAIN q.ins : got'[q.name][j] = Idle
                                        /\ \A j \in mid[q.name] : wire'[q.ins[j]] # Idle
                                        /\ mid[q.name] = {} => Sent(q)'
                      /\ q.kind = "merge" => \A j \in DOMAIN q.ins \ {0} :
                           got'[q.name][j] # Idle => got'[q.name][0] = j - 1
                      /\ q.kind \in Mixers => \A i, j \in DOMAIN q.ins :
                           (got'[q.name][i] # Idle /\ got'[q.name][j] # Idle) => i = j
    BY <1>1, <1>4 DEF Rounds
  <2>1. /\ Storing(q) => mid[q.name] = {}
        /\ ~Storing(q) => /\ \A j \in DOMAIN q.ins : got[q.name][j] = Idle
                          /\ \A j \in mid[q.name] : wire[q.ins[j]] # Idle
                          /\ mid[q.name] = {} => Sent(q)
    BY DEF Running, Rounds
  <2>2. q.kind = "merge" => \A j \in DOMAIN q.ins \ {0} :
          got[q.name][j] # Idle => got[q.name][0] = j - 1
    BY DEF Running, Rounds
  <2>3. q.kind \in Mixers => \A i, j \in DOMAIN q.ins :
          (got[q.name][i] # Idle /\ got[q.name][j] # Idle) => i = j
    BY DEF Running, Rounds
  <2>4. ~Storing(q) => /\ \A j \in DOMAIN q.ins : got'[q.name][j] = Idle
                       /\ \A j \in mid[q.name] : wire'[q.ins[j]] # Idle
    BY <1>1, <1>2, <1>3, <1>5, <2>1
  <2>5. Sent(q) => Sent(q)'
    BY <1>1, <1>2, <1>3, <1>5 DEF Sent
  <2>6. ASSUME q.kind = "merge", NEW j \in DOMAIN q.ins \ {0}, got'[q.name][j] # Idle
        PROVE  got'[q.name][0] = j - 1
    <3>0. 0 \in DOMAIN q.ins /\ DOMAIN q.ins \subseteq Nat
      BY <2>6, KindFacts DEF Selections
    <3>1. CASE q # p
      BY <1>2, <2>2, <2>6, <3>0, <3>1
    <3>2. CASE q = p /\ j = k
      BY <1>1, <1>2, <2>6, <3>0, <3>2 DEF Awaits
    <3>3. CASE q = p /\ j # k
      <4>1. got[p.name][j] # Idle /\ got[p.name][0] = j - 1
        BY <1>2, <2>2, <2>6, <3>3
      <4>2. j - 1 \in Nat /\ k # 0
        BY <1>2, <2>6, <3>0, <3>3, <4>1, CircuitAssumption
      <4> QED
        BY <1>2, <3>0, <3>3, <4>1, <4>2
    <3> QED
      BY <3>1, <3>2, <3>3
  <2>7. ASSUME q.kind \in Mixers, NEW i \in DOMAIN q.ins, NEW j \in DOMAIN q.ins,
               got'[q.name][i] # Idle, got'[q.name][j] # Idle
        PROVE  i = j
    <3>1. CASE q # p
      BY <1>2, <2>3, <2>7, <3>1
    <3>2. CASE q = p
      <4>1. \A m \in DOMAIN p.ins : got[p.name][m] = Idle
        BY <1>1, <2>7, <3>2 DEF Awaits
      <4> QED
        BY <1>2, <2>7, <3>2, <4>1
    <3> QED
      BY <3>1, <3>2
  <2> QED
    BY <2>1, <2>4, <2>5, <2>6, <2>7
<1> QED
  BY <1>1, <1>4, <1>6, <1>7 DEF Running, Histories

There(p) == {k \in DOMAIN p.ins : Seen(p, k) # Idle}

LEMMA SeenFacts ==
  ASSUME Running, NEW p \in net, NEW k \in DOMAIN p.ins
  PROVE  /\ Seen(p, k) \in Nat \cup {Idle}
         /\ Storing(p) => Seen(p, k) = got[p.name][k]
         /\ ~Storing(p) => Seen(p, k) = wire[p.ins[k]] /\ got[p.name][k] = Idle
<1>1. wire[p.ins[k]] \in Nat \cup {Idle}
  BY WiresThere DEF Running, Signals
<1>2. got[p.name][k] \in Nat \cup {Idle}
  BY DEF Running, Signals
<1>3. ~Storing(p) => got[p.name][k] = Idle
  BY DEF Running, Rounds
<1> QED
  BY <1>1, <1>2, <1>3 DEF Seen

\* What a process that is no selection sends: all its outputs, when it has all
\* its inputs.
LEMMA PlainChoice ==
  ASSUME NEW p, p.kind \notin Selections, NEW s \in Choices(p)
  PROVE  /\ s.take = DOMAIN p.ins /\ \A k \in DOMAIN p.ins : Seen(p, k) # Idle
         /\ DOMAIN s.put = DOMAIN p.outs
         /\ \A k \in DOMAIN p.outs : s.put[k] = Result(p, k)
<1>1. Choices(p) = {[take |-> There(p), put |-> [k \in DOMAIN p.outs |-> Result(p, k)]] :
                      x \in {y \in {There(p)} : y = DOMAIN p.ins}}
  BY DEF Choices, Selections, There
<1>2. /\ s = [take |-> There(p), put |-> [k \in DOMAIN p.outs |-> Result(p, k)]]
      /\ There(p) = DOMAIN p.ins
  BY <1>1
<1> QED
  BY <1>2 DEF There

LEMMA MergeChoice ==
  ASSUME NEW p, p.kind = "merge", NEW s \in Choices(p)
  PROVE  \E k \in DOMAIN p.ins \ {0} :
           /\ 0 \in DOMAIN p.ins /\ Seen(p, 0) # Idle /\ Seen(p, k) # Idle /\ Seen(p, 0) = k - 1
           /\ s = [take |-> {0, k}, put |-> [x \in {1} |-> Seen(p, k)]]
<1>1. Choices(p) = {[take |-> {0, k}, put |-> [x \in {1} |-> Seen(p, k)]] :
                      k \in {j \in There(p) \ {0} : 0 \in There(p) /\ Seen(p, 0) = j - 1}}
  BY DEF Choices, There
<1> QED
  BY <1>1 DEF There

LEMMA SplitChoice ==
  ASSUME NEW p, p.kind = "split", NEW s \in Choices(p)
  PROVE  \E k \in DOMAIN p.outs :
           /\ 0 \in DOMAIN p.ins /\ 1 \in DOMAIN p.ins /\ Seen(p, 0) # Idle /\ Seen(p, 1) # Idle
           /\ Seen(p, 0) = k - 1
           /\ s.take = {0, 1} /\ DOMAIN s.put = {k} /\ s.put[k] = Seen(p, 1)
<1>1. Choices(p) = {[take |-> {0, 1}, put |-> [x \in {k} |-> Seen(p, 1)]] :
                      k \in {j \in DOMAIN p.outs : {0, 1} \subseteq There(p) /\ Seen(p, 0) = j - 1}}
  BY DEF Choices, There
<1>2. PICK k \in {j \in DOMAIN p.outs : {0, 1} \subseteq There(p) /\ Seen(p, 0) = j - 1} :
        s = [take |-> {0, 1}, put |-> [x \in {k} |-> Seen(p, 1)]]
  BY <1>1
<1>3. /\ k \in DOMAIN p.outs /\ 0 \in There(p) /\ 1 \in There(p) /\ Seen(p, 0) = k - 1
  OBVIOUS
<1>4. s.take = {0, 1} /\ DOMAIN s.put = {k} /\ s.put[k] = Seen(p, 1)
  BY <1>2
<1> QED
  BY <1>3, <1>4 DEF There

LEMMA MixerChoice ==
  ASSUME Fitted, NEW p \in net, p.kind \in Mixers, NEW s \in Choices(p)
  PROVE  \E k \in DOMAIN p.ins :
           /\ Seen(p, k) # Idle
           /\ s = [take |-> {k}, put |-> [x \in {1, 2} |-> IF x = 1 THEN Seen(p, k) ELSE k - 1]]
<1>1. Choices(p) =
        {[take |-> {k}, put |-> [x \in {1, 2} |-> IF x = 1 THEN Seen(p, k) ELSE Narrow(p, k - 1)]] :
           k \in There(p)}
  BY DEF Choices, There
<1>2. PICK k \in There(p) :
        s = [take |-> {k}, put |-> [x \in {1, 2} |-> IF x = 1 THEN Seen(p, k) ELSE Narrow(p, k - 1)]]
  BY <1>1
<1>3. k \in DOMAIN p.ins /\ Seen(p, k) # Idle /\ Narrow(p, k - 1) = k - 1
  BY DEF There, Fitted
<1> QED
  BY <1>2, <1>3

LEMMA PlainFacts ==
  ASSUME Running, SoundValues, NEW p \in net, p.kind \notin Selections, NEW s \in Choices(p)
  PROVE  /\ Storing(p) /\ s.take = DOMAIN p.ins /\ DOMAIN s.put = DOMAIN p.outs
         /\ got[p.name] \in [DOMAIN p.ins -> Nat]
         /\ \A k \in DOMAIN p.outs : s.put[k] \in Nat
         /\ p.elem > 0 => \A k \in DOMAIN p.outs : s.put[k] = Compute(prog, p.elem, k, got[p.name])
         /\ Relay(p) => \A k \in DOMAIN p.outs : s.put[k] = got[p.name][1]
         /\ p.elem > 0 => \A k \in DOMAIN p.outs : s.put[k] \in Carried(prog, prog[p.elem].out[k])
<1>1. Storing(p)
  BY DEF Storing
<1>2. /\ s.take = DOMAIN p.ins /\ DOMAIN s.put = DOMAIN p.outs
      /\ \A k \in DOMAIN p.ins : Seen(p, k) # Idle
      /\ \A k \in DOMAIN p.outs : s.put[k] = Result(p, k)
  BY PlainChoice
<1>3. got[p.name] \in [DOMAIN p.ins -> Nat]
  <2>1. got[p.name] \in [DOMAIN p.ins -> Nat \cup {Idle}]
    BY DEF Running, Signals
  <2>2. \A k \in DOMAIN p.ins : got[p.name][k] \in Nat
    BY <1>1, <1>2, SeenFacts
  <2> QED
    BY <2>1, <2>2
<1>4. p.elem > 0 => \A k \in DOMAIN p.outs : s.put[k] = Compute(prog, p.elem, k, got[p.name])
  BY <1>2 DEF Result
<1>5. CASE Relay(p)
  <2>1. p.elem = 0 /\ 1 \in DOMAIN p.ins /\ got[p.name][1] \in Nat
    BY <1>3, <1>5 DEF Relay
  <2>2. \A k \in DOMAIN p.outs : s.put[k] = got[p.name][1]
    BY <1>2, <2>1 DEF Result
  <2> QED
    BY <1>1, <1>2, <1>3, <1>4, <2>1, <2>2
<1>6. CASE Drop(p)
  BY <1>1, <1>2, <1>3, <1>4, <1>6 DEF Drop, Relay
<1>7. CASE Constant(p)
  <2>1. p.elem > 0 /\ p.elem \in DOMAIN prog /\ prog \in Programs
    <3>1. prog \in Programs /\ p.elem \in DOMAIN prog
      BY <1>7 DEF Constant, Running
    <3> QED
      BY <3>1, ElementFacts
  <2>2. got[p.name] = <<>>
    BY <1>3, <1>7 DEF Constant
  <2>3. DOMAIN p.outs \subseteq DOMAIN prog[p.elem].out
    BY <1>7 DEF Constant, Literals
  <2>4. prog[p.elem].t \notin Selections
    BY <1>7 DEF Constant, Literals, Literal, Selections
  <2>5. \A k \in DOMAIN p.outs : s.put[k] \in Carried(prog, prog[p.elem].out[k])
    BY <1>4, <2>1, <2>2, <2>3, <2>4 DEF SoundValues
  <2> QED
    BY <1>1, <1>2, <1>3, <1>4, <2>1, <2>5 DEF Relay, Carried
<1>8. CASE Unit(p)
  <2>1. p.elem > 0 /\ p.elem \in DOMAIN prog /\ prog \in Programs
    BY <1>8, KindFacts DEF Unit, Running
  <2>2. DOMAIN p.ins = CountedSlots(prog[p.elem]) /\ DOMAIN p.outs \subseteq DOMAIN prog[p.elem].out
    BY <1>8 DEF Unit
  <2>3. prog[p.elem].t \notin Selections
    BY <1>8 DEF Unit
  <2>4. \A k \in DOMAIN p.outs : s.put[k] \in Carried(prog, prog[p.elem].out[k])
    BY <1>3, <1>4, <2>1, <2>2, <2>3 DEF SoundValues
  <2> QED
    BY <1>1, <1>2, <1>3, <1>4, <2>1, <2>4 DEF Relay, Carried
<1> QED
  BY <1>5, <1>6, <1>7, <1>8, KindFacts

LEMMA ShapeFacts ==
  ASSUME ElementShapes, NEW q \in Programs, NEW i \in DOMAIN q
  PROVE  /\ q[i] \in Element /\ q[i].out \in Seq(Chan \cup {NoChan}) /\ q[i].in \in Seq(Chan)
         /\ q[i].t \in {"func", "cluster"} => DOMAIN q[i].parts = DOMAIN q[i].out
         /\ q[i].t = "split" => CountedSlots(q[i]) \subseteq {0, 1}
         /\ q[i].t = "merge" => DOMAIN q[i].out = {1}
         /\ q[i].t \in Mixers => DOMAIN q[i].out = {1, 2}
         /\ q[i].t = "sink" => DOMAIN q[i].out = {} /\ DOMAIN q[i].in = {1}
<1> DEFINE e == q[i]
<1>1. /\ e \in Element /\ (e.t \in {"split", "merge"} => e.guard \in Chan)
      /\ (e.t = "sink" => Len(e.in) = 1)
  BY ElementFacts, ProgramsAssumption
<1>2. /\ e.out \in Seq(Chan \cup {NoChan}) /\ e.in \in Seq(Chan)
      /\ CountedSlots(e) \subseteq 0 .. Len(e.in)
  BY <1>1, SlotFacts DEF Element
<1>3. /\ e.t \in {"func", "cluster"} => DOMAIN e.parts = DOMAIN e.out
      /\ e.t = "split" => Len(e.in) = 1
      /\ e.t = "merge" => Len(e.out) = 1
      /\ e.t \in Mixers => Len(e.out) = 2
      /\ e.t = "sink" => e.out = <<>>
  BY DEF ElementShapes
<1>4. DOMAIN e.out = 1 .. Len(e.out) /\ DOMAIN e.in = 1 .. Len(e.in)
  BY <1>2
<1>5. 1 .. 1 = {1} /\ 1 .. 2 = {1, 2} /\ 0 .. 1 = {0, 1} /\ 1 .. 0 = {}
  OBVIOUS
<1>6. e.t = "split" => CountedSlots(e) \subseteq {0, 1}
  BY ONLY <1>2, <1>3, <1>5
<1>7. /\ e.t = "merge" => DOMAIN e.out = {1}
      /\ e.t \in Mixers => DOMAIN e.out = {1, 2}
  BY ONLY <1>3, <1>4, <1>5
<1>8. e.t = "sink" => DOMAIN e.out = {} /\ DOMAIN e.in = {1}
  BY ONLY <1>1, <1>3, <1>4, <1>5
<1> QED
  BY <1>1, <1>2, <1>3, <1>6, <1>7, <1>8

LEMMA SelectionFacts ==
  ASSUME Running, Fitted, ElementShapes, NEW p \in net, p.kind \in Selections, NEW s \in Choices(p)
  PROVE  /\ Unit(p)
         /\ s.take # {} /\ s.take \subseteq DOMAIN p.ins
         /\ \A k \in s.take : Seen(p, k) # Idle /\ Seen(p, k) \in Nat
         /\ DOMAIN s.put # {} /\ DOMAIN s.put \subseteq DOMAIN p.outs
         /\ \A k \in DOMAIN s.put : s.put[k] \in Nat
         /\ Storing(p) => \A k \in DOMAIN p.ins \ s.take : got[p.name][k] = Idle
<1> DEFINE e == prog[p.elem]
<1>1. /\ Unit(p) /\ DOMAIN p.ins \subseteq Nat /\ (p.kind \in {"split", "merge"} <=> 0 \in DOMAIN p.ins)
      /\ p.kind = e.t /\ e \in Element /\ prog \in Programs /\ p.elem \in DOMAIN prog
  BY KindFacts DEF Unit, Running
<1>0. /\ e.t = "split" => CountedSlots(e) \subseteq {0, 1}
      /\ e.t = "merge" => DOMAIN e.out = {1}
      /\ e.t \in Mixers => DOMAIN e.out = {1, 2}
  BY <1>1, ShapeFacts
<1>2. DOMAIN p.outs = DOMAIN e.out
  BY <1>1 DEF Unit, Literals, Literal, Selections
<1>3. \A k \in DOMAIN p.ins : Seen(p, k) \in Nat \cup {Idle}
  BY SeenFacts
<1>4. \A k \in DOMAIN p.ins : Storing(p) => got[p.name][k] = Seen(p, k)
  BY SeenFacts
<1>5. CASE p.kind = "merge"
  <2>1. PICK k \in DOMAIN p.ins \ {0} :
           /\ 0 \in DOMAIN p.ins /\ Seen(p, 0) # Idle /\ Seen(p, k) # Idle /\ Seen(p, 0) = k - 1
           /\ s = [take |-> {0, k}, put |-> [x \in {1} |-> Seen(p, k)]]
    BY <1>5, MergeChoice
  <2>2. s.take = {0, k} /\ DOMAIN s.put = {1} /\ s.put[1] = Seen(p, k)
    BY <2>1
  <2>3. 1 \in DOMAIN p.outs
    BY <1>0, <1>1, <1>2, <1>5
  <2>4. ASSUME Storing(p), NEW j \in DOMAIN p.ins \ s.take PROVE got[p.name][j] = Idle
    <3>1. got[p.name][j] # Idle => got[p.name][0] = j - 1
      BY <1>5, <2>2, <2>4 DEF Running, Rounds
    <3> QED
      BY <1>1, <1>4, <2>1, <2>2, <2>4, <3>1
  <2> QED
    BY <1>1, <1>3, <2>1, <2>2, <2>3, <2>4
<1>6. CASE p.kind = "split"
  <2>1. PICK k \in DOMAIN p.outs :
           /\ 0 \in DOMAIN p.ins /\ 1 \in DOMAIN p.ins /\ Seen(p, 0) # Idle /\ Seen(p, 1) # Idle
           /\ Seen(p, 0) = k - 1
           /\ s.take = {0, 1} /\ DOMAIN s.put = {k} /\ s.put[k] = Seen(p, 1)
    BY <1>6, SplitChoice
  <2>3. DOMAIN p.ins \subseteq {0, 1}
    BY <1>0, <1>1, <1>6 DEF Unit
  <2> QED
    BY <1>1, <1>3, <2>1, <2>3
<1>7. CASE p.kind \in Mixers
  <2>1. PICK k \in DOMAIN p.ins :
           /\ Seen(p, k) # Idle
           /\ s = [take |-> {k}, put |-> [x \in {1, 2} |-> IF x = 1 THEN Seen(p, k) ELSE k - 1]]
    BY <1>7, MixerChoice
  <2>2. s.take = {k} /\ DOMAIN s.put = {1, 2} /\ s.put[1] = Seen(p, k) /\ s.put[2] = k - 1
    BY <2>1
  <2>3. DOMAIN p.outs = {1, 2}
    BY <1>0, <1>1, <1>2, <1>7
  <2>4. k \in Nat \ {0}
    BY <1>1, <1>7
  <2>5. ASSUME Storing(p), NEW j \in DOMAIN p.ins \ s.take PROVE got[p.name][j] = Idle
    BY <1>4, <1>7, <2>1, <2>2, <2>5 DEF Running, Rounds
  <2> QED
    BY <1>1, <1>3, <2>1, <2>2, <2>3, <2>4, <2>5
<1> QED
  BY <1>5, <1>6, <1>7 DEF Selections

LEMMA ChoiceFacts ==
  ASSUME Running, Fitted, ElementShapes, SoundValues, NEW p \in net, NEW s \in Choices(p)
  PROVE  /\ s.take \subseteq DOMAIN p.ins /\ DOMAIN s.put \subseteq DOMAIN p.outs
         /\ \A k \in s.take : Seen(p, k) # Idle
         /\ \A k \in DOMAIN s.put : s.put[k] \in Nat
         /\ Storing(p) => \A k \in DOMAIN p.ins \ s.take : got[p.name][k] = Idle
<1>1. CASE p.kind \in Selections
  BY <1>1, SelectionFacts
<1>2. CASE p.kind \notin Selections
  <2>1. \A k \in DOMAIN p.ins : Seen(p, k) # Idle
    BY <1>2, PlainChoice
  <2> QED
    BY <1>2, <2>1, PlainFacts
<1> QED
  BY <1>1, <1>2

\* A channel is driven by one output of one process.
LEMMA DrivenOnce ==
  ASSUME Running, SingleDrivers, NEW p \in net, NEW q \in net,
         p.elem > 0, q.elem > 0, NEW k \in DOMAIN p.outs, NEW j \in DOMAIN q.outs,
         p.outs[k][1] = q.outs[j][1], p.outs[k][1] \in Chan
  PROVE  p = q /\ k = j
<1>1. /\ p.elem \in DOMAIN prog /\ k \in DOMAIN prog[p.elem].out
      /\ p.outs[k][1] = prog[p.elem].out[k]
  BY KindFacts DEF Relay, Drop, Constant, Unit, Literals
<1>2. /\ q.elem \in DOMAIN prog /\ j \in DOMAIN prog[q.elem].out
      /\ q.outs[j][1] = prog[q.elem].out[j]
  BY KindFacts DEF Relay, Drop, Constant, Unit, Literals
<1>3. p.elem = q.elem /\ k = j
  <2>1. prog \in Programs /\ prog[p.elem].out[k] # NoChan
        /\ prog[p.elem].out[k] = prog[q.elem].out[j]
    BY <1>1, <1>2, ProgramsAssumption DEF Running
  <2>2. \A i \in DOMAIN prog, m \in DOMAIN prog :
          \A o \in DOMAIN prog[i].out : \A r \in DOMAIN prog[m].out :
            (prog[i].out[o] = prog[m].out[r] /\ prog[i].out[o] # NoChan) => i = m /\ o = r
    BY <2>1 DEF SingleDrivers
  <2> QED
    BY <1>1, <1>2, <2>1, <2>2
<1> QED
  BY <1>3 DEF Running, Wired, NamesDistinct

LEMMA NoteEffect ==
  ASSUME Running, SingleDrivers, NEW p \in net, NEW take, NEW put, Note(p, take, put),
         take \subseteq DOMAIN p.ins, DOMAIN put \subseteq DOMAIN p.outs,
         \A k \in DOMAIN put : put[k] \in Nat
  PROVE  /\ hist' \in [Chan -> Seq(Nat)]
         /\ \A c \in Chan : /\ Len(hist[c]) <= Len(hist'[c])
                            /\ \A m \in 1 .. Len(hist[c]) : hist'[c][m] = hist[c][m]
         /\ p.elem > 0 => \A k \in DOMAIN put : p.outs[k][1] \in Chan =>
              hist'[p.outs[k][1]] = Append(hist[p.outs[k][1]], put[k])
         /\ \A c \in Chan : (p.elem = 0 \/ \A k \in DOMAIN put : p.outs[k][1] # c) =>
              hist'[c] = hist[c]
         /\ DOMAIN used' = DOMAIN used
         /\ \A i \in DOMAIN prog :
              /\ used'[i] \in [CountedSlots(prog[i]) -> Nat]
              /\ \A k \in CountedSlots(prog[i]) :
                   used'[i][k] = used[i][k] + (IF i = p.elem /\ k \in take THEN 1 ELSE 0)
<1>1. /\ hist \in [Chan -> Seq(Nat)] /\ DOMAIN used = DOMAIN prog
      /\ \A i \in DOMAIN prog : used[i] \in [CountedSlots(prog[i]) -> Nat]
  BY DEF Running, Histories
<1>2. CASE p.elem = 0
  <2>1. hist' = hist /\ used' = used
    BY <1>2 DEF Note
  <2>2. \A i \in DOMAIN prog : i # 0
    BY ElementFacts DEF Running
  <2> QED
    BY <1>1, <1>2, <2>1, <2>2
<1>3. CASE p.elem # 0
  <2> DEFINE out == prog[p.elem].out
             To(c) == {k \in DOMAIN put : out[k] = c}
  <2>1. /\ hist' = [c \in Chan |-> IF To(c) = {} THEN hist[c]
                      ELSE Append(hist[c], put[CHOOSE k \in To(c) : TRUE])]
        /\ used' = [used EXCEPT ![p.elem] =
             [k \in DOMAIN @ |-> IF k \in take THEN @[k] + 1 ELSE @[k]]]
    BY <1>3 DEF Note
  <2>2. /\ p.elem \in DOMAIN prog /\ p.elem > 0
        /\ \A k \in DOMAIN p.outs : p.outs[k][1] = out[k]
    <3>1. /\ p.elem \in DOMAIN prog /\ \A k \in DOMAIN p.outs : p.outs[k][1] = out[k]
      BY <1>3, KindFacts DEF Relay, Drop, Constant, Unit
    <3> QED
      BY <3>1, ElementFacts DEF Running
  <2>3. ASSUME NEW c \in Chan, NEW k \in DOMAIN put, out[k] = c
        PROVE  To(c) = {k} /\ hist'[c] = Append(hist[c], put[k])
    <3>1. To(c) = {k}
      BY <2>2, <2>3, DrivenOnce
    <3> QED
      BY <2>1, <3>1
  <2>4. ASSUME NEW c \in Chan, \A k \in DOMAIN put : out[k] # c
        PROVE  hist'[c] = hist[c]
    <3>1. To(c) = {}
      BY <2>4
    <3> QED
      BY <2>1, <3>1
  <2>5. ASSUME NEW c \in Chan
        PROVE  /\ hist'[c] \in Seq(Nat) /\ Len(hist[c]) <= Len(hist'[c])
               /\ \A m \in 1 .. Len(hist[c]) : hist'[c][m] = hist[c][m]
    <3>1. hist[c] \in Seq(Nat)
      BY <1>1
    <3>2. CASE \A k \in DOMAIN put : out[k] # c
      BY <2>4, <3>1, <3>2
    <3>3. CASE \E k \in DOMAIN put : out[k] = c
      <4>1. PICK k \in DOMAIN put : out[k] = c
        BY <3>3
      <4>2. hist'[c] = Append(hist[c], put[k]) /\ put[k] \in Nat
        BY <2>3, <4>1
      <4> QED
        BY <3>1, <4>2
    <3> QED
      BY <3>2, <3>3
  <2>6. hist' \in [Chan -> Seq(Nat)]
    BY <2>1, <2>5
  <2>7. DOMAIN used' = DOMAIN used
    BY <2>1
  <2>8. ASSUME NEW i \in DOMAIN prog
        PROVE  /\ used'[i] \in [CountedSlots(prog[i]) -> Nat]
               /\ \A k \in CountedSlots(prog[i]) :
                    used'[i][k] = used[i][k] + (IF i = p.elem /\ k \in take THEN 1 ELSE 0)
    <3>1. used'[i] = IF i = p.elem
                     THEN [k \in DOMAIN used[i] |-> IF k \in take THEN used[i][k] + 1 ELSE used[i][k]]
                     ELSE used[i]
      BY <1>1, <2>1, <2>2
    <3>2. used[i] \in [CountedSlots(prog[i]) -> Nat]
      BY <1>1
    <3>3. CASE i = p.elem
      BY <3>1, <3>2, <3>3
    <3>4. CASE i # p.elem
      BY <3>1, <3>2, <3>4
    <3> QED
      BY <3>3, <3>4
  <2> HIDE DEF To
  <2>9. \A k \in DOMAIN put : p.outs[k][1] \in Chan =>
          hist'[p.outs[k][1]] = Append(hist[p.outs[k][1]], put[k])
    BY <2>2, <2>3
  <2>10. \A c \in Chan : (\A k \in DOMAIN put : p.outs[k][1] # c) => hist'[c] = hist[c]
    BY <2>2, <2>4
  <2> QED
    BY <1>3, <2>5, <2>6, <2>7, <2>8, <2>9, <2>10
<1> QED
  BY <1>2, <1>3

\* p offers put, all of it on wires that were free.
LEMMA OfferedEffect ==
  ASSUME Running, NEW p \in net, NEW put, wire' = Offered(p, put),
         DOMAIN put \subseteq DOMAIN p.outs, \A k \in DOMAIN put : put[k] \in Nat
  PROVE  /\ wire' \in [WiresOf(net) -> Nat \cup {Idle}]
         /\ \A k \in DOMAIN put : wire'[p.outs[k]] = put[k]
         /\ \A w \in WiresOf(net) : (\A k \in DOMAIN put : p.outs[k] # w) => wire'[w] = wire[w]
<1>1. /\ wire \in [WiresOf(net) -> Nat \cup {Idle}] /\ DOMAIN wire = WiresOf(net)
  BY DEF Running, Signals
<1>2. wire' = [w \in WiresOf(net) |->
                 IF \E k \in DOMAIN put : p.outs[k] = w
                 THEN put[CHOOSE k \in DOMAIN put : p.outs[k] = w] ELSE wire[w]]
  BY <1>1 DEF Offered
<1>3. ASSUME NEW k \in DOMAIN put
      PROVE  p.outs[k] \in WiresOf(net) /\ wire'[p.outs[k]] = put[k]
  <2>1. p.outs[k] \in WiresOf(net)
    BY WiresThere
  <2>2. \A j \in DOMAIN put : p.outs[j] = p.outs[k] => j = k
    BY DEF Running, Wired, OneSender
  <2>3. (CHOOSE j \in DOMAIN put : p.outs[j] = p.outs[k]) = k
    BY <2>2
  <2> QED
    BY <1>2, <2>1, <2>3
<1>4. \A w \in WiresOf(net) : (\A k \in DOMAIN put : p.outs[k] # w) => wire'[w] = wire[w]
  BY <1>2
<1>5. \A w \in WiresOf(net) : wire'[w] \in Nat \cup {Idle}
  BY <1>1, <1>3, <1>4
<1> QED
  BY <1>2, <1>3, <1>4, <1>5

\* An input port is driven by no process of the circuit.
LEMMA InPortUndriven ==
  ASSUME Running, NEW c \in InPorts, NEW p \in net
  PROVE  c \in Chan /\ (p.elem = 0 \/ \A k \in DOMAIN p.outs : p.outs[k][1] # c)
<1>1. c \in Read(prog) /\ c \notin Driven(prog) /\ prog \in Programs
  BY DEF InPorts, Running
<1>2. PICK j \in DOMAIN prog : c \in {SlotChan(prog[j], k) : k \in CountedSlots(prog[j])}
  BY <1>1 DEF Read
<1>3. c \in Chan
  BY <1>1, <1>2, ElementFacts, SlotFacts
<1>4. ASSUME p.elem # 0, NEW k \in DOMAIN p.outs, p.outs[k][1] = c PROVE FALSE
  <2>1. /\ p.elem \in DOMAIN prog /\ k \in DOMAIN prog[p.elem].out
        /\ p.outs[k][1] = prog[p.elem].out[k]
    BY <1>4, KindFacts DEF Relay, Drop, Constant, Unit, Literals
  <2>2. c \in UNION {{prog[i].out[o] : o \in DOMAIN prog[i].out} : i \in DOMAIN prog}
    BY <1>4, <2>1
  <2> QED
    BY <1>1, <1>3, <2>2, ProgramsAssumption DEF Driven
<1> QED
  BY <1>3, <1>4

\* An element that reads is one process.
LEMMA UnitAlone ==
  ASSUME Running, NEW p \in net, NEW q \in net, Unit(q), p # q, NEW j \in DOMAIN p.ins
  PROVE  p.elem # q.elem
<1> SUFFICES ASSUME p.elem = q.elem PROVE FALSE
  OBVIOUS
<1>1. q.elem \in Nat \ {0} /\ q.elem \in DOMAIN prog /\ q.kind = prog[q.elem].t
      /\ prog[q.elem] \in Element
  BY KindFacts DEF Unit
<1>2. q.kind # "source"
  BY <1>1 DEF Element, Kind
<1>3. Unit(p)
  BY <1>1, KindFacts DEF Relay, Drop, Constant
<1>4. p.kind = q.kind
  BY <1>1, <1>3 DEF Unit
<1> QED
  BY <1>1, <1>2, <1>4 DEF Running, Wired, NamesDistinct

LEMMA FireFlow ==
  ASSUME Running, Fitted, ElementShapes, SoundValues, SingleDrivers, NEW taken, Flow(taken),
         NEW p \in net, NEW s \in Choices(p),
         UNCHANGED <<prog, pipeline, net, delivered>>,
         wire' = Offered(p, s.put), Note(p, s.take, s.put),
         \A k \in DOMAIN s.put : wire[p.outs[k]] = Idle,
         \A q \in net : q # p => got'[q.name] = got[q.name] /\ mid'[q.name] = mid[q.name],
         Storing(p) => mid'[p.name] = {},
         \A j \in DOMAIN p.ins :
           /\ got'[p.name][j] \in {Idle, got[p.name][j]}
           /\ (IF j \in s.take THEN 1 ELSE 0) + Full(got'[p.name][j])
                + (IF j \in mid[p.name] THEN 1 ELSE 0)
                = Full(got[p.name][j]) + (IF j \in mid'[p.name] THEN 1 ELSE 0)
  PROVE  Flow(taken)'
<1>1. /\ s.take \subseteq DOMAIN p.ins /\ DOMAIN s.put \subseteq DOMAIN p.outs
      /\ \A k \in s.take : Seen(p, k) # Idle
      /\ \A k \in DOMAIN s.put : s.put[k] \in Nat
  BY ChoiceFacts
<1>2. /\ wire' \in [WiresOf(net) -> Nat \cup {Idle}]
      /\ \A k \in DOMAIN s.put : wire'[p.outs[k]] = s.put[k]
      /\ \A w \in WiresOf(net) : (\A k \in DOMAIN s.put : p.outs[k] # w) => wire'[w] = wire[w]
  BY <1>1, OfferedEffect
<1>3. /\ hist' \in [Chan -> Seq(Nat)]
      /\ \A c \in Chan : /\ Len(hist[c]) <= Len(hist'[c])
                         /\ \A m \in 1 .. Len(hist[c]) : hist'[c][m] = hist[c][m]
      /\ p.elem > 0 => \A k \in DOMAIN s.put : p.outs[k][1] \in Chan =>
           hist'[p.outs[k][1]] = Append(hist[p.outs[k][1]], s.put[k])
      /\ \A c \in Chan : (p.elem = 0 \/ \A k \in DOMAIN s.put : p.outs[k][1] # c) =>
           hist'[c] = hist[c]
      /\ \A i \in DOMAIN prog : \A k \in CountedSlots(prog[i]) :
           used'[i][k] = used[i][k] + (IF i = p.elem /\ k \in s.take THEN 1 ELSE 0)
  <2>1. /\ Running /\ SingleDrivers /\ p \in net /\ Note(p, s.take, s.put)
        /\ s.take \subseteq DOMAIN p.ins /\ DOMAIN s.put \subseteq DOMAIN p.outs
        /\ \A k \in DOMAIN s.put : s.put[k] \in Nat
    BY <1>1
  <2> QED
    BY ONLY <2>1, NoteEffect
<1>4. /\ DOMAIN wire = WiresOf(net) /\ taken \in [WiresOf(net) -> Nat]
      /\ hist \in [Chan -> Seq(Nat)] /\ \A c \in Chan : Len(hist[c]) \in Nat
  BY DEF Running, Signals, Histories, Flow
<1>5. /\ InPorts' = InPorts /\ OutPorts' = OutPorts /\ WiresOf(net)' = WiresOf(net)
      /\ \A q : /\ Relay(q)' <=> Relay(q)
                /\ Unit(q)' <=> Unit(q)
  BY SameCircuit
<1>6. /\ \A q \in net : /\ \A j \in DOMAIN q.ins : q.ins[j] \in WiresOf(net)
                        /\ \A j \in DOMAIN q.outs : q.outs[j] \in WiresOf(net)
      /\ \A c \in InPorts \cup OutPorts : <<c, -1, 0>> \in WiresOf(net)
  BY WiresThere
<1>7. Relay(p) => /\ Storing(p) /\ DOMAIN s.put = DOMAIN p.outs /\ s.take = {1}
                  /\ got[p.name][1] # Idle /\ \A k \in DOMAIN p.outs : s.put[k] = got[p.name][1]
                  /\ p.elem = 0 /\ 1 \in DOMAIN p.ins
  <2> SUFFICES ASSUME Relay(p)
               PROVE  /\ Storing(p) /\ DOMAIN s.put = DOMAIN p.outs /\ s.take = {1}
                      /\ got[p.name][1] # Idle /\ \A k \in DOMAIN p.outs : s.put[k] = got[p.name][1]
                      /\ p.elem = 0 /\ 1 \in DOMAIN p.ins
    OBVIOUS
  <2>1. p.kind \notin Selections /\ DOMAIN p.ins = {1} /\ p.elem = 0
    BY DEF Relay, Selections
  <2> QED
    BY <2>1, PlainFacts, CircuitAssumption
<1>8. p.elem = 0 => Relay(p) \/ DOMAIN p.outs = {}
  <2>1. 0 \notin DOMAIN prog
    BY ElementFacts DEF Running
  <2> QED
    BY <2>1, KindFacts DEF Relay, Drop, Constant, Unit
<1>9. ASSUME NEW k \in DOMAIN s.put, p.outs[k][1] \in Chan
      PROVE  /\ taken[p.outs[k]] + 1 <= Len(hist'[p.outs[k][1]])
             /\ s.put[k] = hist'[p.outs[k][1]][taken[p.outs[k]] + 1]
  <2> DEFINE w == p.outs[k]
             c == w[1]
  <2>1. w \in WiresOf(net) /\ Full(wire[w]) = 0 /\ c \in Chan
    BY <1>1, <1>6, <1>9, FullFacts
  <2>2. CASE p.elem > 0
    <3>1. taken[w] + 0 = Len(hist[c])
      BY <1>1, <1>9, <2>1, <2>2 DEF Flow, Latest
    <3>2. hist'[c] = Append(hist[c], s.put[k]) /\ hist[c] \in Seq(Nat) /\ s.put[k] \in Nat
      BY <1>1, <1>3, <1>4, <1>9, <2>2
    <3>3. /\ Len(Append(hist[c], s.put[k])) = Len(hist[c]) + 1
          /\ Append(hist[c], s.put[k])[Len(hist[c]) + 1] = s.put[k]
      BY ONLY <3>2
    <3> QED
      BY <1>4, <2>1, <3>1, <3>2, <3>3
  <2>3. CASE p.elem = 0
    <3>1. Relay(p) /\ s.put[k] = got[p.name][1] /\ got[p.name][1] # Idle /\ 1 \in DOMAIN p.ins
      BY <1>1, <1>7, <1>8, <2>3
    <3>2. p.ins[1][1] = c /\ p.ins[1] \in WiresOf(net)
      BY <1>1, <1>6, <3>1 DEF Relay
    <3>3. taken[p.ins[1]] = taken[w] + 0 + 1
      BY <1>1, <2>1, <3>1, FullFacts DEF Flow, Relayed
    <3>4. got[p.name][1] = hist[c][taken[p.ins[1]]]
      BY <1>9, <3>1, <3>2 DEF Flow, InHand
    <3>5. taken[p.ins[1]] <= Len(hist[c])
      <4>1. taken[p.ins[1]] + Full(wire[p.ins[1]]) <= Len(hist[p.ins[1][1]])
        BY <2>1, <3>2 DEF Flow, InOrder
      <4>2. taken[p.ins[1]] \in Nat /\ Len(hist[c]) \in Nat /\ Full(wire[p.ins[1]]) \in {0, 1}
        BY <1>4, <2>1, <3>2, FullFacts
      <4> QED
        BY <3>2, <4>1, <4>2
    <3>6. hist'[c] = hist[c]
      BY <1>3, <1>9, <2>3
    <3> QED
      BY <1>4, <2>1, <3>1, <3>3, <3>4, <3>5, <3>6
  <2>4. p.elem \in Nat
    <3>1. p.elem # 0 => p.elem \in DOMAIN prog
      BY KindFacts DEF Relay, Drop, Constant, Unit
    <3> QED
      BY <3>1, ElementFacts DEF Running
  <2> QED
    BY <2>2, <2>3, <2>4
<1>10. InOrder(taken)'
  <2> SUFFICES ASSUME NEW w \in WiresOf(net), w[1] \in Chan
               PROVE  /\ taken[w] + Full(wire'[w]) <= Len(hist'[w[1]])
                      /\ wire'[w] # Idle => wire'[w] = hist'[w[1]][taken[w] + 1]
    BY <1>5 DEF InOrder
  <2>1. CASE \A k \in DOMAIN s.put : p.outs[k] # w
    <3>1. /\ taken[w] + Full(wire[w]) <= Len(hist[w[1]])
          /\ wire[w] # Idle => wire[w] = hist[w[1]][taken[w] + 1]
      BY DEF Flow, InOrder
    <3>2. wire'[w] = wire[w] /\ taken[w] \in Nat /\ Len(hist[w[1]]) \in Nat
      BY <1>2, <1>4, <2>1
    <3>3. wire[w] # Idle => taken[w] + 1 \in 1 .. Len(hist[w[1]])
      BY <3>1, <3>2, FullFacts
    <3>4. Len(hist'[w[1]]) \in Nat
      BY <1>3
    <3> QED
      BY <1>3, <3>1, <3>2, <3>3, <3>4, FullFacts
  <2>2. CASE \E k \in DOMAIN s.put : p.outs[k] = w
    <3>1. PICK k \in DOMAIN s.put : p.outs[k] = w
      BY <2>2
    <3>2. wire'[w] = s.put[k] /\ s.put[k] # Idle
      BY <1>1, <1>2, <3>1, CircuitAssumption
    <3>3. Full(wire'[w]) = 1
      BY <3>2, FullFacts
    <3> QED
      BY <1>9, <3>1, <3>2, <3>3
  <2> QED
    BY <2>1, <2>2
<1>11. Relayed(taken)'
  <2> SUFFICES ASSUME NEW q \in net, Relay(q), NEW j \in DOMAIN q.outs
               PROVE  taken[q.ins[1]]
                        = taken[q.outs[j]] + Full(wire'[q.outs[j]]) + Full(got'[q.name][1])
    BY <1>5 DEF Relayed
  <2>1. taken[q.ins[1]] = taken[q.outs[j]] + Full(wire[q.outs[j]]) + Full(got[q.name][1])
    BY DEF Flow, Relayed
  <2>2. CASE q # p
    <3>1. \A k \in DOMAIN s.put : p.outs[k] # q.outs[j]
      BY <1>1, <2>2 DEF Running, Wired, OneSender
    <3> QED
      BY <1>2, <1>6, <2>1, <2>2, <3>1
  <2>3. CASE q = p
    <3>1. /\ wire'[q.outs[j]] = s.put[j] /\ s.put[j] # Idle /\ wire[q.outs[j]] = Idle
      BY <1>1, <1>2, <1>7, <2>3, CircuitAssumption
    <3>2. mid[p.name] = {} /\ mid'[p.name] = {}
      BY <1>7, <2>3 DEF Running, Rounds
    <3>3. 1 + Full(got'[p.name][1]) = Full(got[p.name][1])
      BY <1>7, <2>3, <3>2, FullFacts
    <3>4. taken[q.outs[j]] \in Nat /\ Full(wire'[q.outs[j]]) = 1 /\ Full(wire[q.outs[j]]) = 0
      BY <1>4, <1>6, <3>1, FullFacts
    <3> QED
      BY <2>1, <2>3, <3>3, <3>4, FullFacts
  <2> QED
    BY <2>2, <2>3
<1>12. Latest(taken)'
  <2>1. ASSUME NEW q \in net, q.elem > 0, NEW o \in DOMAIN q.outs, q.outs[o][1] \in Chan
        PROVE  taken[q.outs[o]] + Full(wire'[q.outs[o]]) = Len(hist'[q.outs[o][1]])
    <3> DEFINE w == q.outs[o]
    <3>1. taken[w] + Full(wire[w]) = Len(hist[w[1]])
      BY <2>1 DEF Flow, Latest
    <3>2. w \in WiresOf(net)
      BY <1>6
    <3>3. CASE q = p /\ o \in DOMAIN s.put
      <4>1. wire'[w] = s.put[o] /\ s.put[o] \in Nat /\ wire[w] = Idle
        BY <1>1, <1>2, <3>3
      <4>2. hist'[w[1]] = Append(hist[w[1]], s.put[o]) /\ hist[w[1]] \in Seq(Nat)
        BY <1>3, <1>4, <2>1, <3>3
      <4>3. Len(hist'[w[1]]) = Len(hist[w[1]]) + 1
        BY <4>1, <4>2
      <4>4. Full(wire'[w]) = 1 /\ Full(wire[w]) = 0
        BY <4>1, FullFacts, CircuitAssumption
      <4> QED
        BY <1>4, <3>1, <3>2, <4>3, <4>4
    <3>4. CASE ~(q = p /\ o \in DOMAIN s.put)
      <4>1. \A k \in DOMAIN s.put : p.outs[k] # w
        BY <1>1, <3>4 DEF Running, Wired, OneSender
      <4>2. wire'[w] = wire[w]
        BY <1>2, <3>2, <4>1
      <4>3. p.elem = 0 \/ \A k \in DOMAIN s.put : p.outs[k][1] # w[1]
        <5> SUFFICES ASSUME p.elem # 0, NEW k \in DOMAIN s.put, p.outs[k][1] = w[1] PROVE FALSE
          OBVIOUS
        <5>1. p.elem > 0
          <6>1. p.elem \in DOMAIN prog
            BY KindFacts DEF Relay, Drop, Constant, Unit
          <6> QED
            BY <6>1, ElementFacts DEF Running
        <5>2. p = q /\ k = o
          BY <1>1, <2>1, <5>1, DrivenOnce
        <5> QED
          BY <3>4, <5>2
      <4> QED
        BY <1>3, <2>1, <3>1, <4>2, <4>3
    <3> QED
      BY <3>3, <3>4
  <2>2. ASSUME NEW c \in InPorts
        PROVE  taken[<<c, -1, 0>>] + Full(wire'[<<c, -1, 0>>]) = Len(hist'[c])
    <3>1. taken[<<c, -1, 0>>] + Full(wire[<<c, -1, 0>>]) = Len(hist[c])
      BY DEF Flow, Latest
    <3>2. \A k \in DOMAIN s.put : p.outs[k] # <<c, -1, 0>>
      BY <1>1 DEF Running, Wired, PortsFree
    <3>3. wire'[<<c, -1, 0>>] = wire[<<c, -1, 0>>]
      BY <1>2, <1>6, <3>2
    <3>4. c \in Chan /\ (p.elem = 0 \/ \A k \in DOMAIN s.put : p.outs[k][1] # c)
      BY <1>1, InPortUndriven
    <3> QED
      BY <1>3, <3>1, <3>3, <3>4
  <2> QED
    BY <1>5, <2>1, <2>2 DEF Latest
<1>13. Consumed(taken)'
  <2> SUFFICES ASSUME NEW q \in net, Unit(q), NEW j \in DOMAIN q.ins
               PROVE  used'[q.elem][j] + Full(got'[q.name][j])
                        = taken[q.ins[j]] + (IF j \in mid'[q.name] THEN 1 ELSE 0)
    BY <1>5 DEF Consumed
  <2>1. used[q.elem][j] + Full(got[q.name][j])
          = taken[q.ins[j]] + (IF j \in mid[q.name] THEN 1 ELSE 0)
    BY DEF Flow, Consumed
  <2>2. used[q.elem][j] \in Nat /\ q.elem \in DOMAIN prog /\ j \in CountedSlots(prog[q.elem])
    BY DEF Running, Histories, Unit
  <2>3. used'[q.elem][j] = used[q.elem][j] + (IF q.elem = p.elem /\ j \in s.take THEN 1 ELSE 0)
    BY <1>3, <2>2
  <2>4. taken[q.ins[j]] \in Nat
    BY <1>4, <1>6
  <2>5. CASE q # p
    <3>1. ~(q.elem = p.elem /\ j \in s.take)
      BY <1>1, <2>5, UnitAlone
    <3> QED
      BY <2>1, <2>2, <2>3, <2>5, <3>1, FullFacts
  <2>6. CASE q = p
    <3>1. (IF j \in s.take THEN 1 ELSE 0) + Full(got'[q.name][j])
                + (IF j \in mid[q.name] THEN 1 ELSE 0)
                = Full(got[q.name][j]) + (IF j \in mid'[q.name] THEN 1 ELSE 0)
      BY <2>6
    <3>2. used'[q.elem][j] = used[q.elem][j] + (IF j \in s.take THEN 1 ELSE 0)
      BY <2>3, <2>6
    <3> QED
      BY <2>1, <2>2, <2>4, <3>1, <3>2, FullFacts
  <2> QED
    BY <2>5, <2>6
<1>14. InHand(taken)'
  <2> SUFFICES ASSUME NEW q \in net, NEW j \in DOMAIN q.ins, q.ins[j][1] \in Chan,
                      got'[q.name][j] # Idle
               PROVE  /\ taken[q.ins[j]] >= 1
                      /\ got'[q.name][j] = hist'[q.ins[j][1]][taken[q.ins[j]]]
    BY <1>5 DEF InHand
  <2>1. got'[q.name][j] = got[q.name][j]
    OBVIOUS
  <2>2. taken[q.ins[j]] >= 1 /\ got[q.name][j] = hist[q.ins[j][1]][taken[q.ins[j]]]
    BY <2>1 DEF Flow, InHand
  <2>3. q.ins[j] \in WiresOf(net) /\ taken[q.ins[j]] \in Nat
    BY <1>4, <1>6
  <2>4. taken[q.ins[j]] + Full(wire[q.ins[j]]) <= Len(hist[q.ins[j][1]])
    BY <2>3 DEF Flow, InOrder
  <2>5. taken[q.ins[j]] \in 1 .. Len(hist[q.ins[j][1]])
    BY <1>4, <2>2, <2>3, <2>4, FullFacts
  <2> QED
    BY <1>3, <2>1, <2>2, <2>5
<1>15. Delivered(taken)'
  BY <1>5 DEF Delivered, Flow
<1> QED
  BY <1>4, <1>5, <1>10, <1>11, <1>12, <1>13, <1>14, <1>15 DEF Flow

LEMMA FireRounds ==
  ASSUME Running, Fitted, ElementShapes, SoundValues, SingleDrivers,
         NEW p \in net, NEW s \in Choices(p),
         UNCHANGED <<prog, pipeline, net, delivered>>,
         wire' = Offered(p, s.put), Note(p, s.take, s.put),
         DOMAIN got' = DOMAIN got, DOMAIN mid' = DOMAIN mid,
         \A q \in net : q # p => got'[q.name] = got[q.name] /\ mid'[q.name] = mid[q.name],
         got'[p.name] \in [DOMAIN p.ins -> Nat \cup {Idle}],
         \A k \in DOMAIN p.ins : got'[p.name][k] = Idle,
         IF Storing(p) THEN mid'[p.name] = {} ELSE mid'[p.name] = s.take /\ s.take # {}
  PROVE  Running'
<1>1. /\ s.take \subseteq DOMAIN p.ins /\ DOMAIN s.put \subseteq DOMAIN p.outs
      /\ \A k \in s.take : Seen(p, k) # Idle
      /\ \A k \in DOMAIN s.put : s.put[k] \in Nat
  BY ChoiceFacts
<1>2. /\ wire' \in [WiresOf(net) -> Nat \cup {Idle}]
      /\ \A k \in DOMAIN s.put : wire'[p.outs[k]] = s.put[k]
      /\ \A w \in WiresOf(net) : (\A k \in DOMAIN s.put : p.outs[k] # w) => wire'[w] = wire[w]
  BY <1>1, OfferedEffect
<1>3. \A w \in WiresOf(net) : wire[w] # Idle => wire'[w] # Idle
  BY <1>1, <1>2, CircuitAssumption
<1>4. /\ WiresOf(net)' = WiresOf(net)
      /\ \A q : Storing(q)' <=> Storing(q)
      /\ Wired(net)'
  BY SameCircuit DEF Running
<1>5. \A q \in net : /\ \A j \in DOMAIN q.ins : q.ins[j] \in WiresOf(net)
                     /\ \A j \in DOMAIN q.outs : q.outs[j] \in WiresOf(net)
  BY WiresThere
<1>6. /\ DOMAIN got = {q.name : q \in net} /\ DOMAIN mid = {q.name : q \in net}
      /\ \A q \in net : /\ got[q.name] \in [DOMAIN q.ins -> Nat \cup {Idle}]
                        /\ mid[q.name] \subseteq DOMAIN q.ins
  BY DEF Running, Signals
<1>7. Signals'
  <2>1. ASSUME NEW q \in net
        PROVE  got'[q.name] \in [DOMAIN q.ins -> Nat \cup {Idle}] /\ mid'[q.name] \subseteq DOMAIN q.ins
    <3>1. CASE q = p
      BY <1>1, <3>1
    <3>2. CASE q # p
      BY <1>6, <3>2
    <3> QED
      BY <3>1, <3>2
  <2> QED
    BY <1>2, <1>4, <1>6, <2>1 DEF Signals
<1>8. Histories'
  <2>1. /\ hist' \in [Chan -> Seq(Nat)] /\ DOMAIN used' = DOMAIN used
        /\ \A i \in DOMAIN prog : used'[i] \in [CountedSlots(prog[i]) -> Nat]
    BY <1>1, NoteEffect
  <2> QED
    BY <2>1 DEF Histories, Running
<1>9. Rounds'
  <2> SUFFICES ASSUME NEW q \in net
               PROVE  /\ Storing(q) => mid'[q.name] = {}
                      /\ ~Storing(q) => /\ \A j \in DOMAIN q.ins : got'[q.name][j] = Idle
                                        /\ \A j \in mid'[q.name] : wire'[q.ins[j]] # Idle
                                        /\ mid'[q.name] = {} => Sent(q)'
                      /\ q.kind = "merge" => \A j \in DOMAIN q.ins \ {0} :
                           got'[q.name][j] # Idle => got'[q.name][0] = j - 1
                      /\ q.kind \in Mixers => \A i, j \in DOMAIN q.ins :
                           (got'[q.name][i] # Idle /\ got'[q.name][j] # Idle) => i = j
    BY <1>4 DEF Rounds
  <2>1. CASE q = p
    <3>1. ASSUME ~Storing(p), NEW j \in s.take PROVE wire'[p.ins[j]] # Idle
      BY <1>1, <1>3, <1>5, <3>1, SeenFacts
    <3> QED
      BY <2>1, <3>1
  <2>2. CASE q # p
    <3>1. /\ Storing(q) => mid[q.name] = {}
          /\ ~Storing(q) => /\ \A j \in DOMAIN q.ins : got[q.name][j] = Idle
                            /\ \A j \in mid[q.name] : wire[q.ins[j]] # Idle
                            /\ mid[q.name] = {} => Sent(q)
      BY DEF Running, Rounds
    <3>2. q.kind = "merge" => \A j \in DOMAIN q.ins \ {0} :
            got[q.name][j] # Idle => got[q.name][0] = j - 1
      BY DEF Running, Rounds
    <3>3. q.kind \in Mixers => \A i, j \in DOMAIN q.ins :
            (got[q.name][i] # Idle /\ got[q.name][j] # Idle) => i = j
      BY DEF Running, Rounds
    <3>4. got'[q.name] = got[q.name] /\ mid'[q.name] = mid[q.name]
      BY <2>2
    <3>5. Sent(q) => Sent(q)'
      <4>1. \A j \in DOMAIN q.outs : \A k \in DOMAIN s.put : p.outs[k] # q.outs[j]
        BY <1>1, <2>2 DEF Running, Wired, OneSender
      <4>2. \A j \in DOMAIN q.outs : wire'[q.outs[j]] = wire[q.outs[j]]
        BY <1>2, <1>5, <4>1
      <4> QED
        BY <4>2 DEF Sent
    <3>6. \A j \in mid[q.name] : wire[q.ins[j]] # Idle => wire'[q.ins[j]] # Idle
      BY <1>3, <1>5, <1>6
    <3> QED
      BY <3>1, <3>2, <3>3, <3>4, <3>5, <3>6
  <2> QED
    BY <2>1, <2>2
<1> QED
  BY <1>4, <1>7, <1>8, <1>9 DEF Running

LEMMA SendStep ==
  ASSUME Running, Fitted, ElementShapes, SoundValues, SingleDrivers, NEW taken, Flow(taken),
         NEW p \in net, Send(p)
  PROVE  /\ Running' /\ Flow(taken)'
         /\ UNCHANGED <<vars, pipeline, net, delivered>>
         /\ \E s \in Choices(p) : Note(p, s.take, s.put)
<1>1. /\ Storing(p) /\ Sent(p)
      /\ got' = [got EXCEPT ![p.name] = [k \in DOMAIN @ |-> Idle]]
      /\ UNCHANGED <<prog, pipeline, net, mid, delivered>> /\ UNCHANGED vars
  BY DEF Send, vars
<1>2. PICK s \in Choices(p) : wire' = Offered(p, s.put) /\ Note(p, s.take, s.put)
  BY DEF Send
<1>3. /\ s.take \subseteq DOMAIN p.ins /\ DOMAIN s.put \subseteq DOMAIN p.outs
      /\ \A k \in s.take : Seen(p, k) # Idle
      /\ \A k \in DOMAIN p.ins \ s.take : got[p.name][k] = Idle
  BY <1>1, ChoiceFacts
<1>4. /\ DOMAIN got = {q.name : q \in net}
      /\ \A q \in net : got[q.name] \in [DOMAIN q.ins -> Nat \cup {Idle}]
      /\ \A q \in net : q.name = p.name => q = p
  BY DEF Running, Signals, Wired, NamesDistinct
<1>5. /\ DOMAIN got' = DOMAIN got
      /\ \A q \in net : q # p => got'[q.name] = got[q.name]
      /\ got'[p.name] = [k \in DOMAIN p.ins |-> Idle]
  BY <1>1, <1>4
<1>6. /\ got'[p.name] \in [DOMAIN p.ins -> Nat \cup {Idle}]
      /\ \A k \in DOMAIN p.ins : got'[p.name][k] = Idle
  BY <1>5
<1>7. \A k \in DOMAIN s.put : wire[p.outs[k]] = Idle
  BY <1>1, <1>3 DEF Sent
<1>8. mid[p.name] = {} /\ mid'[p.name] = {}
  BY <1>1 DEF Running, Rounds
<1>9. \A k \in s.take : got[p.name][k] # Idle
  BY <1>1, <1>3, SeenFacts
<1>10. \A j \in DOMAIN p.ins :
           /\ got'[p.name][j] \in {Idle, got[p.name][j]}
           /\ (IF j \in s.take THEN 1 ELSE 0) + Full(got'[p.name][j])
                + (IF j \in mid[p.name] THEN 1 ELSE 0)
                = Full(got[p.name][j]) + (IF j \in mid'[p.name] THEN 1 ELSE 0)
  BY <1>3, <1>6, <1>8, <1>9, FullFacts
<1>11. Running'
  BY <1>1, <1>2, <1>5, <1>6, <1>8, FireRounds
<1>12. Flow(taken)'
  BY <1>1, <1>2, <1>5, <1>7, <1>8, <1>10, FireFlow
<1> QED
  BY <1>1, <1>2, <1>11, <1>12

LEMMA SelectStep ==
  ASSUME Running, Fitted, ElementShapes, SoundValues, SingleDrivers, NEW taken, Flow(taken),
         NEW p \in net, Select(p)
  PROVE  /\ Running' /\ Flow(taken)'
         /\ UNCHANGED <<vars, pipeline, net, delivered>>
         /\ \E s \in Choices(p) : Note(p, s.take, s.put)
<1>1. /\ ~Storing(p) /\ mid[p.name] = {} /\ UNCHANGED <<prog, pipeline, net, got, delivered>>
      /\ UNCHANGED vars
  BY DEF Select, vars
<1>2. PICK s \in Choices(p) : /\ wire' = Offered(p, s.put) /\ Note(p, s.take, s.put)
                              /\ mid' = [mid EXCEPT ![p.name] = s.take]
  BY DEF Select
<1>3. /\ s.take \subseteq DOMAIN p.ins /\ DOMAIN s.put \subseteq DOMAIN p.outs /\ s.take # {}
  BY <1>1, SelectionFacts DEF Storing
<1>4. /\ DOMAIN mid = {q.name : q \in net}
      /\ \A q \in net : q.name = p.name => q = p
      /\ got[p.name] \in [DOMAIN p.ins -> Nat \cup {Idle}]
  BY DEF Running, Signals, Wired, NamesDistinct
<1>5. /\ DOMAIN mid' = DOMAIN mid
      /\ \A q \in net : q # p => mid'[q.name] = mid[q.name]
      /\ mid'[p.name] = s.take
  BY <1>2, <1>4
<1>6. /\ \A k \in DOMAIN p.ins : got[p.name][k] = Idle
      /\ Sent(p)
  BY <1>1 DEF Running, Rounds
<1>7. \A k \in DOMAIN s.put : wire[p.outs[k]] = Idle
  BY <1>3, <1>6 DEF Sent
<1>8. \A j \in DOMAIN p.ins :
           /\ got'[p.name][j] \in {Idle, got[p.name][j]}
           /\ (IF j \in s.take THEN 1 ELSE 0) + Full(got'[p.name][j])
                + (IF j \in mid[p.name] THEN 1 ELSE 0)
                = Full(got[p.name][j]) + (IF j \in mid'[p.name] THEN 1 ELSE 0)
  BY <1>1, <1>5, <1>6, FullFacts
<1>9. Running'
  BY <1>1, <1>2, <1>3, <1>4, <1>5, <1>6, FireRounds
<1>10. Flow(taken)'
  BY <1>1, <1>2, <1>5, <1>7, <1>8, FireFlow
<1> QED
  BY <1>1, <1>2, <1>9, <1>10

LEMMA ReleaseStep ==
  ASSUME Running, NEW taken, Flow(taken), NEW p \in net, Release(p)
  PROVE  Running' /\ (\E u : Flow(u)') /\ UNCHANGED <<vars, pipeline, net, got, hist, used, delivered>>
<1> DEFINE T == {p.ins[k] : k \in mid[p.name]}
<1>1. /\ ~Storing(p) /\ mid[p.name] # {} /\ Sent(p)
      /\ wire' = [w \in DOMAIN wire |->
                    IF \E k \in mid[p.name] : p.ins[k] = w THEN Idle ELSE wire[w]]
      /\ mid' = [mid EXCEPT ![p.name] = {}]
      /\ UNCHANGED <<prog, pipeline, net, got, hist, used, delivered>> /\ UNCHANGED vars
  BY DEF Release, vars
<1>2. /\ wire \in [WiresOf(net) -> Nat \cup {Idle}] /\ DOMAIN wire = WiresOf(net)
      /\ taken \in [WiresOf(net) -> Nat] /\ hist \in [Chan -> Seq(Nat)]
      /\ DOMAIN got = {q.name : q \in net} /\ DOMAIN mid = {q.name : q \in net}
      /\ \A q \in net : got[q.name] \in [DOMAIN q.ins -> Nat \cup {Idle}]
      /\ \A q \in net : mid[q.name] \subseteq DOMAIN q.ins
      /\ \A q \in net : q.name = p.name => q = p
  BY DEF Running, Signals, Histories, Wired, NamesDistinct, Flow
<1>3. /\ \A q \in net : /\ \A j \in DOMAIN q.ins : q.ins[j] \in WiresOf(net)
                        /\ \A j \in DOMAIN q.outs : q.outs[j] \in WiresOf(net)
      /\ \A c \in InPorts \cup OutPorts : <<c, -1, 0>> \in WiresOf(net)
  BY WiresThere
<1>4. /\ wire' \in [WiresOf(net) -> Nat \cup {Idle}]
      /\ \A w \in WiresOf(net) : wire'[w] = IF w \in T THEN Idle ELSE wire[w]
  BY <1>1, <1>2
<1>5. \A w \in T : wire[w] # Idle /\ w \in WiresOf(net)
  BY <1>1, <1>2, <1>3 DEF Running, Rounds
<1>6. \A q \in net : \A j \in DOMAIN q.ins : q.ins[j] \in T <=> (q = p /\ j \in mid[p.name])
  BY <1>2 DEF Running, Wired, OneReceiver
<1>7. PICK u :
      /\ u \in [WiresOf(net) -> Nat]
      /\ \A w \in WiresOf(net) : u[w] = IF w \in T THEN taken[w] + 1 ELSE taken[w]
  <2> DEFINE f == [w \in WiresOf(net) |-> IF w \in T THEN taken[w] + 1 ELSE taken[w]]
  <2>1. /\ f \in [WiresOf(net) -> Nat]
        /\ \A w \in WiresOf(net) : f[w] = IF w \in T THEN taken[w] + 1 ELSE taken[w]
    BY <1>2
  <2> QED
    BY <2>1
<1> HIDE DEF T
<1>8. \A w \in WiresOf(net) : u[w] + Full(wire'[w]) = taken[w] + Full(wire[w])
  BY <1>2, <1>4, <1>5, <1>7, FullFacts
<1>9. /\ InPorts' = InPorts /\ OutPorts' = OutPorts /\ WiresOf(net)' = WiresOf(net)
      /\ \A q : /\ Relay(q)' <=> Relay(q)
                /\ Unit(q)' <=> Unit(q)
                /\ Storing(q)' <=> Storing(q)
      /\ Wired(net)'
  BY <1>1, SameCircuit DEF Running
<1>10. /\ DOMAIN mid' = DOMAIN mid /\ mid'[p.name] = {}
       /\ \A q \in net : q # p => mid'[q.name] = mid[q.name]
  BY <1>1, <1>2
<1>11. Unit(p)
  BY <1>1, KindFacts DEF Storing
<1>12. Running'
  <2>1. Signals'
    BY <1>1, <1>2, <1>4, <1>9, <1>10 DEF Signals
  <2>2. Rounds'
    <3> SUFFICES ASSUME NEW q \in net
                 PROVE  /\ Storing(q) => mid'[q.name] = {}
                        /\ ~Storing(q) => /\ \A j \in DOMAIN q.ins : got[q.name][j] = Idle
                                          /\ \A j \in mid'[q.name] : wire'[q.ins[j]] # Idle
                                          /\ mid'[q.name] = {} => Sent(q)'
                        /\ q.kind = "merge" => \A j \in DOMAIN q.ins \ {0} :
                             got[q.name][j] # Idle => got[q.name][0] = j - 1
                        /\ q.kind \in Mixers => \A i, j \in DOMAIN q.ins :
                             (got[q.name][i] # Idle /\ got[q.name][j] # Idle) => i = j
      BY <1>1, <1>9 DEF Rounds
    <3>1. /\ Storing(q) => mid[q.name] = {}
          /\ ~Storing(q) => /\ \A j \in DOMAIN q.ins : got[q.name][j] = Idle
                            /\ \A j \in mid[q.name] : wire[q.ins[j]] # Idle
                            /\ mid[q.name] = {} => Sent(q)
      BY DEF Running, Rounds
    <3>2. /\ q.kind = "merge" => \A j \in DOMAIN q.ins \ {0} :
               got[q.name][j] # Idle => got[q.name][0] = j - 1
          /\ q.kind \in Mixers => \A i, j \in DOMAIN q.ins :
               (got[q.name][i] # Idle /\ got[q.name][j] # Idle) => i = j
      BY DEF Running, Rounds
    <3>3. Sent(q) => Sent(q)'
      BY <1>1, <1>3, <1>4 DEF Sent
    <3>4. CASE q = p
      BY <1>1, <1>10, <3>1, <3>2, <3>3, <3>4
    <3>5. CASE q # p
      <4>1. \A j \in mid[q.name] : wire'[q.ins[j]] = wire[q.ins[j]]
        BY <1>2, <1>3, <1>4, <1>6, <3>5
      <4> QED
        BY <1>10, <3>1, <3>2, <3>3, <3>5, <4>1
    <3> QED
      BY <3>4, <3>5
  <2> QED
    BY <1>1, <1>9, <2>1, <2>2 DEF Running, Histories
<1>13. InOrder(u)'
  <2> SUFFICES ASSUME NEW w \in WiresOf(net), w[1] \in Chan
               PROVE  /\ u[w] + Full(wire'[w]) <= Len(hist[w[1]])
                      /\ wire'[w] # Idle => wire'[w] = hist[w[1]][u[w] + 1]
    BY <1>1, <1>9 DEF InOrder
  <2>1. /\ taken[w] + Full(wire[w]) <= Len(hist[w[1]])
        /\ wire[w] # Idle => wire[w] = hist[w[1]][taken[w] + 1]
    BY DEF Flow, InOrder
  <2> QED
    BY <1>4, <1>7, <1>8, <2>1
<1>14. Relayed(u)'
  <2> SUFFICES ASSUME NEW q \in net, Relay(q), NEW j \in DOMAIN q.outs
               PROVE  u[q.ins[1]] = u[q.outs[j]] + Full(wire'[q.outs[j]]) + Full(got[q.name][1])
    BY <1>1, <1>9 DEF Relayed
  <2>1. taken[q.ins[1]] = taken[q.outs[j]] + Full(wire[q.outs[j]]) + Full(got[q.name][1])
    BY DEF Flow, Relayed
  <2>2. q # p /\ 1 \in DOMAIN q.ins
    BY <1>1 DEF Relay, Storing, Selections
  <2>3. u[q.ins[1]] = taken[q.ins[1]]
    BY <1>3, <1>6, <1>7, <2>2
  <2> QED
    BY <1>3, <1>8, <2>1, <2>3
<1>15. Latest(u)'
  BY <1>1, <1>3, <1>8, <1>9 DEF Latest, Flow
<1>16. Consumed(u)'
  <2> SUFFICES ASSUME NEW q \in net, Unit(q), NEW j \in DOMAIN q.ins
               PROVE  used[q.elem][j] + Full(got[q.name][j])
                        = u[q.ins[j]] + (IF j \in mid'[q.name] THEN 1 ELSE 0)
    BY <1>1, <1>9 DEF Consumed
  <2>1. used[q.elem][j] + Full(got[q.name][j])
          = taken[q.ins[j]] + (IF j \in mid[q.name] THEN 1 ELSE 0)
    BY DEF Flow, Consumed
  <2>2. q.ins[j] \in WiresOf(net) /\ taken[q.ins[j]] \in Nat
    BY <1>2, <1>3
  <2>3. CASE q = p
    BY <1>6, <1>7, <1>10, <2>1, <2>2, <2>3
  <2>4. CASE q # p
    BY <1>6, <1>7, <1>10, <2>1, <2>2, <2>4
  <2> QED
    BY <2>3, <2>4
<1>17. InHand(u)'
  <2> SUFFICES ASSUME NEW q \in net, NEW j \in DOMAIN q.ins, q.ins[j][1] \in Chan,
                      got[q.name][j] # Idle
               PROVE  u[q.ins[j]] >= 1 /\ got[q.name][j] = hist[q.ins[j][1]][u[q.ins[j]]]
    BY <1>1 DEF InHand
  <2>1. q # p
    BY <1>1 DEF Running, Rounds
  <2>2. u[q.ins[j]] = taken[q.ins[j]]
    BY <1>3, <1>6, <1>7, <2>1
  <2> QED
    BY <2>2 DEF Flow, InHand
<1>18. Delivered(u)'
  <2> SUFFICES ASSUME NEW c \in OutPorts PROVE Len(delivered[c]) = u[<<c, -1, 0>>]
    BY <1>1, <1>9 DEF Delivered
  <2>1. Len(delivered[c]) = taken[<<c, -1, 0>>]
    BY DEF Flow, Delivered
  <2>2. <<c, -1, 0>> \notin T
    BY <1>2 DEF Running, Wired, PortsFree, T
  <2> QED
    BY <1>3, <1>7, <2>1, <2>2
<1>19. Flow(u)'
  BY <1>1, <1>7, <1>9, <1>13, <1>14, <1>15, <1>16, <1>17, <1>18 DEF Flow
<1> QED
  BY <1>1, <1>12, <1>19

LEMMA OutPortChan ==
  ASSUME prog \in Programs, NEW c \in OutPorts
  PROVE  c \in Chan
<1>1. c \in Driven(prog)
  BY DEF OutPorts
<1>2. c # NoChan /\ \E i \in DOMAIN prog : c \in {prog[i].out[o] : o \in DOMAIN prog[i].out}
  BY <1>1 DEF Driven
<1>3. PICK i \in DOMAIN prog : \E o \in DOMAIN prog[i].out : c = prog[i].out[o]
  BY <1>2
<1>4. prog[i].out \in Seq(Chan \cup {NoChan})
  BY ElementFacts DEF Element
<1> QED
  BY <1>2, <1>3, <1>4

LEMMA SupplyStep ==
  ASSUME Running, SoundValues, NEW taken, Flow(taken), NEW c \in Chan, Supply(c)
  PROVE  /\ Running' /\ Flow(taken)'
         /\ UNCHANGED <<vars, pipeline, net, got, mid, used, delivered>>
<1> DEFINE w0 == <<c, -1, 0>>
           v == Feed(prog, c)[Len(hist[c]) + 1]
<1>1. /\ c \in InPorts /\ wire[w0] = Idle /\ Len(hist[c]) < Len(Feed(prog, c))
      /\ wire' = [wire EXCEPT ![w0] = v]
      /\ hist' = [hist EXCEPT ![c] = Append(hist[c], v)]
      /\ UNCHANGED <<prog, pipeline, net, got, mid, used, delivered>> /\ UNCHANGED vars
  BY DEF Supply, vars
<1>2. /\ wire \in [WiresOf(net) -> Nat \cup {Idle}] /\ DOMAIN wire = WiresOf(net)
      /\ taken \in [WiresOf(net) -> Nat] /\ hist \in [Chan -> Seq(Nat)]
      /\ prog \in Programs
  BY DEF Running, Signals, Histories, Flow
<1>3. /\ \A q \in net : /\ \A j \in DOMAIN q.ins : q.ins[j] \in WiresOf(net)
                        /\ \A j \in DOMAIN q.outs : q.outs[j] \in WiresOf(net)
      /\ \A d \in InPorts \cup OutPorts : <<d, -1, 0>> \in WiresOf(net)
  BY WiresThere
<1>4. v \in Nat
  <2>1. Feed(prog, c) \in Seq(Carried(prog, c)) /\ Len(hist[c]) + 1 \in 1 .. Len(Feed(prog, c))
    BY <1>1, <1>2 DEF SoundValues
  <2>2. v \in Carried(prog, c)
    BY <2>1
  <2> QED
    BY <2>2 DEF Carried
<1>5. w0 \in WiresOf(net) /\ w0[1] = c
  BY <1>1, <1>3
<1> HIDE DEF w0, v
<1>6. /\ wire' \in [WiresOf(net) -> Nat \cup {Idle}]
      /\ \A w \in WiresOf(net) : wire'[w] = IF w = w0 THEN v ELSE wire[w]
  BY <1>1, <1>2, <1>4, <1>5
<1>7. /\ hist' \in [Chan -> Seq(Nat)]
      /\ \A d \in Chan : d # c => hist'[d] = hist[d]
      /\ Len(hist'[c]) = Len(hist[c]) + 1 /\ hist'[c][Len(hist[c]) + 1] = v
      /\ \A d \in Chan : \A m \in 1 .. Len(hist[d]) : hist'[d][m] = hist[d][m]
      /\ \A d \in Chan : Len(hist[d]) \in Nat /\ Len(hist'[d]) >= Len(hist[d])
  <2>1. hist[c] \in Seq(Nat) /\ Append(hist[c], v) \in Seq(Nat)
        /\ Len(Append(hist[c], v)) = Len(hist[c]) + 1
        /\ Append(hist[c], v)[Len(hist[c]) + 1] = v
        /\ \A m \in 1 .. Len(hist[c]) : Append(hist[c], v)[m] = hist[c][m]
    BY <1>2, <1>4
  <2>2. hist'[c] = Append(hist[c], v) /\ \A d \in Chan : d # c => hist'[d] = hist[d]
    BY <1>1, <1>2
  <2>3. \A d \in Chan : hist'[d] \in Seq(Nat)
    BY <1>2, <2>1, <2>2
  <2> QED
    BY <1>1, <1>2, <2>1, <2>2, <2>3
<1>8. /\ InPorts' = InPorts /\ OutPorts' = OutPorts /\ WiresOf(net)' = WiresOf(net)
      /\ \A q : /\ Relay(q)' <=> Relay(q)
                /\ Unit(q)' <=> Unit(q)
                /\ Storing(q)' <=> Storing(q)
      /\ Wired(net)'
  BY <1>1, SameCircuit DEF Running
<1>9. \A q \in net : \A j \in DOMAIN q.outs : q.outs[j] # w0
  BY <1>1 DEF Running, Wired, PortsFree, w0
<1>10. \A q \in net : \A j \in DOMAIN q.outs : wire'[q.outs[j]] = wire[q.outs[j]]
  BY <1>3, <1>6, <1>9
<1>11. taken[w0] = Len(hist[c]) /\ Full(wire[w0]) = 0 /\ Full(wire'[w0]) = 1
  <2>1. taken[w0] + Full(wire[w0]) = Len(hist[c])
    BY <1>1 DEF Flow, Latest, w0
  <2> QED
    BY <1>1, <1>2, <1>4, <1>5, <1>6, <2>1, FullFacts, CircuitAssumption
<1>12. Running'
  <2>1. Signals'
    BY <1>1, <1>6, <1>8 DEF Signals, Running
  <2>2. Rounds'
    <3>1. \A q \in net : \A j \in DOMAIN q.ins : wire[q.ins[j]] # Idle => wire'[q.ins[j]] # Idle
      BY <1>1, <1>3, <1>6
    <3>2. \A q \in net : Sent(q) => Sent(q)'
      BY <1>1, <1>10 DEF Sent
    <3>3. \A q \in net : mid[q.name] \subseteq DOMAIN q.ins
      BY DEF Running, Signals
    <3> QED
      BY <1>1, <1>8, <3>1, <3>2, <3>3 DEF Running, Rounds
  <2> QED
    BY <1>1, <1>7, <1>8, <2>1, <2>2 DEF Running, Histories
<1>13. InOrder(taken)'
  <2> SUFFICES ASSUME NEW w \in WiresOf(net), w[1] \in Chan
               PROVE  /\ taken[w] + Full(wire'[w]) <= Len(hist'[w[1]])
                      /\ wire'[w] # Idle => wire'[w] = hist'[w[1]][taken[w] + 1]
    BY <1>1, <1>8 DEF InOrder
  <2>1. /\ taken[w] + Full(wire[w]) <= Len(hist[w[1]])
        /\ wire[w] # Idle => wire[w] = hist[w[1]][taken[w] + 1]
    BY DEF Flow, InOrder
  <2>2. CASE w = w0
    BY <1>5, <1>6, <1>7, <1>11, <2>2
  <2>3. CASE w # w0
    <3>1. wire'[w] = wire[w] /\ taken[w] \in Nat
      BY <1>2, <1>6, <2>3
    <3>2. wire[w] # Idle => taken[w] + 1 \in 1 .. Len(hist[w[1]])
      BY <1>7, <2>1, <3>1, FullFacts
    <3>3. taken[w] + Full(wire[w]) <= Len(hist'[w[1]])
      <4>1. Len(hist'[w[1]]) \in Nat
        BY <1>7
      <4> QED
        BY <1>7, <2>1, <3>1, <4>1, FullFacts
    <3> QED
      BY <1>7, <2>1, <3>1, <3>2, <3>3
  <2> QED
    BY <2>2, <2>3
<1>14. Relayed(taken)'
  BY <1>1, <1>8, <1>10 DEF Relayed, Flow
<1>15. Latest(taken)'
  <2>1. ASSUME NEW q \in net, q.elem > 0, NEW o \in DOMAIN q.outs, q.outs[o][1] \in Chan
        PROVE  taken[q.outs[o]] + Full(wire'[q.outs[o]]) = Len(hist'[q.outs[o][1]])
    <3>1. q.outs[o][1] # c
      BY <1>1, <2>1, InPortUndriven
    <3>2. taken[q.outs[o]] + Full(wire[q.outs[o]]) = Len(hist[q.outs[o][1]])
      BY <2>1 DEF Flow, Latest
    <3>3. Full(wire'[q.outs[o]]) = Full(wire[q.outs[o]])
      BY <1>10, <2>1
    <3>4. hist'[q.outs[o][1]] = hist[q.outs[o][1]]
      BY <1>7, <2>1, <3>1
    <3> HIDE DEF Flow
    <3> QED
      BY <3>2, <3>3, <3>4
  <2>2. ASSUME NEW d \in InPorts
        PROVE  taken[<<d, -1, 0>>] + Full(wire'[<<d, -1, 0>>]) = Len(hist'[d])
    <3>1. CASE d = c
      BY <1>2, <1>5, <1>7, <1>11, <3>1 DEF w0
    <3>2. CASE d # c
      <4>1. <<d, -1, 0>> # w0 /\ <<d, -1, 0>> \in WiresOf(net) /\ d \in Chan
        <5>1. d \in Chan
          <6>1. PICK i \in DOMAIN prog : d \in {SlotChan(prog[i], k) : k \in CountedSlots(prog[i])}
            BY DEF InPorts, Read
          <6> QED
            BY <1>2, <6>1, ElementFacts, SlotFacts
        <5> QED
          BY <1>3, <3>2, <5>1 DEF w0
      <4> QED
        BY <1>6, <1>7, <3>2, <4>1 DEF Flow, Latest
    <3> QED
      BY <3>1, <3>2
  <2> QED
    BY <1>1, <1>8, <2>1, <2>2 DEF Latest
<1>16. Consumed(taken)'
  BY <1>1, <1>8 DEF Consumed, Flow
<1>17. InHand(taken)'
  <2> SUFFICES ASSUME NEW q \in net, NEW j \in DOMAIN q.ins, q.ins[j][1] \in Chan,
                      got[q.name][j] # Idle
               PROVE  /\ taken[q.ins[j]] >= 1
                      /\ got[q.name][j] = hist'[q.ins[j][1]][taken[q.ins[j]]]
    BY <1>1, <1>8 DEF InHand
  <2>1. taken[q.ins[j]] >= 1 /\ got[q.name][j] = hist[q.ins[j][1]][taken[q.ins[j]]]
    BY DEF Flow, InHand
  <2>2. q.ins[j] \in WiresOf(net) /\ taken[q.ins[j]] \in Nat
    BY <1>2, <1>3
  <2>3. taken[q.ins[j]] + Full(wire[q.ins[j]]) <= Len(hist[q.ins[j][1]])
    BY <2>2 DEF Flow, InOrder
  <2>4. taken[q.ins[j]] \in 1 .. Len(hist[q.ins[j][1]])
    BY <1>7, <2>1, <2>2, <2>3, FullFacts
  <2> QED
    BY <1>7, <2>1, <2>4
<1>18. Delivered(taken)'
  BY <1>1, <1>8 DEF Delivered, Flow
<1> QED
  BY <1>1, <1>2, <1>8, <1>12, <1>13, <1>14, <1>15, <1>16, <1>17, <1>18 DEF Flow

LEMMA DrainStep ==
  ASSUME Running, NEW taken, Flow(taken), NEW c \in Chan, Drain(c)
  PROVE  /\ Running' /\ \E u : Flow(u)'
         /\ UNCHANGED <<vars, pipeline, net, got, mid, hist, used>>
         /\ c \in OutPorts /\ Len(delivered[c]) < Len(hist[c])
         /\ delivered' = [delivered EXCEPT ![c] = Append(@, hist[c][Len(@) + 1])]
<1> DEFINE w0 == <<c, -1, 0>>
<1>1. /\ c \in OutPorts /\ wire[w0] # Idle
      /\ delivered' = [delivered EXCEPT ![c] = Append(@, wire[w0])]
      /\ wire' = [wire EXCEPT ![w0] = Idle]
      /\ UNCHANGED <<prog, pipeline, net, got, mid, hist, used>> /\ UNCHANGED vars
  BY DEF Drain, vars
<1>2. /\ wire \in [WiresOf(net) -> Nat \cup {Idle}] /\ DOMAIN wire = WiresOf(net)
      /\ taken \in [WiresOf(net) -> Nat] /\ hist \in [Chan -> Seq(Nat)]
      /\ delivered \in [Chan -> Seq(Nat)]
  BY DEF Running, Signals, Histories, Flow
<1>3. /\ \A q \in net : /\ \A j \in DOMAIN q.ins : q.ins[j] \in WiresOf(net)
                        /\ \A j \in DOMAIN q.outs : q.outs[j] \in WiresOf(net)
      /\ \A d \in InPorts \cup OutPorts : <<d, -1, 0>> \in WiresOf(net)
  BY WiresThere
<1>4. w0 \in WiresOf(net) /\ w0[1] = c /\ wire[w0] \in Nat
  BY <1>1, <1>2, <1>3
<1>5. \A q \in net : \A j \in DOMAIN q.ins : q.ins[j] # w0
  BY <1>1 DEF Running, Wired, PortsFree
<1>6. /\ Len(delivered[c]) = taken[w0] /\ taken[w0] < Len(hist[c])
      /\ wire[w0] = hist[c][taken[w0] + 1]
  <2>1. Len(delivered[c]) = taken[w0]
    BY <1>1 DEF Flow, Delivered
  <2>2. taken[w0] + Full(wire[w0]) <= Len(hist[c]) /\ wire[w0] = hist[c][taken[w0] + 1]
    BY <1>1, <1>4 DEF Flow, InOrder
  <2> QED
    BY <1>1, <1>2, <1>4, <2>1, <2>2, FullFacts
<1> HIDE DEF w0
<1>7. /\ wire' \in [WiresOf(net) -> Nat \cup {Idle}]
      /\ \A w \in WiresOf(net) : wire'[w] = IF w = w0 THEN Idle ELSE wire[w]
  BY <1>1, <1>2, <1>4
<1>8. PICK u :
      /\ u \in [WiresOf(net) -> Nat]
      /\ \A w \in WiresOf(net) : u[w] = IF w = w0 THEN taken[w] + 1 ELSE taken[w]
  <2> DEFINE f == [taken EXCEPT ![w0] = @ + 1]
  <2>1. /\ f \in [WiresOf(net) -> Nat]
        /\ \A w \in WiresOf(net) : f[w] = IF w = w0 THEN taken[w] + 1 ELSE taken[w]
    BY <1>2, <1>4
  <2> QED
    BY <2>1
<1>9. \A w \in WiresOf(net) : u[w] + Full(wire'[w]) = taken[w] + Full(wire[w])
  BY <1>1, <1>2, <1>7, <1>8, FullFacts
<1>10. /\ InPorts' = InPorts /\ OutPorts' = OutPorts /\ WiresOf(net)' = WiresOf(net)
       /\ \A q : /\ Relay(q)' <=> Relay(q)
                 /\ Unit(q)' <=> Unit(q)
                 /\ Storing(q)' <=> Storing(q)
       /\ Wired(net)'
  BY <1>1, SameCircuit DEF Running
<1>11. \A q \in net : \A j \in DOMAIN q.ins :
         u[q.ins[j]] = taken[q.ins[j]] /\ wire'[q.ins[j]] = wire[q.ins[j]]
  BY <1>3, <1>5, <1>7, <1>8
<1>12. /\ delivered' \in [Chan -> Seq(Nat)] /\ Len(delivered'[c]) = Len(delivered[c]) + 1
       /\ \A d \in Chan : d # c => delivered'[d] = delivered[d]
  <2>1. /\ delivered[c] \in Seq(Nat) /\ Append(delivered[c], wire[w0]) \in Seq(Nat)
        /\ Len(Append(delivered[c], wire[w0])) = Len(delivered[c]) + 1
    BY <1>2, <1>4
  <2> QED
    BY <1>1, <1>2, <2>1
<1>13. Running'
  <2>1. Signals'
    BY <1>1, <1>7, <1>10 DEF Signals, Running
  <2>2. Rounds'
    <3>1. \A q \in net : Sent(q) => Sent(q)'
      BY <1>1, <1>3, <1>7 DEF Sent
    <3>2. \A q \in net : mid[q.name] \subseteq DOMAIN q.ins
      BY DEF Running, Signals
    <3> QED
      BY <1>1, <1>10, <1>11, <3>1, <3>2 DEF Running, Rounds
  <2> QED
    BY <1>1, <1>10, <1>12, <2>1, <2>2 DEF Running, Histories
<1>14. InOrder(u)'
  <2> SUFFICES ASSUME NEW w \in WiresOf(net), w[1] \in Chan
               PROVE  /\ u[w] + Full(wire'[w]) <= Len(hist[w[1]])
                      /\ wire'[w] # Idle => wire'[w] = hist[w[1]][u[w] + 1]
    BY <1>1, <1>10 DEF InOrder
  <2>1. /\ taken[w] + Full(wire[w]) <= Len(hist[w[1]])
        /\ wire[w] # Idle => wire[w] = hist[w[1]][taken[w] + 1]
    BY DEF Flow, InOrder
  <2> QED
    BY <1>7, <1>8, <1>9, <2>1
<1>15. Relayed(u)'
  <2> SUFFICES ASSUME NEW q \in net, Relay(q), NEW j \in DOMAIN q.outs
               PROVE  u[q.ins[1]] = u[q.outs[j]] + Full(wire'[q.outs[j]]) + Full(got[q.name][1])
    BY <1>1, <1>10 DEF Relayed
  <2>1. taken[q.ins[1]] = taken[q.outs[j]] + Full(wire[q.outs[j]]) + Full(got[q.name][1])
    BY DEF Flow, Relayed
  <2>2. 1 \in DOMAIN q.ins
    BY DEF Relay
  <2> QED
    BY <1>3, <1>9, <1>11, <2>1, <2>2
<1>16. Latest(u)'
  BY <1>1, <1>3, <1>9, <1>10 DEF Latest, Flow
<1>17. Consumed(u)'
  BY <1>1, <1>10, <1>11 DEF Consumed, Flow
<1>18. InHand(u)'
  BY <1>1, <1>11 DEF InHand, Flow
<1>19. Delivered(u)'
  <2> SUFFICES ASSUME NEW d \in OutPorts PROVE Len(delivered'[d]) = u[<<d, -1, 0>>]
    BY <1>10 DEF Delivered
  <2>1. Len(delivered[d]) = taken[<<d, -1, 0>>] /\ <<d, -1, 0>> \in WiresOf(net)
    BY <1>3 DEF Flow, Delivered
  <2>2. CASE d = c
    BY <1>4, <1>6, <1>8, <1>12, <2>1, <2>2 DEF w0
  <2>3. CASE d # c
    <3>1. <<d, -1, 0>> # w0 /\ d \in Chan
      BY <2>3, OutPortChan DEF w0, Running
    <3> QED
      BY <1>8, <1>12, <2>1, <2>3, <3>1
  <2> QED
    BY <2>2, <2>3
<1>20. Flow(u)'
  BY <1>1, <1>8, <1>10, <1>14, <1>15, <1>16, <1>17, <1>18, <1>19 DEF Flow
<1>21. delivered' = [delivered EXCEPT ![c] = Append(@, hist[c][Len(@) + 1])]
  BY <1>1, <1>6
<1> QED
  BY <1>1, <1>6, <1>13, <1>20, <1>21

-----------------------------------------------------------------------------
(* What a process sends is what its element is to fire *)

LEMMA TokenSeen ==
  ASSUME Running, NEW taken, Flow(taken), NEW p \in net, Unit(p),
         mid[p.name] = {}, NEW k \in DOMAIN p.ins, Seen(p, k) # Idle
  PROVE  D!Has(p.elem, k) /\ D!Token(p.elem, k) = Seen(p, k)
<1> DEFINE c == p.ins[k][1]
           t == taken[p.ins[k]]
           u == used[p.elem][k]
<1>1. /\ c \in Chan /\ c = SlotChan(prog[p.elem], k) /\ p.elem \in DOMAIN prog
      /\ k \in CountedSlots(prog[p.elem])
  BY KindFacts DEF Unit
<1>2. D!ChanAt(prog[p.elem], k) = c
  BY <1>1 DEF D!ChanAt, SlotChan
<1>3. /\ hist \in [Chan -> Seq(Nat)] /\ u \in Nat /\ hist[c] \in Seq(Nat) /\ Len(hist[c]) \in Nat
  BY <1>1 DEF Running, Histories
<1>4. p.ins[k] \in WiresOf(net)
  BY WiresThere
<1>5. t \in Nat
  BY <1>4 DEF Flow
<1>6. u + Full(got[p.name][k]) = t
  <2>1. u + Full(got[p.name][k]) = t + (IF k \in mid[p.name] THEN 1 ELSE 0)
    BY DEF Flow, Consumed
  <2> QED
    BY <1>5, <2>1
<1>7. /\ t + Full(wire[p.ins[k]]) <= Len(hist[c])
      /\ wire[p.ins[k]] # Idle => wire[p.ins[k]] = hist[c][t + 1]
  BY <1>1, <1>4 DEF Flow, InOrder
<1>8. u < Len(hist[c]) /\ hist[c][u + 1] = Seen(p, k)
  <2>1. CASE Storing(p)
    <3>1. Seen(p, k) = got[p.name][k] /\ got[p.name][k] # Idle
      BY <2>1, SeenFacts
    <3>2. t >= 1 /\ got[p.name][k] = hist[c][t]
      BY <1>1, <3>1 DEF Flow, InHand
    <3>3. u + 1 = t
      BY <1>3, <1>5, <1>6, <3>1, FullFacts
    <3>4. t <= Len(hist[c])
      BY <1>3, <1>5, <1>7, FullFacts
    <3> QED
      BY <1>3, <1>5, <3>1, <3>2, <3>3, <3>4
  <2>2. CASE ~Storing(p)
    <3>1. Seen(p, k) = wire[p.ins[k]] /\ wire[p.ins[k]] # Idle /\ got[p.name][k] = Idle
      BY <2>2, SeenFacts
    <3>2. u = t
      BY <1>3, <1>5, <1>6, <3>1, FullFacts
    <3>3. t + 1 <= Len(hist[c])
      BY <1>7, <3>1, FullFacts
    <3> QED
      BY <1>3, <1>5, <1>7, <3>1, <3>2, <3>3
  <2> QED
    BY <2>1, <2>2
<1> QED
  BY <1>2, <1>8 DEF D!Has, D!Token

\* A firing with the same tokens on the same channels.
LEMMA FiresAs ==
  ASSUME Running, SingleDrivers, NEW p \in net, p.elem \in DOMAIN prog,
         NEW s, Note(p, s.take, s.put), DOMAIN s.put \subseteq DOMAIN prog[p.elem].out,
         UNCHANGED <<prog, delivered>>,
         NEW f \in D!Firings(p.elem), f.take = s.take,
         \A c \in Chan : c \in DOMAIN f.put <=> \E k \in DOMAIN s.put : prog[p.elem].out[k] = c,
         \A k \in DOMAIN s.put : prog[p.elem].out[k] \in Chan =>
            f.put[prog[p.elem].out[k]] = s.put[k]
  PROVE  D!Fire(p.elem)
<1> DEFINE out == prog[p.elem].out
           To(c) == {k \in DOMAIN s.put : out[k] = c}
<1>1. /\ p.elem \in Nat \ {0} /\ prog \in Programs
  BY ElementFacts DEF Running
<1>2. /\ hist' = [c \in Chan |-> IF To(c) = {} THEN hist[c]
                                 ELSE Append(hist[c], s.put[CHOOSE k \in To(c) : TRUE])]
      /\ used' = [used EXCEPT ![p.elem] =
                    [k \in DOMAIN @ |-> IF k \in s.take THEN @[k] + 1 ELSE @[k]]]
  BY <1>1 DEF Note
<1>3. ASSUME NEW c \in Chan
      PROVE  (IF To(c) = {} THEN hist[c] ELSE Append(hist[c], s.put[CHOOSE k \in To(c) : TRUE]))
               = (IF c \in DOMAIN f.put THEN Append(hist[c], f.put[c]) ELSE hist[c])
  <2>1. CASE To(c) = {}
    <3>1. c \notin DOMAIN f.put
      BY <1>3, <2>1
    <3> QED
      BY <2>1, <3>1
  <2>2. CASE To(c) # {}
    <3>1. PICK k \in To(c) : k = CHOOSE x \in To(c) : TRUE
      BY <2>2
    <3>2. k \in DOMAIN s.put /\ out[k] = c
      BY <3>1
    <3>3. c \in DOMAIN f.put /\ f.put[c] = s.put[k]
      BY <1>3, <3>2
    <3> QED
      BY <2>2, <3>1, <3>3
  <2> QED
    BY <2>1, <2>2
<1>4. hist' = [c \in Chan |-> IF c \in DOMAIN f.put THEN Append(hist[c], f.put[c]) ELSE hist[c]]
  BY <1>2, <1>3
<1>5. used' = [used EXCEPT ![p.elem] =
                 [k \in DOMAIN @ |-> IF k \in f.take THEN @[k] + 1 ELSE @[k]]]
  BY <1>2
<1> QED
  BY <1>4, <1>5 DEF D!Fire

\* The outputs of an element drive channels of their own.
LEMMA OutApart ==
  ASSUME SingleDrivers, NEW q \in Programs, NEW i \in DOMAIN q,
         NEW o \in DOMAIN q[i].out, NEW r \in DOMAIN q[i].out,
         q[i].out[o] = q[i].out[r], q[i].out[o] \in Chan
  PROVE  o = r
BY ProgramsAssumption DEF SingleDrivers

LEMMA ConstantFires ==
  ASSUME Running, ElementShapes, SingleDrivers, NEW taken, Flow(taken), NEW p \in net,
         Constant(p), NEW s \in Choices(p), Note(p, s.take, s.put), UNCHANGED <<prog, delivered>>
  PROVE  D!Fire(p.elem)
<1> DEFINE i == p.elem
           e == prog[p.elem]
<1>1. /\ i \in DOMAIN prog /\ prog \in Programs /\ p.kind = "source" /\ p.ins = <<>> /\ i \in Nat \ {0}
  BY ElementFacts DEF Constant, Running
<1>2. PICK o \in Literals(e) : DOMAIN p.outs = {o}
  BY DEF Constant
<1>3. /\ o \in DOMAIN e.out /\ e.t \in {"func", "cluster"} /\ e.parts[o].lhs = "int"
      /\ DOMAIN e.parts = DOMAIN e.out
  BY <1>1, <1>2, ShapeFacts DEF Literals, Literal
<1>4. got[p.name] = <<>>
  <2>1. got[p.name] \in [{} -> Nat \cup {Idle}]
    BY <1>1 DEF Running, Signals
  <2>2. <<>> \in [{} -> Nat \cup {Idle}]
    OBVIOUS
  <2> QED
    BY <2>1, <2>2
<1>5. /\ s.take = {} /\ DOMAIN s.put = {o} /\ s.put[o] = Compute(prog, i, o, <<>>)
  <2>1. /\ s.take = DOMAIN p.ins /\ DOMAIN s.put = DOMAIN p.outs
        /\ \A k \in DOMAIN p.outs : s.put[k] = Result(p, k)
    BY <1>1, PlainChoice DEF Selections
  <2> QED
    BY <1>1, <1>2, <1>4, <2>1 DEF Result
<1> DEFINE f == [take |-> {}, put |-> [c \in {e.out[o]} |-> Compute(prog, i, o, <<>>)]]
<1>6. f \in D!Firings(i)
  <2>1. o \in D!Literals(e)
    BY <1>3 DEF D!Literals
  <2> QED
    BY <1>3, <2>1 DEF D!Firings
<1>7. /\ f.take = s.take /\ DOMAIN s.put \subseteq DOMAIN prog[p.elem].out
      /\ \A c \in Chan : c \in DOMAIN f.put <=> \E k \in DOMAIN s.put : prog[p.elem].out[k] = c
      /\ \A k \in DOMAIN s.put : prog[p.elem].out[k] \in Chan =>
            f.put[prog[p.elem].out[k]] = s.put[k]
  BY <1>3, <1>5
<1> HIDE DEF f
<1> QED
  BY <1>1, <1>6, <1>7, FiresAs

LEMMA FunctionFires ==
  ASSUME Running, ElementShapes, SoundValues, SingleDrivers, NEW taken, Flow(taken), NEW p \in net,
         Unit(p), p.kind \in {"func", "cluster"}, mid[p.name] = {},
         NEW s \in Choices(p), Note(p, s.take, s.put), UNCHANGED <<prog, delivered>>
  PROVE  D!Fire(p.elem)
<1> DEFINE i == p.elem
           e == prog[p.elem]
           all == DOMAIN used[i]
           os == DOMAIN e.out \ D!Literals(e)
           On == [c \in {e.out[o] : o \in os} |->
                   Compute(prog, i, CHOOSE o \in os : e.out[o] = c,
                           [k \in all |-> D!Token(i, k)])]
<1>1. /\ i \in DOMAIN prog /\ prog \in Programs /\ i \in Nat \ {0}
      /\ p.kind = e.t /\ DOMAIN p.ins = CountedSlots(e) /\ p.kind \notin Selections
      /\ DOMAIN p.outs = DOMAIN e.out \ Literals(e) /\ all = CountedSlots(e)
  BY ElementFacts DEF Unit, Running, Histories, Selections
<1>2. DOMAIN e.parts = DOMAIN e.out
  BY <1>1, ShapeFacts
<1>3. D!Literals(e) = Literals(e)
  BY <1>1, <1>2 DEF D!Literals, Literals, Literal
<1>4. /\ s.take = all /\ DOMAIN s.put = os /\ Storing(p)
      /\ \A k \in all : got[p.name][k] # Idle /\ Seen(p, k) = got[p.name][k]
      /\ \A k \in DOMAIN p.outs : s.put[k] = Compute(prog, i, k, got[p.name])
  <2>1. /\ s.take = DOMAIN p.ins /\ \A k \in DOMAIN p.ins : Seen(p, k) # Idle
    BY <1>1, PlainChoice
  <2>2. Storing(p)
    BY <1>1 DEF Storing
  <2> QED
    BY <1>1, <1>3, <2>1, <2>2, PlainFacts, SeenFacts
<1>5. \A k \in all : D!Has(i, k) /\ D!Token(i, k) = got[p.name][k]
  BY <1>1, <1>4, TokenSeen
<1>6. got[p.name] = [k \in all |-> D!Token(i, k)]
  <2>1. got[p.name] \in [all -> Nat \cup {Idle}]
    BY <1>1 DEF Running, Signals
  <2> QED
    BY <1>5, <2>1
<1> DEFINE f == [take |-> all, put |-> On]
<1>7. f \in D!Firings(i)
  BY <1>1, <1>5 DEF D!Firings
<1>8. ASSUME NEW k \in os, e.out[k] \in Chan
      PROVE  (CHOOSE o \in os : e.out[o] = e.out[k]) = k
  <2>1. \A o \in os : e.out[o] = e.out[k] => o = k
    BY <1>1, <1>8, OutApart
  <2> QED
    BY <2>1
<1>9. /\ f.take = s.take /\ DOMAIN s.put \subseteq DOMAIN prog[p.elem].out
      /\ \A c \in Chan : c \in DOMAIN f.put <=> \E k \in DOMAIN s.put : prog[p.elem].out[k] = c
  BY <1>4
<1>10. \A k \in DOMAIN s.put : prog[p.elem].out[k] \in Chan =>
            f.put[prog[p.elem].out[k]] = s.put[k]
  <2> SUFFICES ASSUME NEW k \in os, e.out[k] \in Chan PROVE On[e.out[k]] = s.put[k]
    BY <1>4
  <2>1. s.put[k] = Compute(prog, i, k, got[p.name])
    BY <1>1, <1>3, <1>4
  <2>2. On[e.out[k]] = Compute(prog, i, CHOOSE o \in os : e.out[o] = e.out[k],
                               [x \in all |-> D!Token(i, x)])
    OBVIOUS
  <2>3. On[e.out[k]] = Compute(prog, i, k, [x \in all |-> D!Token(i, x)])
    BY <1>8, <2>2
  <2> QED
    BY <1>6, <2>1, <2>3
<1> HIDE DEF f
<1> QED
  BY <1>1, <1>7, <1>9, <1>10, FiresAs

LEMMA SplitFires ==
  ASSUME Running, ElementShapes, SoundValues, SingleDrivers, NEW taken, Flow(taken), NEW p \in net,
         Unit(p), p.kind = "split", mid[p.name] = {},
         NEW s \in Choices(p), Note(p, s.take, s.put), UNCHANGED <<prog, delivered>>
  PROVE  D!Fire(p.elem)
<1> DEFINE i == p.elem
           e == prog[p.elem]
<1>1. /\ i \in DOMAIN prog /\ prog \in Programs /\ i \in Nat \ {0}
      /\ e.t = "split" /\ DOMAIN p.outs \subseteq DOMAIN e.out /\ e.out \in Seq(Chan \cup {NoChan})
      /\ \A r \in DOMAIN e.out : r \in Nat
  BY ShapeFacts, ElementFacts DEF Unit, Running
<1>2. PICK k \in DOMAIN p.outs :
        /\ 0 \in DOMAIN p.ins /\ 1 \in DOMAIN p.ins /\ Seen(p, 0) # Idle /\ Seen(p, 1) # Idle
        /\ Seen(p, 0) = k - 1
        /\ s.take = {0, 1} /\ DOMAIN s.put = {k} /\ s.put[k] = Seen(p, 1)
  BY SplitChoice
<1>3. /\ D!Has(i, 0) /\ D!Has(i, 1) /\ D!Token(i, 0) = k - 1 /\ D!Token(i, 1) = Seen(p, 1)
  BY <1>2, TokenSeen
<1>4. k \in DOMAIN e.out /\ D!Token(i, 0) + 1 = k
  BY <1>1, <1>2, <1>3
<1> DEFINE f == [take |-> {0, 1}, put |-> D!One(e.out[k], Seen(p, 1))]
<1>5. f \in D!Firings(i)
  BY <1>1, <1>3, <1>4 DEF D!Firings
<1>6. /\ DOMAIN D!One(e.out[k], Seen(p, 1)) = {e.out[k]} \ {NoChan}
      /\ \A c \in {e.out[k]} \ {NoChan} : D!One(e.out[k], Seen(p, 1))[c] = Seen(p, 1)
  BY DEF D!One
<1>7. /\ f.take = s.take /\ DOMAIN s.put \subseteq DOMAIN prog[p.elem].out
      /\ \A c \in Chan : c \in DOMAIN f.put <=> \E x \in DOMAIN s.put : prog[p.elem].out[x] = c
      /\ \A x \in DOMAIN s.put : prog[p.elem].out[x] \in Chan =>
            f.put[prog[p.elem].out[x]] = s.put[x]
  BY <1>2, <1>4, <1>6, ProgramsAssumption
<1> HIDE DEF f
<1> QED
  BY <1>1, <1>5, <1>7, FiresAs

LEMMA MergeFires ==
  ASSUME Running, ElementShapes, SoundValues, SingleDrivers, NEW taken, Flow(taken), NEW p \in net,
         Unit(p), p.kind = "merge", mid[p.name] = {},
         NEW s \in Choices(p), Note(p, s.take, s.put), UNCHANGED <<prog, delivered>>
  PROVE  D!Fire(p.elem)
<1> DEFINE i == p.elem
           e == prog[p.elem]
<1>1. /\ i \in DOMAIN prog /\ prog \in Programs /\ i \in Nat \ {0}
      /\ e.t = "merge" /\ DOMAIN p.ins = CountedSlots(e) /\ DOMAIN e.out = {1}
      /\ CountedSlots(e) \subseteq 0 .. Len(e.in) /\ Len(e.in) \in Nat /\ DOMAIN e.in = 1 .. Len(e.in)
  <2>1. /\ i \in DOMAIN prog /\ prog \in Programs /\ e.t = "merge" /\ DOMAIN p.ins = CountedSlots(e)
    BY DEF Unit, Running
  <2>2. i \in Nat \ {0} /\ e \in Element /\ e.guard \in Chan
    BY <2>1, ElementFacts
  <2>3. DOMAIN e.out = {1}
    BY <2>1, ShapeFacts
  <2> QED
    BY <2>1, <2>2, <2>3, SlotFacts
<1>2. PICK k \in DOMAIN p.ins \ {0} :
        /\ 0 \in DOMAIN p.ins /\ Seen(p, 0) # Idle /\ Seen(p, k) # Idle /\ Seen(p, 0) = k - 1
        /\ s = [take |-> {0, k}, put |-> [x \in {1} |-> Seen(p, k)]]
  BY MergeChoice
<1>3. /\ D!Has(i, 0) /\ D!Has(i, k) /\ D!Token(i, 0) = k - 1 /\ D!Token(i, k) = Seen(p, k)
  BY <1>2, TokenSeen
<1>4. k \in DOMAIN e.in /\ D!Token(i, 0) + 1 = k
  BY <1>1, <1>2, <1>3
<1> DEFINE f == [take |-> {0, k}, put |-> D!One(e.out[1], D!Token(i, k))]
<1>5. f \in D!Firings(i)
  BY <1>1, <1>3, <1>4 DEF D!Firings
<1>6. /\ DOMAIN D!One(e.out[1], D!Token(i, k)) = {e.out[1]} \ {NoChan}
      /\ \A c \in {e.out[1]} \ {NoChan} : D!One(e.out[1], D!Token(i, k))[c] = D!Token(i, k)
  BY DEF D!One
<1>7. s.take = {0, k} /\ DOMAIN s.put = {1} /\ s.put[1] = Seen(p, k)
  BY <1>2
<1>8. /\ f.take = s.take /\ DOMAIN s.put \subseteq DOMAIN prog[p.elem].out
      /\ \A c \in Chan : c \in DOMAIN f.put <=> \E x \in DOMAIN s.put : prog[p.elem].out[x] = c
      /\ \A x \in DOMAIN s.put : prog[p.elem].out[x] \in Chan =>
            f.put[prog[p.elem].out[x]] = s.put[x]
  BY <1>1, <1>3, <1>6, <1>7, ProgramsAssumption
<1> HIDE DEF f
<1> QED
  BY <1>1, <1>5, <1>8, FiresAs

LEMMA MixerFires ==
  ASSUME Running, Fitted, ElementShapes, SoundValues, SingleDrivers, NEW taken, Flow(taken), NEW p \in net,
         Unit(p), p.kind \in Mixers, mid[p.name] = {},
         NEW s \in Choices(p), Note(p, s.take, s.put), UNCHANGED <<prog, delivered>>
  PROVE  D!Fire(p.elem)
<1> DEFINE i == p.elem
           e == prog[p.elem]
<1>1. /\ i \in DOMAIN prog /\ prog \in Programs /\ i \in Nat \ {0}
      /\ e.t \in Mixers /\ DOMAIN p.ins = CountedSlots(e) /\ DOMAIN e.out = {1, 2}
      /\ CountedSlots(e) \subseteq 0 .. Len(e.in) /\ Len(e.in) \in Nat /\ DOMAIN e.in = 1 .. Len(e.in)
      /\ 0 \notin DOMAIN p.ins
  BY ShapeFacts, ElementFacts, SlotFacts, KindFacts DEF Unit, Running
<1>2. PICK k \in DOMAIN p.ins :
        /\ Seen(p, k) # Idle
        /\ s = [take |-> {k}, put |-> [x \in {1, 2} |-> IF x = 1 THEN Seen(p, k) ELSE k - 1]]
  BY <1>1, MixerChoice DEF Unit
<1>3. D!Has(i, k) /\ D!Token(i, k) = Seen(p, k)
  BY <1>2, TokenSeen
<1>4. k \in DOMAIN e.in
  BY <1>1, <1>2
<1> DEFINE put == [c \in {e.out[1], e.out[2]} |-> IF c = e.out[1] THEN D!Token(i, k) ELSE k - 1]
           f == [take |-> {k}, put |-> put]
<1>5. f \in D!Firings(i)
  BY <1>1, <1>3, <1>4 DEF D!Firings
<1>6. e.out[1] \in Chan => e.out[1] # e.out[2]
  BY <1>1, OutApart
<1>7. s.take = {k} /\ DOMAIN s.put = {1, 2} /\ s.put[1] = Seen(p, k) /\ s.put[2] = k - 1
  BY <1>2
<1>8. e.out[1] \in Chan
  <2>1. e.out[1] # NoChan
    BY <1>1 DEF ElementShapes
  <2> QED
    BY <1>1, <2>1, ShapeFacts
<1>9. /\ f.take = s.take /\ DOMAIN s.put \subseteq DOMAIN prog[p.elem].out
      /\ \A c \in Chan : c \in DOMAIN f.put <=> \E x \in DOMAIN s.put : prog[p.elem].out[x] = c
      /\ \A x \in DOMAIN s.put : prog[p.elem].out[x] \in Chan =>
            f.put[prog[p.elem].out[x]] = s.put[x]
  BY <1>1, <1>3, <1>6, <1>7, <1>8
<1> HIDE DEF f
<1> QED
  BY <1>1, <1>5, <1>9, FiresAs

LEMMA SinkFires ==
  ASSUME Running, ElementShapes, SoundValues, SingleDrivers, NEW taken, Flow(taken), NEW p \in net,
         Unit(p), p.kind = "sink", mid[p.name] = {},
         NEW s \in Choices(p), Note(p, s.take, s.put), UNCHANGED <<prog, delivered>>
  PROVE  D!Fire(p.elem)
<1> DEFINE i == p.elem
           e == prog[p.elem]
<1>1. /\ i \in DOMAIN prog /\ prog \in Programs /\ i \in Nat \ {0}
      /\ e.t = "sink" /\ DOMAIN p.ins = {1} /\ DOMAIN e.in = {1} /\ DOMAIN p.outs = {}
      /\ p.kind \notin Selections
  <2>1. /\ i \in DOMAIN prog /\ prog \in Programs /\ e.t = "sink" /\ DOMAIN p.ins = CountedSlots(e)
        /\ DOMAIN p.outs = DOMAIN e.out \ Literals(e)
    BY DEF Unit, Running
  <2>2. i \in Nat \ {0} /\ e \in Element
    BY <2>1, ElementFacts
  <2>3. DOMAIN e.out = {} /\ DOMAIN e.in = {1}
    BY <2>1, ShapeFacts
  <2> QED
    BY <2>1, <2>2, <2>3, SlotFacts DEF Selections
<1>2. s.take = {1} /\ DOMAIN s.put = {} /\ Seen(p, 1) # Idle
  BY <1>1, PlainChoice
<1>3. D!Has(i, 1)
  BY <1>1, <1>2, TokenSeen
<1> DEFINE f == [take |-> {1}, put |-> D!One(NoChan, 1)]
<1>4. f \in D!Firings(i)
  BY <1>1, <1>3 DEF D!Firings
<1>5. DOMAIN D!One(NoChan, 1) = {}
  BY DEF D!One
<1>6. /\ f.take = s.take /\ DOMAIN s.put \subseteq DOMAIN prog[p.elem].out
      /\ \A c \in Chan : c \in DOMAIN f.put <=> \E x \in DOMAIN s.put : prog[p.elem].out[x] = c
      /\ \A x \in DOMAIN s.put : prog[p.elem].out[x] \in Chan =>
            f.put[prog[p.elem].out[x]] = s.put[x]
  BY <1>2, <1>5
<1> HIDE DEF f
<1> QED
  BY <1>1, <1>4, <1>6, FiresAs

\* A step of a process fires its element, or no element.
LEMMA ChoiceFires ==
  ASSUME Running, Fitted, ElementShapes, SoundValues, SingleDrivers, NEW taken, Flow(taken), NEW p \in net,
         mid[p.name] = {}, NEW s \in Choices(p), Note(p, s.take, s.put),
         UNCHANGED <<prog, delivered>>
  PROVE  (\E i \in DOMAIN prog : D!Fire(i)) \/ UNCHANGED <<prog, hist, used, delivered>>
<1>1. CASE p.elem = 0
  BY <1>1 DEF Note
<1>2. CASE Constant(p)
  BY <1>2, ConstantFires DEF Constant
<1>3. CASE Unit(p)
  <2>1. p.elem \in DOMAIN prog /\ p.kind \in Kind
    BY <1>3, ShapeFacts DEF Unit, Running, Element
  <2> QED
    BY <1>3, <2>1, FunctionFires, SplitFires, MergeFires, MixerFires, SinkFires DEF Kind
<1> QED
  BY <1>1, <1>2, <1>3, KindFacts DEF Relay, Drop

-----------------------------------------------------------------------------
(* What the walks leave for the circuit *)

\* Every "*" output passed has its generated channel, and no mixer passed
\* lacks its control channel.
FreshInv ==
  /\ phase = "collect" => fresh = {}
  /\ \A f \in fresh : /\ f.elem \in DOMAIN prog /\ f.elem < pos
                      /\ prog[f.elem].t = "split" /\ f.slot \in NullOutputs(prog[f.elem])
  /\ \A f, g \in fresh : (f.elem = g.elem /\ f.slot = g.slot) => f = g
  /\ phase \in {"emit", "done"} => \A i \in DOMAIN prog : i < pos =>
       /\ prog[i].t = "split" => \A o \in NullOutputs(prog[i]) :
                                   \E f \in fresh : f.elem = i /\ f.slot = o
       /\ prog[i].t \in Mixers => prog[i].out[2] # NoChan

LEMMA FreshInit == Init => FreshInv
BY DEF Init, FreshInv

LEMMA FreshStep == IInv /\ FreshInv /\ [Next]_vars => FreshInv'
<1> SUFFICES ASSUME IInv, FreshInv, [Next]_vars PROVE FreshInv'
  OBVIOUS
<1>0. pos \in Nat /\ DOMAIN prog \subseteq Nat \ {0}
  BY DEF IInv, TypeOK
<1>1. CASE CollectElement
  BY <1>0, <1>1 DEF CollectElement, At, FreshInv
<1>2. CASE CollectAbort \/ EmitAbort
  <2>1. phase' = "abort" /\ UNCHANGED <<prog, pos, fresh>> /\ phase \in {"collect", "emit"}
    BY <1>2 DEF CollectAbort, EmitAbort, Abort, At
  <2> QED
    BY <2>1 DEF FreshInv
<1>3. CASE CreateCopyProcs
  BY <1>0, <1>3 DEF CreateCopyProcs, FreshInv
<1>4. CASE EmitFunc \/ EmitCluster \/ EmitMerge \/ EmitMixer \/ EmitSink
  <2>1. /\ phase = "emit" /\ phase' = "emit" /\ pos' = pos + 1 /\ pos \in DOMAIN prog
        /\ UNCHANGED <<prog, fresh>>
        /\ prog[pos].t # "split"
    BY <1>4 DEF EmitFunc, EmitCluster, EmitMerge, EmitMixer, EmitSink, Plainly, Serve, At
  <2>2. prog[pos].t \in Mixers => prog[pos].out[2] # NoChan
    BY <1>4 DEF EmitFunc, EmitCluster, EmitMerge, EmitMixer, EmitSink, Plainly, EmitReject
  <2>3. \A i \in DOMAIN prog : i < pos' => i < pos \/ i = pos
    BY <1>0, <2>1
  <2> QED
    BY <1>0, <2>1, <2>2, <2>3 DEF FreshInv
<1>5. CASE EmitSplit
  <2> DEFINE null == NullOutputs(prog[pos])
             id(k) == sinkCnt + Cardinality({j \in null : j < k})
  <2>1. /\ phase = "emit" /\ phase' = "emit" /\ pos' = pos + 1 /\ pos \in DOMAIN prog
        /\ prog' = prog /\ prog[pos].t = "split"
        /\ fresh' = fresh \cup {[elem |-> pos, slot |-> k, id |-> id(k)] : k \in null}
    BY <1>5 DEF EmitSplit, Serve, At, NullOutputs
  <2> HIDE DEF id
  <2>2. \A f \in fresh' : f \in fresh \/ \E k \in null : f = [elem |-> pos, slot |-> k, id |-> id(k)]
    BY <2>1
  <2>3. \A k \in null : \E f \in fresh' : f.elem = pos /\ f.slot = k
    <3> TAKE k \in null
    <3>1. [elem |-> pos, slot |-> k, id |-> id(k)] \in fresh'
      BY <2>1
    <3> QED
      BY <3>1
  <2>4. \A f \in fresh : f \in fresh' /\ f.elem \in Nat /\ f.elem < pos
    BY <1>0, <2>1 DEF FreshInv
  <2>5. \A i \in DOMAIN prog : i < pos' => i < pos \/ i = pos
    BY <1>0, <2>1
  <2>6. \A f \in fresh' : /\ f.elem \in DOMAIN prog /\ f.elem < pos'
                          /\ prog[f.elem].t = "split" /\ f.slot \in NullOutputs(prog[f.elem])
    <3> SUFFICES ASSUME NEW f \in fresh'
                 PROVE  /\ f.elem \in DOMAIN prog /\ f.elem < pos'
                        /\ prog[f.elem].t = "split" /\ f.slot \in NullOutputs(prog[f.elem])
      OBVIOUS
    <3>1. CASE f \in fresh
      BY <1>0, <2>1, <2>4, <3>1 DEF FreshInv
    <3>2. CASE \E k \in null : f = [elem |-> pos, slot |-> k, id |-> id(k)]
      BY <1>0, <2>1, <3>2
    <3> QED
      BY <2>2, <3>1, <3>2
  <2>7. \A f, g \in fresh' : (f.elem = g.elem /\ f.slot = g.slot) => f = g
    BY <1>0, <2>1, <2>2, <2>4 DEF FreshInv
  <2>8. \A i \in DOMAIN prog : i < pos' =>
       /\ prog[i].t = "split" => \A o \in NullOutputs(prog[i]) :
                                   \E f \in fresh' : f.elem = i /\ f.slot = o
       /\ prog[i].t \in Mixers => prog[i].out[2] # NoChan
    BY <2>1, <2>3, <2>4, <2>5 DEF FreshInv
  <2> QED
    BY <2>1, <2>6, <2>7, <2>8 DEF FreshInv
<1>6. CASE Finish
  BY <1>6 DEF Finish, FreshInv
<1>7. CASE UNCHANGED vars
  BY <1>7 DEF vars, FreshInv
<1> QED
  BY <1>1, <1>2, <1>3, <1>4, <1>5, <1>6, <1>7 DEF Next

WalkInv == IInv /\ HeldInv /\ SinksDistinct /\ FreshInv

LEMMA WalkInit == Init => WalkInv
BY InitInv, HeldInit, SinksInit, FreshInit DEF WalkInv

LEMMA WalkStep == WalkInv /\ [Next]_vars => WalkInv'
BY StepInv, HeldStep, SinksStep, FreshStep DEF WalkInv

\* A finished process.
Printed == WalkInv /\ phase = "done" /\ UnsharedSinks

\* Every read has a wire of its own: that of an uncopied channel, or an output
\* of the COPY; and none of them is without its read.
LEMMA ReadWires ==
  ASSUME Printed
  PROVE  /\ \A i \in DOMAIN prog : \A k \in CountedSlots(prog[i]) :
              LET c == SlotChan(prog[i], k)
              IN  /\ c \in Chan /\ c \in Read(prog)
                  /\ IF c \in DOMAIN copies
                     THEN \E x \in 0 .. copies[c] - 1 : ReadWire(i, k) = <<c, 0, x>>
                     ELSE ReadWire(i, k) = <<c, -1, 0>>
         /\ \A i, j \in DOMAIN prog : \A k \in CountedSlots(prog[i]) : \A l \in CountedSlots(prog[j]) :
              ReadWire(i, k) = ReadWire(j, l) => i = j /\ k = l
         /\ \A c \in Read(prog) \ DOMAIN copies :
              \E i \in DOMAIN prog : \E k \in CountedSlots(prog[i]) : ReadWire(i, k) = <<c, -1, 0>>
         /\ \A c \in DOMAIN copies : \A x \in 0 .. copies[c] - 1 :
              \E i \in DOMAIN prog : \E k \in CountedSlots(prog[i]) : ReadWire(i, k) = <<c, 0, x>>
         /\ \A c \in DOMAIN copies : c \in Chan /\ c \in Read(prog) /\ copies[c] \in Nat /\ copies[c] >= 2
<1>1. /\ IInv /\ HeldInv /\ UnsharedSinks /\ phase = "done" /\ prog \in Programs
      /\ pos = Len(prog) + 1 /\ OnePerSlot /\ Len(prog) \in Nat /\ DOMAIN prog = 1 .. Len(prog)
  BY ProgramsAssumption DEF Printed, WalkInv, IInv, HeldInv
<1>2. /\ \A w \in Wanted : \E h \in readers : h.elem = w.elem /\ h.slot = w.slot
      /\ \A x \in LaidOut : \E h \in readers : h.at = x
      /\ F!Matched(readers)
  BY <1>1, NothingLeft, MatchedHolds
<1>3. \A c \in DOMAIN opUses : c \in Chan /\ opUses[c] \in Nat
  BY <1>1 DEF IInv, TypeOK
<1>4. /\ \A r \in readers : r.elem \in DOMAIN prog /\ r.slot \in CountedSlots(prog[r.elem])
                            /\ r.at.chan = SlotChan(prog[r.elem], r.slot) /\ r.at.chan \in DOMAIN opUses
      /\ \A r \in readers : r.at \in LaidOut
      /\ \A r, s \in readers : r.at = s.at => r.elem = s.elem /\ r.slot = s.slot
  BY <1>1, <1>2 DEF F!Matched, IInv, ReaderInv
<1>5. \A x \in LaidOut : \E c \in DOMAIN opUses :
         IF c \in DOMAIN copies
         THEN \E k \in 0 .. copies[c] - 1 : x = [chan |-> c, out |-> k]
         ELSE x = [chan |-> c, out |-> Direct]
  BY <1>1, EndsLaidOut
<1>6. ASSUME NEW i \in DOMAIN prog, NEW k \in CountedSlots(prog[i])
      PROVE  \E r \in readers : r.elem = i /\ r.slot = k /\ ReadWire(i, k) = Wire(r.at)
  <2>1. \E r \in readers : r.elem = i /\ r.slot = k
    BY <1>1, <1>6 DEF HeldInv, PassedAttached
  <2> QED
    BY <2>1 DEF ReadWire
<1>7. ASSUME NEW r \in readers
      PROVE  LET c == SlotChan(prog[r.elem], r.slot)
             IN  /\ r.at.chan = c /\ c \in DOMAIN opUses
                 /\ IF c \in DOMAIN copies
                    THEN /\ \E x \in 0 .. copies[c] - 1 : Wire(r.at) = <<c, 0, x>> /\ r.at = [chan |-> c, out |-> x]
                    ELSE Wire(r.at) = <<c, -1, 0>> /\ r.at = [chan |-> c, out |-> Direct]
  <2>1. PICK c \in DOMAIN opUses :
         IF c \in DOMAIN copies
         THEN \E k \in 0 .. copies[c] - 1 : r.at = [chan |-> c, out |-> k]
         ELSE r.at = [chan |-> c, out |-> Direct]
    BY <1>4, <1>5
  <2>2. c = r.at.chan /\ c = SlotChan(prog[r.elem], r.slot)
    <3>1. c = r.at.chan
      <4>1. CASE c \in DOMAIN copies
        <5>1. PICK k \in 0 .. copies[c] - 1 : r.at = [chan |-> c, out |-> k]
          BY <2>1, <4>1
        <5> QED
          BY <5>1
      <4>2. CASE c \notin DOMAIN copies
        BY <2>1, <4>2
      <4> QED
        BY <4>1, <4>2
    <3> QED
      BY <1>4, <3>1
  <2>3. CASE c \in DOMAIN copies
    <3>1. PICK x \in 0 .. copies[c] - 1 : r.at = [chan |-> c, out |-> x]
      BY <2>1, <2>3
    <3>2. x # Direct
      BY <3>1 DEF Direct
    <3> QED
      BY <2>2, <2>3, <3>1, <3>2 DEF Wire
  <2>4. CASE c \notin DOMAIN copies
    BY <2>1, <2>2, <2>4 DEF Wire
  <2> QED
    BY <2>3, <2>4
<1>8. ASSUME NEW c \in DOMAIN opUses PROVE c \in Read(prog)
  <2>1. \E x \in LaidOut : x.chan = c
    <3>1. CASE c \in DOMAIN copies
      <4>1. copies[c] = opUses[c] + 1 /\ 0 \in 0 .. copies[c] - 1
        BY <1>1, <1>3, <3>1 DEF IInv, CopiesInv
      <4> QED
        BY <1>1, <3>1, <4>1, EndsLaidOut
    <3>2. CASE c \notin DOMAIN copies
      BY <1>1, <3>2, EndsLaidOut
    <3> QED
      BY <3>1, <3>2
  <2>2. PICK r \in readers : r.at.chan = c
    BY <1>2, <2>1
  <2>3. c \in {SlotChan(prog[r.elem], k) : k \in CountedSlots(prog[r.elem])} /\ r.elem \in DOMAIN prog
    BY <1>4, <2>2
  <2> QED
    BY <2>3 DEF Read
<1>9. ASSUME NEW i \in DOMAIN prog, NEW k \in CountedSlots(prog[i])
      PROVE  LET c == SlotChan(prog[i], k)
             IN  /\ c \in Chan /\ c \in Read(prog)
                 /\ IF c \in DOMAIN copies
                    THEN \E x \in 0 .. copies[c] - 1 : ReadWire(i, k) = <<c, 0, x>>
                    ELSE ReadWire(i, k) = <<c, -1, 0>>
  <2>1. PICK r \in readers : r.elem = i /\ r.slot = k /\ ReadWire(i, k) = Wire(r.at)
    BY <1>6
  <2> QED
    BY <1>3, <1>7, <1>8, <2>1
<1>10. ASSUME NEW i \in DOMAIN prog, NEW j \in DOMAIN prog,
              NEW k \in CountedSlots(prog[i]), NEW l \in CountedSlots(prog[j]),
              ReadWire(i, k) = ReadWire(j, l)
       PROVE  i = j /\ k = l
  <2>1. PICK r \in readers : r.elem = i /\ r.slot = k /\ ReadWire(i, k) = Wire(r.at)
    BY <1>6
  <2>2. PICK s \in readers : s.elem = j /\ s.slot = l /\ ReadWire(j, l) = Wire(s.at)
    BY <1>6
  <2>3. Wire(r.at) = Wire(s.at)
    BY <1>10, <2>1, <2>2
  <2>4. r.at = s.at
    <3> DEFINE c == SlotChan(prog[r.elem], r.slot)
               d == SlotChan(prog[s.elem], s.slot)
    <3>1. IF c \in DOMAIN copies
          THEN \E x \in 0 .. copies[c] - 1 : Wire(r.at) = <<c, 0, x>> /\ r.at = [chan |-> c, out |-> x]
          ELSE Wire(r.at) = <<c, -1, 0>> /\ r.at = [chan |-> c, out |-> Direct]
      BY <1>7
    <3>2. IF d \in DOMAIN copies
          THEN \E x \in 0 .. copies[d] - 1 : Wire(s.at) = <<d, 0, x>> /\ s.at = [chan |-> d, out |-> x]
          ELSE Wire(s.at) = <<d, -1, 0>> /\ s.at = [chan |-> d, out |-> Direct]
      BY <1>7
    <3> HIDE DEF c, d
    <3>3. CASE c \in DOMAIN copies
      <4>1. PICK x \in 0 .. copies[c] - 1 : Wire(r.at) = <<c, 0, x>> /\ r.at = [chan |-> c, out |-> x]
        BY <3>1, <3>3
      <4>2. d \in DOMAIN copies
        BY <2>3, <3>2, <4>1
      <4>3. PICK y \in 0 .. copies[d] - 1 : Wire(s.at) = <<d, 0, y>> /\ s.at = [chan |-> d, out |-> y]
        BY <3>2, <4>2
      <4>4. <<c, 0, x>> = <<d, 0, y>>
        BY <2>3, <4>1, <4>3
      <4>5. c = d /\ x = y
        BY <4>4
      <4> QED
        BY <4>1, <4>3, <4>5
    <3>4. CASE c \notin DOMAIN copies
      <4>1. Wire(r.at) = <<c, -1, 0>> /\ r.at = [chan |-> c, out |-> Direct]
        BY <3>1, <3>4
      <4>2. d \notin DOMAIN copies
        BY <2>3, <3>2, <4>1
      <4>3. Wire(s.at) = <<d, -1, 0>> /\ s.at = [chan |-> d, out |-> Direct]
        BY <3>2, <4>2
      <4>4. <<c, -1, 0>> = <<d, -1, 0>>
        BY <2>3, <4>1, <4>3
      <4>5. c = d
        BY <4>4
      <4> QED
        BY <4>1, <4>3, <4>5
    <3> QED
      BY <3>3, <3>4
  <2> QED
    BY <1>4, <2>1, <2>2, <2>4
<1>11. ASSUME NEW r \in readers
       PROVE  r.elem \in DOMAIN prog /\ r.slot \in CountedSlots(prog[r.elem])
              /\ ReadWire(r.elem, r.slot) = Wire(r.at)
  <2>1. PICK s \in readers : s.elem = r.elem /\ s.slot = r.slot /\ ReadWire(r.elem, r.slot) = Wire(s.at)
    BY <1>4, <1>6
  <2> QED
    BY <1>1, <1>4, <2>1 DEF OnePerSlot
<1>12. ASSUME NEW c \in DOMAIN opUses
       PROVE  IF c \in DOMAIN copies
              THEN \A x \in 0 .. copies[c] - 1 :
                     \E i \in DOMAIN prog : \E k \in CountedSlots(prog[i]) : ReadWire(i, k) = <<c, 0, x>>
              ELSE \E i \in DOMAIN prog : \E k \in CountedSlots(prog[i]) : ReadWire(i, k) = <<c, -1, 0>>
  <2>1. ASSUME c \in DOMAIN copies, NEW x \in 0 .. copies[c] - 1
        PROVE  \E i \in DOMAIN prog : \E k \in CountedSlots(prog[i]) : ReadWire(i, k) = <<c, 0, x>>
    <3>1. [chan |-> c, out |-> x] \in LaidOut
      BY <1>1, <2>1, EndsLaidOut
    <3>2. PICK r \in readers : r.at = [chan |-> c, out |-> x]
      BY <1>2, <3>1
    <3>3. Wire(r.at) = <<c, 0, x>>
      BY <2>1, <3>2 DEF Direct, Wire
    <3> QED
      BY <1>11, <3>3
  <2>2. ASSUME c \notin DOMAIN copies
        PROVE  \E i \in DOMAIN prog : \E k \in CountedSlots(prog[i]) : ReadWire(i, k) = <<c, -1, 0>>
    <3>1. [chan |-> c, out |-> Direct] \in LaidOut
      BY <1>1, <2>2, EndsLaidOut
    <3>2. PICK r \in readers : r.at = [chan |-> c, out |-> Direct]
      BY <1>2, <3>1
    <3>3. Wire(r.at) = <<c, -1, 0>>
      BY <3>2 DEF Direct, Wire
    <3> QED
      BY <1>11, <3>3
  <2> QED
    BY <2>1, <2>2
<1>13. ASSUME NEW c \in Read(prog) PROVE c \in DOMAIN opUses
  <2>1. PICK i \in DOMAIN prog : c \in {SlotChan(prog[i], k) : k \in CountedSlots(prog[i])}
    BY DEF Read
  <2>2. PICK k \in CountedSlots(prog[i]) : c = SlotChan(prog[i], k)
    BY <2>1
  <2>3. PICK r \in readers : r.elem = i /\ r.slot = k
    BY <1>6, <2>2
  <2> QED
    BY <1>4, <2>2, <2>3
<1>14. ASSUME NEW c \in DOMAIN copies
       PROVE  c \in DOMAIN opUses /\ c \in Chan /\ c \in Read(prog) /\ copies[c] \in Nat /\ copies[c] >= 2
  <2>1. c \in DOMAIN opUses /\ opUses[c] > 0 /\ copies[c] = opUses[c] + 1
    BY <1>1 DEF IInv, CopiesInv
  <2> QED
    BY <1>3, <1>8, <2>1
<1> QED
  BY <1>9, <1>10, <1>12, <1>13, <1>14

-----------------------------------------------------------------------------
(* COPY trees *)

\* The leaves a level of n outputs takes, and their number.
Upper(n) == IF n - (n \div LeafWidth) * LeafWidth > 0 THEN n \div LeafWidth + 1 ELSE n \div LeafWidth

LEMMA DivFacts ==
  ASSUME NEW n \in Nat
  PROVE  /\ n \div LeafWidth \in Nat
         /\ LeafWidth * (n \div LeafWidth) <= n
         /\ n < LeafWidth * (n \div LeafWidth) + LeafWidth
BY CircuitAssumption

LEMMA BlockUnique ==
  ASSUME NEW a \in Nat, NEW b \in Nat, NEW r \in 0 .. LeafWidth - 1, NEW s \in 0 .. LeafWidth - 1,
         LeafWidth * a + r = LeafWidth * b + s
  PROVE  a = b /\ r = s
<1>0. LeafWidth \in Nat /\ LeafWidth >= 2
  BY CircuitAssumption
<1>1. ASSUME NEW x \in Nat, NEW y \in Nat, x < y PROVE LeafWidth * x + LeafWidth <= LeafWidth * y
  <2>1. PICK d \in Nat : y = x + 1 + d
    <3>1. y - x - 1 \in Nat /\ y = x + 1 + (y - x - 1)
      BY <1>1
    <3> QED
      BY <3>1
  <2>2. LeafWidth * y = LeafWidth * x + LeafWidth + LeafWidth * d /\ LeafWidth * d \in Nat
    BY <1>0, <2>1
  <2> QED
    BY <1>0, <2>2
<1>2. LeafWidth * a \in Nat /\ LeafWidth * b \in Nat
  BY <1>0
<1>3. ~(a < b)
  BY <1>0, <1>1, <1>2
<1>4. ~(b < a)
  BY <1>0, <1>1, <1>2
<1>5. a = b
  BY <1>3, <1>4
<1> QED
  BY <1>0, <1>2, <1>5

LEMMA UpperFacts ==
  ASSUME NEW n \in Nat
  PROVE  /\ Upper(n) \in Nat
         /\ n >= 1 => Upper(n) >= 1
         /\ n > LeafWidth => Upper(n) < n
         /\ \A i \in Nat : i < Upper(n) <=> LeafWidth * i < n
<1> DEFINE m == n \div LeafWidth
<1>1. /\ m \in Nat /\ LeafWidth * m \in Nat /\ LeafWidth * m <= n /\ n < LeafWidth * m + LeafWidth
      /\ LeafWidth \in Nat /\ LeafWidth >= 2
      /\ m * LeafWidth = LeafWidth * m
  BY DivFacts, CircuitAssumption
<1>2. Upper(n) = IF n - LeafWidth * m > 0 THEN m + 1 ELSE m
  BY <1>1 DEF Upper
<1> HIDE DEF m
<1>3. ASSUME NEW i \in Nat, i <= m PROVE LeafWidth * i <= LeafWidth * m /\ LeafWidth * i \in Nat
                                         /\ (i < m => LeafWidth * i < LeafWidth * m)
  <2>1. PICK d \in Nat : m = i + d
    <3>1. m - i \in Nat /\ m = i + (m - i)
      BY <1>1, <1>3
    <3> QED
      BY <3>1
  <2>2. LeafWidth * m = LeafWidth * i + LeafWidth * d /\ LeafWidth * d \in Nat /\ LeafWidth * i \in Nat
    BY <1>1, <2>1
  <2>3. d > 0 => LeafWidth * d > 0
    BY <1>1, <2>1
  <2> QED
    BY <1>1, <2>1, <2>2, <2>3
<1>4. ASSUME NEW i \in Nat, i >= m + 1 PROVE LeafWidth * i >= LeafWidth * m + LeafWidth /\ LeafWidth * i \in Nat
  <2>1. PICK d \in Nat : i = m + 1 + d
    <3>1. i - m - 1 \in Nat /\ i = m + 1 + (i - m - 1)
      BY <1>1, <1>4
    <3> QED
      BY <3>1
  <2>2. LeafWidth * i = LeafWidth * m + LeafWidth + LeafWidth * d /\ LeafWidth * d \in Nat
    BY <1>1, <2>1
  <2> QED
    BY <1>1, <2>2
<1>5. n > LeafWidth => m >= 1 /\ LeafWidth * m >= 2 * m
  BY <1>1
<1>6. \A i \in Nat : i < Upper(n) <=> LeafWidth * i < n
  <2> TAKE i \in Nat
  <2>1. CASE i < m
    BY <1>1, <1>2, <1>3, <2>1
  <2>2. CASE i = m
    BY <1>1, <1>2, <2>2
  <2>3. CASE i > m
    BY <1>1, <1>2, <1>4, <2>3
  <2> QED
    BY <1>1, <2>1, <2>2, <2>3
<1>7. n >= 1 => Upper(n) >= 1
  BY <1>1, <1>2
<1> QED
  BY <1>1, <1>2, <1>5, <1>6, <1>7

\* The recursive definition of Outputs has a solution.
LEMMA OutputsFacts ==
  ASSUME NEW n \in Nat
  PROVE  /\ Outputs(n)[0] = n
         /\ \A level \in Nat : /\ Outputs(n)[level] \in Nat
                               /\ Outputs(n)[level + 1] = Upper(Outputs(n)[level])
<1> DEFINE Up(f) == [level \in Nat |-> IF level = 0 THEN n
             ELSE LET below == f[level - 1]
                      m == below \div LeafWidth
                  IN  IF below - m * LeafWidth > 0 THEN m + 1 ELSE m]
           height == [x \in Nat |-> x]
           step == [p \in [Nat -> Nat] \X Nat |-> Up(p[1])[p[2]]]
<1>1. ASSUME NEW f, NEW x \in Nat
      PROVE  Up(f)[x] = IF x = 0 THEN n ELSE Upper(f[x - 1])
  BY DEF Upper
<1> HIDE DEF Up
<1>2. ASSUME NEW f \in [Nat -> Nat], NEW x \in Nat
      PROVE  Up(f)[x] \in Nat
  <2>1. CASE x = 0
    BY <1>1, <2>1
  <2>2. CASE x # 0
    <3>1. x - 1 \in Nat /\ f[x - 1] \in Nat
      BY <2>2
    <3>2. Upper(f[x - 1]) \in Nat
      BY <3>1, UpperFacts
    <3> QED
      BY <1>1, <2>2, <3>2
  <2> QED
    BY <2>1, <2>2
<1>3. ASSUME NEW f \in [Nat -> Nat], NEW x \in Nat
      PROVE  step[<<f, x>>] = Up(f)[x]
  OBVIOUS
<1>4. DependsBelow(Nat, Nat, height, step)
  <2>1. step \in [[Nat -> Nat] \X Nat -> Nat]
    <3>1. \A p \in [Nat -> Nat] \X Nat : step[p] \in Nat
      BY <1>2
    <3> QED
      BY <3>1
  <2>2. ASSUME NEW f \in [Nat -> Nat], NEW g \in [Nat -> Nat], NEW x \in Nat,
               \A y \in Nat : height[y] < height[x] => f[y] = g[y]
        PROVE  step[<<f, x>>] = step[<<g, x>>]
    <3>1. x # 0 => f[x - 1] = g[x - 1]
      BY <2>2
    <3> QED
      BY <1>1, <1>3, <3>1
  <2>3. height \in [Nat -> Nat] /\ Nat # {}
    OBVIOUS
  <2> HIDE DEF height, step
  <2> QED
    BY <2>1, <2>2, <2>3 DEF DependsBelow
<1>5. PICK f : Recursive(Nat, Nat, step, f)
  <2> HIDE DEF height, step
  <2> QED
    BY <1>4, RecursionDefines
<1>6. f \in [Nat -> Nat] /\ \A x \in Nat : f[x] = step[<<f, x>>]
  BY <1>5 DEF Recursive
<1>7. f = Up(f)
  <2>1. \A x \in Nat : f[x] = Up(f)[x]
    BY <1>3, <1>6
  <2>2. Up(f) = [x \in Nat |-> Up(f)[x]]
    BY DEF Up
  <2> QED
    BY <1>6, <2>1, <2>2
<1>8. Outputs(n) = CHOOSE at : at = Up(at)
  BY DEF Outputs, Up
<1>9. Outputs(n) = Up(Outputs(n))
  BY <1>7, <1>8
<1> DEFINE at == Outputs(n)
<1>10. \A x \in Nat : at[x] = IF x = 0 THEN n ELSE Upper(at[x - 1])
  BY <1>1, <1>9
<1> HIDE DEF at
<1> DEFINE Bad == {x \in Nat : at[x] \notin Nat}
<1>11. Bad = {}
  <2> SUFFICES ASSUME Bad # {} PROVE FALSE
    OBVIOUS
  <2>1. PICK x \in Bad : \A y \in Bad : x <= y
    <3>1. Bad \in SUBSET Nat
      OBVIOUS
    <3> HIDE DEF Bad
    <3> QED
      BY <3>1, SmallestOf
  <2>2. x # 0
    BY <1>10, <2>1
  <2>3. x - 1 \in Nat /\ at[x - 1] \in Nat
    BY <2>1, <2>2
  <2> QED
    BY <1>10, <2>1, <2>2, <2>3, UpperFacts
<1>12. at[0] = n /\ \A x \in Nat : at[x] \in Nat /\ at[x + 1] = Upper(at[x])
  BY <1>10, <1>11
<1> QED
  BY <1>12 DEF at

\* The tree has a root.
LEMMA RootFacts ==
  ASSUME NEW n \in Nat, n >= 1
  PROVE  /\ Root(n) \in Nat
         /\ Outputs(n)[Root(n)] <= LeafWidth
         /\ \A level \in 0 .. Root(n) : Outputs(n)[level] >= 1
         /\ \A level \in 0 .. Root(n) - 1 : Outputs(n)[level] > LeafWidth
<1> DEFINE at == Outputs(n)
           Wide == {l \in Nat : at[l] <= LeafWidth}
<1>1. at[0] = n /\ \A l \in Nat : at[l] \in Nat /\ at[l + 1] = Upper(at[l])
  BY OutputsFacts
<1> HIDE DEF at
<1>2. LeafWidth \in Nat
  BY CircuitAssumption
<1> DEFINE Bad == {l \in 0 .. n : (\A k \in 0 .. l - 1 : at[k] > LeafWidth) /\ at[l] > n - l}
<1>3. Bad = {}
  <2> SUFFICES ASSUME Bad # {} PROVE FALSE
    OBVIOUS
  <2>1. PICK l \in Bad : \A k \in Bad : l <= k
    <3>1. Bad \in SUBSET Nat
      OBVIOUS
    <3> HIDE DEF Bad
    <3> QED
      BY <3>1, SmallestOf
  <2>2. l # 0
    BY <1>1, <2>1
  <2>3. l - 1 \in 0 .. n /\ l - 1 \notin Bad /\ \A k \in 0 .. l - 2 : at[k] > LeafWidth
    BY <2>1, <2>2
  <2>4. at[l - 1] <= n - (l - 1) /\ at[l - 1] > LeafWidth
    BY <1>1, <2>1, <2>2, <2>3
  <2>5. at[l] = Upper(at[l - 1])
    BY <1>1, <2>3
  <2>6. at[l] < at[l - 1]
    <3>1. at[l - 1] \in Nat
      BY <1>1, <2>3
    <3>2. Upper(at[l - 1]) < at[l - 1]
      BY <2>4, <3>1, UpperFacts
    <3> QED
      BY <2>5, <3>2
  <2> QED
    BY <1>1, <2>1, <2>3, <2>4, <2>6
<1>4. Wide \cap (0 .. n) # {}
  <2> SUFFICES ASSUME \A l \in 0 .. n : at[l] > LeafWidth PROVE FALSE
    BY <1>1, <1>2
  <2>1. n \in 0 .. n /\ n \notin Bad
    BY <1>3
  <2>2. at[n] <= n - n
    BY <1>1, <2>1
  <2> QED
    BY <1>1, <1>2, <2>1, <2>2
<1>5. PICK t \in Wide \cap (0 .. n) : \A k \in Wide \cap (0 .. n) : t <= k
  <2> DEFINE T == Wide \cap (0 .. n)
  <2>1. T \in SUBSET Nat /\ T # {}
    BY <1>4
  <2> HIDE DEF T
  <2>2. \E t \in T : \A k \in T : t <= k
    BY <2>1, SmallestOf
  <2> QED
    BY <2>2 DEF T
<1>6. \A k \in 0 .. t - 1 : at[k] > LeafWidth
  BY <1>1, <1>2, <1>5
<1>7. /\ Root(n) \in 0 .. n /\ at[Root(n)] <= LeafWidth
      /\ \A level \in 0 .. Root(n) - 1 : at[level] > LeafWidth
  <2> DEFINE P(top) == at[top] <= LeafWidth /\ \A level \in 0 .. top - 1 : at[level] > LeafWidth
  <2>1. P(t) /\ t \in 0 .. n
    BY <1>5, <1>6
  <2>2. Root(n) = CHOOSE top \in 0 .. n : P(top)
    BY DEF Root, at
  <2> HIDE DEF P
  <2>3. Root(n) \in 0 .. n /\ P(Root(n))
    BY <2>1, <2>2
  <2> QED
    BY <2>3 DEF P
<1> DEFINE Low == {l \in Nat : ~(at[l] >= 1)}
<1>8. Low = {}
  <2> SUFFICES ASSUME Low # {} PROVE FALSE
    OBVIOUS
  <2>1. PICK x \in Low : \A y \in Low : x <= y
    <3>1. Low \in SUBSET Nat
      OBVIOUS
    <3> HIDE DEF Low
    <3> QED
      BY <3>1, SmallestOf
  <2>2. x # 0
    BY <1>1, <2>1
  <2>3. x - 1 \in Nat /\ at[x - 1] >= 1 /\ at[x - 1] \in Nat
    BY <1>1, <2>1, <2>2
  <2>4. at[x] = Upper(at[x - 1])
    <3>1. at[x - 1 + 1] = Upper(at[x - 1])
      BY <1>1, <2>3
    <3> QED
      BY <2>1, <3>1
  <2>5. Upper(at[x - 1]) >= 1
    BY <2>3, UpperFacts
  <2> QED
    BY <2>1, <2>4, <2>5
<1>9. \A level \in 0 .. Root(n) : at[level] >= 1
  BY <1>7, <1>8
<1> QED
  BY <1>7, <1>9 DEF at

\* Leaf i of a level of n outputs: it takes output i of the level above, or
\* the channel itself, and has the outputs of block i that the level has.
LeafPorts(n, i) == {k \in 1 .. LeafWidth : LeafWidth * i + k - 1 < n}
LeafAt(c, level, n, i) ==
  Proc(<<"copy", level, i, c>>, "copy_leaf", 0,
       [k \in {1} |-> IF n <= LeafWidth THEN <<c, -1, 0>> ELSE <<c, level + 1, i>>],
       [k \in LeafPorts(n, i) |-> <<c, level, LeafWidth * i + k - 1>>])

LEMMA LevelFacts ==
  ASSUME NEW c, NEW level \in Nat, NEW n \in Nat, n >= 1
  PROVE  Level(c, level, n) = {LeafAt(c, level, n, i) : i \in 0 .. Upper(n) - 1}
<1> DEFINE m == n \div LeafWidth
<1>1. /\ m \in Nat /\ LeafWidth * m \in Nat /\ LeafWidth * m <= n /\ n < LeafWidth * m + LeafWidth
      /\ LeafWidth \in Nat /\ LeafWidth >= 2
      /\ m * LeafWidth = LeafWidth * m
  BY DivFacts, CircuitAssumption
<1>2. Upper(n) = IF n - LeafWidth * m > 0 THEN m + 1 ELSE m
  BY <1>1 DEF Upper
<1>3. Upper(n) \in Nat /\ Upper(n) >= 1 /\ \A i \in Nat : i < Upper(n) <=> LeafWidth * i < n
  BY UpperFacts
<1>4. CASE n <= LeafWidth
  <2>1. Upper(n) = 1
    <3>1. ~(1 < Upper(n))
      <4>1. ~(LeafWidth * 1 < n)
        BY <1>1, <1>4
      <4> QED
        BY <1>3, <4>1
    <3> QED
      BY <1>3, <3>1
  <2>2. {LeafAt(c, level, n, i) : i \in 0 .. Upper(n) - 1} = {LeafAt(c, level, n, 0)}
    <3>1. 0 .. Upper(n) - 1 = {0}
      BY <2>1
    <3> QED
      BY <3>1
  <2>3. LeafPorts(n, 0) = 1 .. n - 1 - 0 + 1
    BY <1>1, <1>4 DEF LeafPorts
  <2>4. [k \in LeafPorts(n, 0) |-> <<c, level, LeafWidth * 0 + k - 1>>]
          = [k \in 1 .. n - 1 - 0 + 1 |-> <<c, level, 0 + k - 1>>]
    <3>1. LeafWidth * 0 = 0
      BY <1>1
    <3> QED
      BY <2>3, <3>1
  <2>5. LeafAt(c, level, n, 0) = Leaf(c, level, 0, <<c, -1, 0>>, 0, n - 1)
    BY <1>4, <2>4 DEF LeafAt, Leaf
  <2> QED
    BY <1>4, <2>2, <2>5 DEF Level
<1>5. CASE n > LeafWidth
  <2> DEFINE f == n - m * LeafWidth
             A(i) == Leaf(c, level, i, <<c, level + 1, i>>, LeafWidth * i, LeafWidth * i + LeafWidth - 1)
             B == Leaf(c, level, m, <<c, level + 1, m>>, m * LeafWidth, n - 1)
  <2>1. Level(c, level, n) = {A(i) : i \in 0 .. m - 1} \cup (IF f > 0 THEN {B} ELSE {})
    <3>1. ~(n <= LeafWidth)
      BY <1>1, <1>5
    <3> QED
      BY <3>1 DEF Level
  <2>2. ASSUME NEW i \in 0 .. m - 1 PROVE A(i) = LeafAt(c, level, n, i)
    <3>1. LeafWidth * i \in Nat /\ LeafWidth * i + LeafWidth <= LeafWidth * m
      <4>1. PICK d \in Nat : m = i + 1 + d
        <5>1. m - i - 1 \in Nat /\ m = i + 1 + (m - i - 1)
          BY <1>1, <2>2
        <5> QED
          BY <5>1
      <4>2. LeafWidth * m = LeafWidth * i + LeafWidth + LeafWidth * d /\ LeafWidth * d \in Nat
        BY <1>1, <4>1
      <4> QED
        BY <1>1, <4>2
    <3>2. LeafPorts(n, i) = 1 .. LeafWidth
      BY <1>1, <3>1 DEF LeafPorts
    <3>3. 1 .. (LeafWidth * i + LeafWidth - 1) - LeafWidth * i + 1 = 1 .. LeafWidth
      <4>1. (LeafWidth * i + LeafWidth - 1) - LeafWidth * i + 1 = LeafWidth
        BY <1>1, <3>1
      <4> QED
        BY <4>1
    <3>4. [k \in LeafPorts(n, i) |-> <<c, level, LeafWidth * i + k - 1>>]
            = [k \in 1 .. (LeafWidth * i + LeafWidth - 1) - LeafWidth * i + 1 |->
                 <<c, level, LeafWidth * i + k - 1>>]
      BY <3>2, <3>3
    <3>5. ~(n <= LeafWidth)
      BY <1>1, <1>5
    <3> QED
      BY <3>4, <3>5 DEF LeafAt, Leaf
  <2>3. ASSUME f > 0 PROVE B = LeafAt(c, level, n, m)
    <3>1. LeafPorts(n, m) = 1 .. (n - 1) - m * LeafWidth + 1
      BY <1>1 DEF LeafPorts
    <3>2. [k \in LeafPorts(n, m) |-> <<c, level, LeafWidth * m + k - 1>>]
            = [k \in 1 .. (n - 1) - m * LeafWidth + 1 |-> <<c, level, m * LeafWidth + k - 1>>]
      BY <1>1, <3>1
    <3>3. ~(n <= LeafWidth)
      BY <1>1, <1>5
    <3> QED
      BY <3>2, <3>3 DEF LeafAt, Leaf
  <2> HIDE DEF A, B
  <2>4. CASE f > 0
    <3>1. 0 .. Upper(n) - 1 = (0 .. m - 1) \cup {m}
      BY <1>1, <1>2, <2>4
    <3> QED
      BY <2>1, <2>2, <2>3, <2>4, <3>1
  <2>5. CASE ~(f > 0)
    <3>1. 0 .. Upper(n) - 1 = 0 .. m - 1
      BY <1>1, <1>2, <2>5
    <3> QED
      BY <2>1, <2>2, <2>5, <3>1
  <2> QED
    BY <2>4, <2>5
<1> QED
  BY <1>1, <1>4, <1>5

\* Leaf i of a level of the copy of c.
LeafOf(p, c, level, i) ==
  /\ c \in DOMAIN copies /\ level \in 0 .. Root(copies[c])
  /\ i \in 0 .. Upper(Outputs(copies[c])[level]) - 1
  /\ p = LeafAt(c, level, Outputs(copies[c])[level], i)

LEMMA TreeFacts ==
  ASSUME NEW c \in DOMAIN copies, copies[c] \in Nat, copies[c] >= 2
  PROVE  /\ \A p : p \in CopyTree(c, copies[c]) <=> \E level, i : LeafOf(p, c, level, i)
         /\ \A level \in 0 .. Root(copies[c]) :
              /\ level \in Nat /\ Outputs(copies[c])[level] \in Nat /\ Outputs(copies[c])[level] >= 1
              /\ Outputs(copies[c])[level] <= LeafWidth <=> level = Root(copies[c])
              /\ level # Root(copies[c]) =>
                   level + 1 \in 0 .. Root(copies[c])
                   /\ Outputs(copies[c])[level + 1] = Upper(Outputs(copies[c])[level])
         /\ Root(copies[c]) \in Nat /\ Outputs(copies[c])[0] = copies[c]
         /\ Upper(Outputs(copies[c])[Root(copies[c])]) = 1
<1> DEFINE n == copies[c]
           at == Outputs(n)
<1>1. n \in Nat /\ n >= 1
  OBVIOUS
<1>2. at[0] = n /\ \A l \in Nat : at[l] \in Nat /\ at[l + 1] = Upper(at[l])
  BY OutputsFacts
<1>3. /\ Root(n) \in Nat /\ at[Root(n)] <= LeafWidth
      /\ \A level \in 0 .. Root(n) : at[level] >= 1
      /\ \A level \in 0 .. Root(n) - 1 : at[level] > LeafWidth
  BY <1>1, RootFacts
<1>4. LeafWidth \in Nat /\ LeafWidth >= 2
  BY CircuitAssumption
<1> HIDE DEF n, at
<1>5. ASSUME NEW level \in 0 .. Root(n)
      PROVE  /\ level \in Nat /\ at[level] \in Nat /\ at[level] >= 1
             /\ at[level] <= LeafWidth <=> level = Root(n)
             /\ level # Root(n) => level + 1 \in 0 .. Root(n) /\ at[level + 1] = Upper(at[level])
  BY <1>2, <1>3, <1>4
<1>6. Upper(at[Root(n)]) = 1
  <2>1. at[Root(n)] \in Nat /\ at[Root(n)] >= 1 /\ ~(LeafWidth * 1 < at[Root(n)])
    BY <1>2, <1>3, <1>4
  <2>2. Upper(at[Root(n)]) \in Nat /\ Upper(at[Root(n)]) >= 1 /\ ~(1 < Upper(at[Root(n)]))
    BY <2>1, UpperFacts
  <2> QED
    BY <2>2
<1>7. ASSUME NEW p
      PROVE  p \in CopyTree(c, n) <=> \E level, i : LeafOf(p, c, level, i)
  <2>1. p \in CopyTree(c, n) <=> \E level \in 0 .. Root(n) : p \in Level(c, level, at[level])
    BY DEF CopyTree, at
  <2>2. ASSUME NEW level \in 0 .. Root(n)
        PROVE  p \in Level(c, level, at[level])
                 <=> \E i \in 0 .. Upper(at[level]) - 1 : p = LeafAt(c, level, at[level], i)
    <3>1. Level(c, level, at[level]) = {LeafAt(c, level, at[level], i) : i \in 0 .. Upper(at[level]) - 1}
      BY <1>5, LevelFacts
    <3> QED
      BY <3>1
  <2>3. (\E level, i : LeafOf(p, c, level, i))
           <=> \E level \in 0 .. Root(n) : \E i \in 0 .. Upper(at[level]) - 1 :
                  p = LeafAt(c, level, at[level], i)
    BY DEF LeafOf, at, n
  <2> QED
    BY <2>1, <2>2, <2>3
<1> QED
  BY <1>2, <1>3, <1>5, <1>6, <1>7 DEF at, n

-----------------------------------------------------------------------------
(* The processes of the circuit, and their wires *)

SourceOf(p, i, o) ==
  /\ i \in DOMAIN prog /\ o \in Literals(prog[i])
  /\ p = Proc(<<"source", i, o, NoChan>>, "source", i, <<>>, [x \in {o} |-> DriveWire(i, o)])
UnitOf(p, i) ==
  /\ i \in DOMAIN prog
  /\ ~(prog[i].out # <<>> /\ Literals(prog[i]) = DOMAIN prog[i].out)
  /\ p = Proc(<<"unit", i, 0, NoChan>>, prog[i].t, i, [k \in CountedSlots(prog[i]) |-> ReadWire(i, k)],
              [o \in DOMAIN prog[i].out \ Literals(prog[i]) |-> DriveWire(i, o)])
BufferOf(p, i, o, j) ==
  /\ i \in DOMAIN prog /\ o \in DOMAIN prog[i].out /\ j \in 1 .. Buffer(prog, i, o).n
  /\ LET b == Buffer(prog, i, o)
         c == prog[i].out[o]
     IN  p = Proc(<<"buf", i, o, j>>,
                  IF j = b.n /\ b.init # Idle THEN "init" ELSE "onebuf", 0,
                  [k \in {1} |-> <<c, -2, j - 1>>],
                  [k \in {1} |-> IF j = b.n THEN <<c, -1, 0>> ELSE <<c, -2, j>>])
SinkOf(p, f) ==
  /\ f \in fresh
  /\ p = Proc(<<"sink", f.id, 0, NoChan>>, "sink", 0, [k \in {1} |-> <<NoChan, -1, f.id>>], <<>>)

LEMMA Pieces ==
  ASSUME Printed, NEW p
  PROVE  p \in Circuit <=> \/ \E i, o : SourceOf(p, i, o)
                           \/ \E i : UnitOf(p, i)
                           \/ \E i, o, j : BufferOf(p, i, o, j)
                           \/ \E c, level, i : LeafOf(p, c, level, i)
                           \/ \E f : SinkOf(p, f)
<1>1. p \in Circuit <=> \/ \E i \in DOMAIN prog : p \in UnitsOf(i)
                        \/ \E i \in DOMAIN prog : \E o \in DOMAIN prog[i].out : p \in BuffersOf(i, o)
                        \/ \E c \in DOMAIN copies : p \in CopyTree(c, copies[c])
                        \/ \E f \in fresh : SinkOf(p, f)
  <2> DEFINE U == UNION {UnitsOf(i) : i \in DOMAIN prog}
             B == UNION {UNION {BuffersOf(i, o) : o \in DOMAIN prog[i].out} : i \in DOMAIN prog}
             T == UNION {CopyTree(c, copies[c]) : c \in DOMAIN copies}
             S == {Proc(<<"sink", f.id, 0, NoChan>>, "sink", 0, [k \in {1} |-> <<NoChan, -1, f.id>>], <<>>)
                     : f \in fresh}
  <2>1. Circuit = U \cup B \cup T \cup S
    BY DEF Circuit
  <2>2. p \in U <=> \E i \in DOMAIN prog : p \in UnitsOf(i)
    OBVIOUS
  <2>3. p \in B <=> \E i \in DOMAIN prog : \E o \in DOMAIN prog[i].out : p \in BuffersOf(i, o)
    OBVIOUS
  <2>4. p \in T <=> \E c \in DOMAIN copies : p \in CopyTree(c, copies[c])
    OBVIOUS
  <2>5. p \in S <=> \E f \in fresh : SinkOf(p, f)
    BY DEF SinkOf
  <2> HIDE DEF U, B, T, S
  <2> QED
    BY <2>1, <2>2, <2>3, <2>4, <2>5
<1>2. ASSUME NEW i \in DOMAIN prog
      PROVE  p \in UnitsOf(i) <=> (\E o : SourceOf(p, i, o)) \/ UnitOf(p, i)
  <2> DEFINE e == prog[i]
             lits == {o \in DOMAIN e.out : Literal(e, o)}
             ins == [k \in CountedSlots(e) |-> ReadWire(i, k)]
             S == {Proc(<<"source", i, o, NoChan>>, "source", i, <<>>, [x \in {o} |-> DriveWire(i, o)])
                     : o \in lits}
             U == IF e.out # <<>> /\ lits = DOMAIN e.out THEN {}
                  ELSE {Proc(<<"unit", i, 0, NoChan>>, e.t, i, ins,
                        [o \in DOMAIN e.out \ lits |-> DriveWire(i, o)])}
  <2>1. UnitsOf(i) = S \cup U
    BY DEF UnitsOf
  <2>2. lits = Literals(e)
    BY DEF Literals
  <2>3. p \in S <=> \E o : SourceOf(p, i, o)
    BY <2>2 DEF SourceOf
  <2>4. p \in U <=> UnitOf(p, i)
    BY <2>2 DEF UnitOf
  <2> HIDE DEF S, U
  <2> QED
    BY <2>1, <2>3, <2>4
<1>3. ASSUME NEW i \in DOMAIN prog, NEW o \in DOMAIN prog[i].out
      PROVE  p \in BuffersOf(i, o) <=> \E j : BufferOf(p, i, o, j)
  BY DEF BuffersOf, BufferOf
<1>4. ASSUME NEW c \in DOMAIN copies
      PROVE  p \in CopyTree(c, copies[c]) <=> \E level, i : LeafOf(p, c, level, i)
  <2>1. copies[c] \in Nat /\ copies[c] >= 2
    BY ReadWires
  <2> QED
    BY <2>1, TreeFacts
<1>5. (\E i \in DOMAIN prog : p \in UnitsOf(i)) <=> (\E i, o : SourceOf(p, i, o)) \/ \E i : UnitOf(p, i)
  <2>1. \A i, o : SourceOf(p, i, o) => i \in DOMAIN prog
    BY DEF SourceOf
  <2>2. \A i : UnitOf(p, i) => i \in DOMAIN prog
    BY DEF UnitOf
  <2> QED
    BY <1>2, <2>1, <2>2
<1>6. (\E i \in DOMAIN prog : \E o \in DOMAIN prog[i].out : p \in BuffersOf(i, o))
        <=> \E i, o, j : BufferOf(p, i, o, j)
  <2>1. \A i, o, j : BufferOf(p, i, o, j) => i \in DOMAIN prog /\ o \in DOMAIN prog[i].out
    BY DEF BufferOf
  <2> QED
    BY <1>3, <2>1
<1>7. (\E c \in DOMAIN copies : p \in CopyTree(c, copies[c])) <=> \E c, level, i : LeafOf(p, c, level, i)
  <2>1. \A c, level, i : LeafOf(p, c, level, i) => c \in DOMAIN copies
    BY DEF LeafOf
  <2> QED
    BY <1>4, <2>1
<1>8. (\E f \in fresh : SinkOf(p, f)) <=> \E f : SinkOf(p, f)
  BY DEF SinkOf
<1> QED
  BY <1>1, <1>5, <1>6, <1>7, <1>8

\* What an element sends on: the channel, the first wire of its buffers, or
\* the generated channel of a "*" output.
LEMMA DriveFacts ==
  ASSUME Printed, SingleDrivers, ElementShapes, SoundBuffers, NEW i \in DOMAIN prog, NEW o \in DOMAIN prog[i].out
  PROVE  LET c == prog[i].out[o]
             n == Buffer(prog, i, o).n
         IN  /\ c \in Chan \cup {NoChan} /\ n \in Nat
             /\ c = NoChan => n = 0 /\ o \notin Literals(prog[i])
                              /\ \E f \in fresh : f.elem = i /\ f.slot = o
                                                  /\ DriveWire(i, o) = <<NoChan, -1, f.id>>
             /\ c # NoChan => DriveWire(i, o) = IF n > 0 THEN <<c, -2, 0>> ELSE <<c, -1, 0>>
<1> DEFINE c == prog[i].out[o]
           n == Buffer(prog, i, o).n
<1>1. prog \in Programs /\ FreshInv /\ phase = "done" /\ pos = Len(prog) + 1
  BY DEF Printed, WalkInv, IInv, HeldInv
<1>2. prog[i].out \in Seq(Chan \cup {NoChan}) /\ i \in Nat /\ i < pos
  BY <1>1, ShapeFacts, ElementFacts
<1>3. n \in Nat /\ (c = NoChan => n = 0)
  BY <1>1 DEF SoundBuffers
<1>4. ASSUME c = NoChan
      PROVE  /\ o \notin Literals(prog[i])
             /\ \E f \in fresh : f.elem = i /\ f.slot = o /\ DriveWire(i, o) = <<NoChan, -1, f.id>>
  <2>1. prog[i].t = "split" \/ (prog[i].t \in Mixers /\ o = 2)
    BY <1>1, <1>4 DEF ElementShapes
  <2>2. prog[i].t = "split"
    BY <1>1, <1>2, <1>4, <2>1 DEF FreshInv
  <2>3. o \in NullOutputs(prog[i])
    BY <1>4 DEF NullOutputs
  <2>4. \E f \in fresh : f.elem = i /\ f.slot = o
    BY <1>1, <1>2, <2>2, <2>3 DEF FreshInv
  <2>5. PICK f \in fresh : f.elem = i /\ f.slot = o /\ f = CHOOSE g \in fresh : g.elem = i /\ g.slot = o
    BY <2>4
  <2>6. DriveWire(i, o) = <<NoChan, -1, f.id>>
    BY <1>4, <2>5 DEF DriveWire
  <2> QED
    BY <2>2, <2>5, <2>6 DEF Literals, Literal
<1>5. c # NoChan => DriveWire(i, o) = IF n > 0 THEN <<c, -2, 0>> ELSE <<c, -1, 0>>
  BY DEF DriveWire
<1> QED
  BY <1>2, <1>3, <1>4, <1>5

LEMMA DriveApart ==
  ASSUME Printed, SingleDrivers, ElementShapes, SoundBuffers,
         NEW i \in DOMAIN prog, NEW o \in DOMAIN prog[i].out,
         NEW j \in DOMAIN prog, NEW r \in DOMAIN prog[j].out, DriveWire(i, o) = DriveWire(j, r)
  PROVE  i = j /\ o = r
<1> DEFINE c == prog[i].out[o]
           d == prog[j].out[r]
<1>1. prog \in Programs /\ SinksDistinct
  BY DEF Printed, WalkInv, IInv
<1>2. /\ c = NoChan => \E f \in fresh : f.elem = i /\ f.slot = o /\ DriveWire(i, o) = <<NoChan, -1, f.id>>
      /\ c # NoChan => \E l \in {-1, -2} : DriveWire(i, o) = <<c, l, 0>>
  BY DriveFacts
<1>3. /\ d = NoChan => \E f \in fresh : f.elem = j /\ f.slot = r /\ DriveWire(j, r) = <<NoChan, -1, f.id>>
      /\ d # NoChan => \E l \in {-1, -2} : DriveWire(j, r) = <<d, l, 0>>
  BY DriveFacts
<1>4. CASE c # NoChan
  <2>1. c = d
    BY <1>2, <1>3, <1>4
  <2> QED
    BY <1>1, <1>4, <2>1 DEF SingleDrivers
<1>5. CASE c = NoChan
  <2>1. PICK f \in fresh : f.elem = i /\ f.slot = o /\ DriveWire(i, o) = <<NoChan, -1, f.id>>
    BY <1>2, <1>5
  <2>2. d = NoChan
    BY <1>3, <2>1
  <2>3. PICK g \in fresh : g.elem = j /\ g.slot = r /\ DriveWire(j, r) = <<NoChan, -1, g.id>>
    BY <1>3, <2>2
  <2>4. <<NoChan, -1, f.id>> = <<NoChan, -1, g.id>>
    BY <2>1, <2>3
  <2>5. f.id = g.id
    BY <2>4
  <2> QED
    BY <1>1, <2>1, <2>3, <2>5 DEF SinksDistinct
<1> QED
  BY <1>4, <1>5

\* Output k of p is an output of element i; of buffer j on output o of i; of
\* leaf x of a level of the copy of c.
FromElement(p, k, i) ==
  /\ i \in DOMAIN prog /\ k \in DOMAIN prog[i].out /\ p.outs[k] = DriveWire(i, k)
  /\ IF k \in Literals(prog[i]) THEN SourceOf(p, i, k) ELSE UnitOf(p, i)
FromBuffer(p, k, i, o, j) ==
  /\ BufferOf(p, i, o, j) /\ k = 1 /\ i \in DOMAIN prog /\ o \in DOMAIN prog[i].out
  /\ prog[i].out[o] \in Chan /\ Buffer(prog, i, o).n \in Nat /\ j \in 1 .. Buffer(prog, i, o).n
  /\ j = Buffer(prog, i, o).n => p.outs[k] = <<prog[i].out[o], -1, 0>>
  /\ j # Buffer(prog, i, o).n => p.outs[k] = <<prog[i].out[o], -2, j>>
FromLeaf(p, k, c, level, x) ==
  /\ LeafOf(p, c, level, x) /\ c \in Chan /\ level \in Nat /\ x \in Nat
  /\ k \in 1 .. LeafWidth /\ LeafWidth * x + k - 1 < Outputs(copies[c])[level]
  /\ p.outs[k] = <<c, level, LeafWidth * x + k - 1>>

LEMMA BufferFacts ==
  ASSUME Printed, Bodies, NEW p, NEW i, NEW o, NEW j, BufferOf(p, i, o, j)
  PROVE  /\ i \in DOMAIN prog /\ o \in DOMAIN prog[i].out /\ prog[i].out[o] \in Chan
         /\ Buffer(prog, i, o).n \in Nat /\ j \in 1 .. Buffer(prog, i, o).n
         /\ DOMAIN p.ins = {1} /\ DOMAIN p.outs = {1} /\ p.elem = 0 /\ p.kind \in {"init", "onebuf"}
         /\ p.name = <<"buf", i, o, j>>
         /\ p.kind = "init" <=> j = Buffer(prog, i, o).n /\ Buffer(prog, i, o).init # Idle
         /\ p.ins[1] = <<prog[i].out[o], -2, j - 1>>
         /\ j = Buffer(prog, i, o).n => p.outs[1] = <<prog[i].out[o], -1, 0>>
         /\ j # Buffer(prog, i, o).n => p.outs[1] = <<prog[i].out[o], -2, j>>
<1> DEFINE c == prog[i].out[o]
           b == Buffer(prog, i, o)
<1>1. /\ i \in DOMAIN prog /\ o \in DOMAIN prog[i].out /\ j \in 1 .. b.n
      /\ p = Proc(<<"buf", i, o, j>>,
                  IF j = b.n /\ b.init # Idle THEN "init" ELSE "onebuf", 0,
                  [k \in {1} |-> <<c, -2, j - 1>>],
                  [k \in {1} |-> IF j = b.n THEN <<c, -1, 0>> ELSE <<c, -2, j>>])
  BY DEF BufferOf
<1>2. b.n \in Nat /\ c \in Chan \cup {NoChan} /\ (c = NoChan => b.n = 0)
  BY <1>1, DriveFacts DEF Bodies
<1>3. c \in Chan
  BY <1>1, <1>2
<1> HIDE DEF c, b
<1>4. /\ DOMAIN p.ins = {1} /\ DOMAIN p.outs = {1} /\ p.elem = 0
      /\ p.kind = IF j = b.n /\ b.init # Idle THEN "init" ELSE "onebuf"
      /\ p.name = <<"buf", i, o, j>> /\ p.ins[1] = <<c, -2, j - 1>>
      /\ j = b.n => p.outs[1] = <<c, -1, 0>>
      /\ j # b.n => p.outs[1] = <<c, -2, j>>
  BY <1>1 DEF Proc
<1> QED
  BY <1>1, <1>2, <1>3, <1>4 DEF b, c

LEMMA LeafFacts ==
  ASSUME Printed, NEW p, NEW c, NEW level, NEW x, LeafOf(p, c, level, x)
  PROVE  LET n == Outputs(copies[c])[level]
             top == Root(copies[c])
         IN  /\ c \in DOMAIN copies /\ c \in Chan /\ c \in Read(prog) /\ level \in Nat /\ x \in Nat
             /\ top \in Nat /\ level \in 0 .. top
             /\ n \in Nat /\ x < Upper(n) /\ Upper(n) \in Nat
             /\ p.name = <<"copy", level, x, c>> /\ p.elem = 0 /\ p.kind = "copy_leaf"
             /\ DOMAIN p.ins = {1} /\ DOMAIN p.outs = LeafPorts(n, x)
             /\ level = top => x = 0
             /\ level = top => p.ins[1] = <<c, -1, 0>>
             /\ level # top => p.ins[1] = <<c, level + 1, x>>
             /\ \A k \in DOMAIN p.outs : p.outs[k] = <<c, level, LeafWidth * x + k - 1>>
<1> DEFINE n == Outputs(copies[c])[level]
           top == Root(copies[c])
<1>1. /\ c \in DOMAIN copies /\ level \in 0 .. top /\ x \in 0 .. Upper(n) - 1
      /\ p = LeafAt(c, level, n, x)
  BY DEF LeafOf
<1>2. c \in Chan /\ c \in Read(prog) /\ copies[c] \in Nat /\ copies[c] >= 2
  BY <1>1, ReadWires
<1>3. /\ level \in Nat /\ n \in Nat /\ (n <= LeafWidth <=> level = top) /\ top \in Nat
      /\ Upper(Outputs(copies[c])[top]) = 1
  BY <1>1, <1>2, TreeFacts
<1>4. Upper(n) \in Nat
  BY <1>3, UpperFacts
<1>5. level = top => x = 0
  BY <1>1, <1>3
<1> HIDE DEF n, top
<1>6. /\ p.name = <<"copy", level, x, c>> /\ p.elem = 0 /\ p.kind = "copy_leaf"
      /\ DOMAIN p.ins = {1} /\ DOMAIN p.outs = LeafPorts(n, x)
      /\ n <= LeafWidth => p.ins[1] = <<c, -1, 0>>
      /\ ~(n <= LeafWidth) => p.ins[1] = <<c, level + 1, x>>
      /\ \A k \in DOMAIN p.outs : p.outs[k] = <<c, level, LeafWidth * x + k - 1>>
  BY <1>1 DEF LeafAt, Proc
<1>7. /\ level = top => p.ins[1] = <<c, -1, 0>>
      /\ level # top => p.ins[1] = <<c, level + 1, x>>
  BY <1>3, <1>6
<1>8. x \in Nat /\ x < Upper(n)
  BY <1>1, <1>4
<1> QED
  BY <1>1, <1>2, <1>3, <1>4, <1>5, <1>6, <1>7, <1>8 DEF n, top

LEMMA UnitFacts ==
  ASSUME Printed, NEW p
  PROVE  /\ \A i, o : SourceOf(p, i, o) =>
              /\ i \in DOMAIN prog /\ o \in Literals(prog[i]) /\ o \in DOMAIN prog[i].out
              /\ p.name = <<"source", i, o, NoChan>> /\ p.kind = "source" /\ p.elem = i /\ p.ins = <<>>
              /\ DOMAIN p.outs = {o} /\ p.outs[o] = DriveWire(i, o)
         /\ \A i : UnitOf(p, i) =>
              /\ i \in DOMAIN prog /\ p.name = <<"unit", i, 0, NoChan>> /\ p.kind = prog[i].t /\ p.elem = i
              /\ DOMAIN p.ins = CountedSlots(prog[i])
              /\ \A k \in CountedSlots(prog[i]) : p.ins[k] = ReadWire(i, k)
              /\ DOMAIN p.outs = DOMAIN prog[i].out \ Literals(prog[i])
              /\ \A o \in DOMAIN p.outs : p.outs[o] = DriveWire(i, o)
         /\ \A f : SinkOf(p, f) =>
              /\ f \in fresh /\ p.name = <<"sink", f.id, 0, NoChan>> /\ p.kind = "sink" /\ p.elem = 0
              /\ DOMAIN p.ins = {1} /\ p.ins[1] = <<NoChan, -1, f.id>> /\ DOMAIN p.outs = {}
<1>1. ASSUME NEW i, NEW o, SourceOf(p, i, o)
      PROVE  /\ i \in DOMAIN prog /\ o \in Literals(prog[i]) /\ o \in DOMAIN prog[i].out
             /\ p.name = <<"source", i, o, NoChan>> /\ p.kind = "source" /\ p.elem = i /\ p.ins = <<>>
             /\ DOMAIN p.outs = {o} /\ p.outs[o] = DriveWire(i, o)
  BY <1>1 DEF SourceOf, Proc, Literals
<1>2. ASSUME NEW i, UnitOf(p, i)
      PROVE  /\ i \in DOMAIN prog /\ p.name = <<"unit", i, 0, NoChan>> /\ p.kind = prog[i].t /\ p.elem = i
             /\ DOMAIN p.ins = CountedSlots(prog[i])
             /\ \A k \in CountedSlots(prog[i]) : p.ins[k] = ReadWire(i, k)
             /\ DOMAIN p.outs = DOMAIN prog[i].out \ Literals(prog[i])
             /\ \A o \in DOMAIN p.outs : p.outs[o] = DriveWire(i, o)
  BY <1>2 DEF UnitOf, Proc
<1>3. ASSUME NEW f, SinkOf(p, f)
      PROVE  /\ f \in fresh /\ p.name = <<"sink", f.id, 0, NoChan>> /\ p.kind = "sink" /\ p.elem = 0
             /\ DOMAIN p.ins = {1} /\ p.ins[1] = <<NoChan, -1, f.id>> /\ DOMAIN p.outs = {}
  BY <1>3 DEF SinkOf, Proc
<1> QED
  BY <1>1, <1>2, <1>3

LEMMA Senders ==
  ASSUME Printed, Bodies, NEW p \in Circuit, NEW k \in DOMAIN p.outs
  PROVE  \/ \E i : FromElement(p, k, i)
         \/ \E i, o, j : FromBuffer(p, k, i, o, j)
         \/ \E c, level, x : FromLeaf(p, k, c, level, x)
<1>1. ASSUME NEW i, NEW o, SourceOf(p, i, o) PROVE FromElement(p, k, i)
  <2>1. /\ i \in DOMAIN prog /\ o \in Literals(prog[i]) /\ o \in DOMAIN prog[i].out
        /\ DOMAIN p.outs = {o} /\ p.outs[o] = DriveWire(i, o)
    BY <1>1, UnitFacts
  <2> QED
    BY <1>1, <2>1 DEF FromElement
<1>2. ASSUME NEW i, UnitOf(p, i) PROVE FromElement(p, k, i)
  <2>1. /\ i \in DOMAIN prog /\ DOMAIN p.outs = DOMAIN prog[i].out \ Literals(prog[i])
        /\ \A o \in DOMAIN p.outs : p.outs[o] = DriveWire(i, o)
    BY <1>2, UnitFacts
  <2> QED
    BY <1>2, <2>1 DEF FromElement
<1>3. ASSUME NEW i, NEW o, NEW j, BufferOf(p, i, o, j) PROVE FromBuffer(p, k, i, o, j)
  <2>1. /\ i \in DOMAIN prog /\ o \in DOMAIN prog[i].out /\ prog[i].out[o] \in Chan
        /\ Buffer(prog, i, o).n \in Nat /\ j \in 1 .. Buffer(prog, i, o).n
        /\ DOMAIN p.outs = {1}
        /\ j = Buffer(prog, i, o).n => p.outs[1] = <<prog[i].out[o], -1, 0>>
        /\ j # Buffer(prog, i, o).n => p.outs[1] = <<prog[i].out[o], -2, j>>
    BY <1>3, BufferFacts
  <2>2. k = 1
    BY <2>1
  <2> QED
    BY <1>3, <2>1, <2>2 DEF FromBuffer
<1>4. ASSUME NEW c, NEW level, NEW x, LeafOf(p, c, level, x) PROVE FromLeaf(p, k, c, level, x)
  <2>1. /\ c \in Chan /\ level \in Nat /\ x \in Nat
        /\ DOMAIN p.outs = LeafPorts(Outputs(copies[c])[level], x)
        /\ \A r \in DOMAIN p.outs : p.outs[r] = <<c, level, LeafWidth * x + r - 1>>
    BY <1>4, LeafFacts
  <2>2. k \in LeafPorts(Outputs(copies[c])[level], x) /\ p.outs[k] = <<c, level, LeafWidth * x + k - 1>>
    BY <2>1
  <2> QED
    BY <1>4, <2>1, <2>2 DEF FromLeaf, LeafPorts
<1>5. \A f : ~SinkOf(p, f)
  BY UnitFacts
<1> QED
  BY <1>1, <1>2, <1>3, <1>4, <1>5, Pieces

\* The wire an output is attached to.
LEMMA SentOn ==
  ASSUME Printed, Bodies, NEW p, NEW k
  PROVE  /\ \A i : FromElement(p, k, i) =>
              LET c == prog[i].out[k]
                  n == Buffer(prog, i, k).n
              IN  /\ c = NoChan => \E id : p.outs[k] = <<NoChan, -1, id>>
                  /\ c # NoChan => c \in Chan /\ n \in Nat
                  /\ c # NoChan /\ n > 0 => p.outs[k] = <<c, -2, 0>>
                  /\ c # NoChan /\ n = 0 => p.outs[k] = <<c, -1, 0>>
BY DriveFacts DEF FromElement, Bodies

LEMMA ElementSends ==
  ASSUME Printed, Bodies, NEW p, NEW q, NEW k, NEW j, p.outs[k] = q.outs[j],
         NEW i, FromElement(p, k, i)
  PROVE  /\ \A r : FromElement(q, j, r) => p = q /\ k = j
         /\ \A r, o, b : ~FromBuffer(q, j, r, o, b)
         /\ \A c, level, x : ~FromLeaf(q, j, c, level, x)
<1>0. prog \in Programs
  BY DEF Printed, WalkInv, IInv
<1>1. /\ i \in DOMAIN prog /\ k \in DOMAIN prog[i].out /\ p.outs[k] = DriveWire(i, k)
      /\ IF k \in Literals(prog[i]) THEN SourceOf(p, i, k) ELSE UnitOf(p, i)
  BY DEF FromElement
<1> DEFINE c == prog[i].out[k]
           n == Buffer(prog, i, k).n
<1>2. /\ c = NoChan => \E id : p.outs[k] = <<NoChan, -1, id>>
      /\ c # NoChan => c \in Chan /\ n \in Nat
      /\ c # NoChan /\ n > 0 => p.outs[k] = <<c, -2, 0>>
      /\ c # NoChan /\ n = 0 => p.outs[k] = <<c, -1, 0>>
  BY SentOn
<1>3. ASSUME NEW r, FromElement(q, j, r) PROVE p = q /\ k = j
  <2>1. /\ r \in DOMAIN prog /\ j \in DOMAIN prog[r].out /\ q.outs[j] = DriveWire(r, j)
        /\ IF j \in Literals(prog[r]) THEN SourceOf(q, r, j) ELSE UnitOf(q, r)
    BY <1>3 DEF FromElement
  <2>2. i = r /\ k = j
    BY <1>1, <2>1, DriveApart DEF Bodies
  <2> QED
    BY <1>1, <2>1, <2>2 DEF SourceOf, UnitOf
<1>4. ASSUME NEW r, NEW o, NEW b, FromBuffer(q, j, r, o, b) PROVE FALSE
  <2> DEFINE d == prog[r].out[o]
  <2>1. /\ d \in Chan /\ b \in Nat /\ b >= 1 /\ Buffer(prog, r, o).n >= 1
        /\ r \in DOMAIN prog /\ o \in DOMAIN prog[r].out
        /\ b = Buffer(prog, r, o).n => q.outs[j] = <<d, -1, 0>>
        /\ b # Buffer(prog, r, o).n => q.outs[j] = <<d, -2, b>>
    BY <1>4 DEF FromBuffer
  <2>2. c # NoChan
    BY <1>2, <2>1, ProgramsAssumption
  <2>3. c = d /\ ~(n > 0)
    BY <1>2, <2>1, <2>2
  <2>4. i = r /\ k = o
    BY <1>0, <1>1, <2>1, <2>2, <2>3 DEF Bodies, SingleDrivers
  <2>5. n = Buffer(prog, r, o).n
    BY <2>4
  <2>6. n \in Nat /\ n >= 1
    BY <1>2, <2>1, <2>2, <2>5
  <2> QED
    BY <2>3, <2>6
<1>5. ASSUME NEW d, NEW level, NEW x, FromLeaf(q, j, d, level, x) PROVE FALSE
  BY <1>2, <1>5 DEF FromLeaf
<1> QED
  BY <1>3, <1>4, <1>5

LEMMA OneSenderHolds ==
  ASSUME Printed, Bodies PROVE OneSender(Circuit)
<1>0. prog \in Programs /\ LeafWidth \in Nat
  BY CircuitAssumption DEF Printed, WalkInv, IInv
<1> SUFFICES ASSUME NEW p \in Circuit, NEW q \in Circuit, NEW k \in DOMAIN p.outs, NEW j \in DOMAIN q.outs,
                    p.outs[k] = q.outs[j]
             PROVE  p = q /\ k = j
  BY DEF OneSender
<1>1. CASE \E i : FromElement(p, k, i)
  <2>1. PICK i : FromElement(p, k, i)
    BY <1>1
  <2>2. /\ \A r : FromElement(q, j, r) => p = q /\ k = j
        /\ \A r, o, b : ~FromBuffer(q, j, r, o, b)
        /\ \A c, level, x : ~FromLeaf(q, j, c, level, x)
    BY <2>1, ElementSends
  <2> QED
    BY <2>2, Senders
<1>2. CASE \E i : FromElement(q, j, i)
  <2>1. PICK i : FromElement(q, j, i)
    BY <1>2
  <2>2. /\ \A r : FromElement(p, k, r) => q = p /\ j = k
        /\ \A r, o, b : ~FromBuffer(p, k, r, o, b)
        /\ \A c, level, x : ~FromLeaf(p, k, c, level, x)
    BY <2>1, ElementSends
  <2> QED
    BY <2>2, Senders
<1>3. ASSUME NEW i, NEW o, NEW b, FromBuffer(p, k, i, o, b), NEW r, NEW m, NEW a, FromBuffer(q, j, r, m, a)
      PROVE  p = q /\ k = j
  <2>1. /\ prog[i].out[o] \in Chan /\ i \in DOMAIN prog /\ o \in DOMAIN prog[i].out
        /\ b \in 1 .. Buffer(prog, i, o).n /\ Buffer(prog, i, o).n \in Nat /\ k = 1
        /\ b = Buffer(prog, i, o).n => p.outs[k] = <<prog[i].out[o], -1, 0>>
        /\ b # Buffer(prog, i, o).n => p.outs[k] = <<prog[i].out[o], -2, b>>
    BY <1>3 DEF FromBuffer
  <2>2. /\ prog[r].out[m] \in Chan /\ r \in DOMAIN prog /\ m \in DOMAIN prog[r].out
        /\ a \in 1 .. Buffer(prog, r, m).n /\ Buffer(prog, r, m).n \in Nat /\ j = 1
        /\ a = Buffer(prog, r, m).n => q.outs[j] = <<prog[r].out[m], -1, 0>>
        /\ a # Buffer(prog, r, m).n => q.outs[j] = <<prog[r].out[m], -2, a>>
    BY <1>3 DEF FromBuffer
  <2>3. prog[i].out[o] = prog[r].out[m]
    BY <2>1, <2>2
  <2>4. i = r /\ o = m
    BY <1>0, <2>1, <2>2, <2>3, ProgramsAssumption DEF Bodies, SingleDrivers
  <2>5. a = b
    BY <2>1, <2>2, <2>4
  <2> QED
    BY <1>3, <2>1, <2>2, <2>4, <2>5 DEF FromBuffer, BufferOf
<1>4. ASSUME NEW i, NEW o, NEW b, FromBuffer(p, k, i, o, b), NEW c, NEW l, NEW x, FromLeaf(q, j, c, l, x)
      PROVE  FALSE
  BY <1>4 DEF FromBuffer, FromLeaf
<1>5. ASSUME NEW i, NEW o, NEW b, FromBuffer(q, j, i, o, b), NEW c, NEW l, NEW x, FromLeaf(p, k, c, l, x)
      PROVE  FALSE
  BY <1>5 DEF FromBuffer, FromLeaf
<1>6. ASSUME NEW c, NEW l, NEW x, FromLeaf(p, k, c, l, x), NEW d, NEW m, NEW y, FromLeaf(q, j, d, m, y)
      PROVE  p = q /\ k = j
  <2>1. /\ x \in Nat /\ k \in 1 .. LeafWidth /\ p.outs[k] = <<c, l, LeafWidth * x + k - 1>> /\ LeafOf(p, c, l, x)
    BY <1>6 DEF FromLeaf
  <2>2. /\ y \in Nat /\ j \in 1 .. LeafWidth /\ q.outs[j] = <<d, m, LeafWidth * y + j - 1>> /\ LeafOf(q, d, m, y)
    BY <1>6 DEF FromLeaf
  <2>3. c = d /\ l = m /\ LeafWidth * x + k - 1 = LeafWidth * y + j - 1
    <3>1. <<c, l, LeafWidth * x + k - 1>> = <<d, m, LeafWidth * y + j - 1>>
      BY <2>1, <2>2
    <3> HIDE <2>1, <2>2
    <3> QED
      BY <3>1, Zenon
  <2>4. /\ k - 1 \in 0 .. LeafWidth - 1 /\ j - 1 \in 0 .. LeafWidth - 1
        /\ LeafWidth * x + (k - 1) = LeafWidth * y + (j - 1)
    BY <1>0, <2>1, <2>2, <2>3
  <2>5. x = y /\ k - 1 = j - 1
    BY <2>1, <2>2, <2>4, BlockUnique
  <2> QED
    BY <1>0, <2>1, <2>2, <2>3, <2>5 DEF LeafOf
<1> QED
  BY <1>1, <1>2, <1>3, <1>4, <1>5, <1>6, Senders

\* Input k of p is slot k of element i; the input of buffer j on output o of
\* i; of leaf x of a level of the copy of c; of the sink of f.
ToElement(p, k, i) == UnitOf(p, i) /\ k \in CountedSlots(prog[i]) /\ p.ins[k] = ReadWire(i, k)
ToBuffer(p, k, i, o, j) ==
  /\ BufferOf(p, i, o, j) /\ k = 1 /\ i \in DOMAIN prog /\ o \in DOMAIN prog[i].out
  /\ prog[i].out[o] \in Chan /\ j \in Nat /\ j >= 1
  /\ p.ins[k] = <<prog[i].out[o], -2, j - 1>>
ToLeaf(p, k, c, level, x) ==
  /\ LeafOf(p, c, level, x) /\ k = 1 /\ c \in Chan /\ level \in Nat
  /\ level = Root(copies[c]) => x = 0 /\ p.ins[k] = <<c, -1, 0>>
  /\ level # Root(copies[c]) => p.ins[k] = <<c, level + 1, x>>
ToSink(p, k, f) == SinkOf(p, f) /\ k = 1 /\ f \in fresh /\ p.ins[k] = <<NoChan, -1, f.id>>

LEMMA Receivers ==
  ASSUME Printed, Bodies, NEW p \in Circuit, NEW k \in DOMAIN p.ins
  PROVE  \/ \E i : ToElement(p, k, i)
         \/ \E i, o, j : ToBuffer(p, k, i, o, j)
         \/ \E c, level, x : ToLeaf(p, k, c, level, x)
         \/ \E f : ToSink(p, k, f)
<1>1. ASSUME NEW i, NEW o, SourceOf(p, i, o) PROVE FALSE
  <2>1. p.ins = <<>>
    BY <1>1, UnitFacts
  <2> QED
    BY <2>1
<1>2. ASSUME NEW i, UnitOf(p, i) PROVE ToElement(p, k, i)
  <2>1. DOMAIN p.ins = CountedSlots(prog[i]) /\ \A r \in CountedSlots(prog[i]) : p.ins[r] = ReadWire(i, r)
    BY <1>2, UnitFacts
  <2> QED
    BY <1>2, <2>1 DEF ToElement
<1>3. ASSUME NEW i, NEW o, NEW j, BufferOf(p, i, o, j) PROVE ToBuffer(p, k, i, o, j)
  <2>1. /\ i \in DOMAIN prog /\ o \in DOMAIN prog[i].out /\ prog[i].out[o] \in Chan
        /\ Buffer(prog, i, o).n \in Nat /\ j \in 1 .. Buffer(prog, i, o).n
        /\ DOMAIN p.ins = {1} /\ p.ins[1] = <<prog[i].out[o], -2, j - 1>>
    BY <1>3, BufferFacts
  <2> QED
    BY <1>3, <2>1 DEF ToBuffer
<1>4. ASSUME NEW c, NEW level, NEW x, LeafOf(p, c, level, x) PROVE ToLeaf(p, k, c, level, x)
  <2>1. /\ c \in Chan /\ level \in Nat /\ DOMAIN p.ins = {1}
        /\ level = Root(copies[c]) => x = 0 /\ p.ins[1] = <<c, -1, 0>>
        /\ level # Root(copies[c]) => p.ins[1] = <<c, level + 1, x>>
    BY <1>4, LeafFacts
  <2> QED
    BY <1>4, <2>1 DEF ToLeaf
<1>5. ASSUME NEW f, SinkOf(p, f) PROVE ToSink(p, k, f)
  BY <1>5, UnitFacts DEF ToSink
<1> QED
  BY <1>1, <1>2, <1>3, <1>4, <1>5, Pieces

LEMMA ElementReceives ==
  ASSUME Printed, Bodies, NEW p, NEW q, NEW k, NEW j, p.ins[k] = q.ins[j],
         NEW i, ToElement(p, k, i)
  PROVE  /\ \A r : ToElement(q, j, r) => p = q /\ k = j
         /\ \A r, o, b : ~ToBuffer(q, j, r, o, b)
         /\ \A c, level, x : ~ToLeaf(q, j, c, level, x)
         /\ \A f : ~ToSink(q, j, f)
<1> DEFINE own == SlotChan(prog[i], k)
<1>1. UnitOf(p, i) /\ i \in DOMAIN prog /\ k \in CountedSlots(prog[i]) /\ p.ins[k] = ReadWire(i, k)
  BY DEF ToElement, UnitOf
<1>2. /\ own \in Chan
      /\ own \in DOMAIN copies => \E x \in 0 .. copies[own] - 1 : ReadWire(i, k) = <<own, 0, x>>
      /\ own \notin DOMAIN copies => ReadWire(i, k) = <<own, -1, 0>>
  BY <1>1, ReadWires
<1>3. ASSUME NEW r, ToElement(q, j, r) PROVE p = q /\ k = j
  <2>1. UnitOf(q, r) /\ r \in DOMAIN prog /\ j \in CountedSlots(prog[r]) /\ q.ins[j] = ReadWire(r, j)
    BY <1>3 DEF ToElement, UnitOf
  <2>2. ReadWire(i, k) = ReadWire(r, j)
    BY <1>1, <2>1
  <2>3. i = r /\ k = j
    <3>1. \A a, b \in DOMAIN prog : \A m \in CountedSlots(prog[a]) : \A l \in CountedSlots(prog[b]) :
             ReadWire(a, m) = ReadWire(b, l) => a = b /\ m = l
      BY ReadWires
    <3> QED
      BY <1>1, <2>1, <2>2, <3>1
  <2> QED
    BY <1>1, <2>1, <2>3 DEF UnitOf
<1>4. ASSUME NEW r, NEW o, NEW b, ToBuffer(q, j, r, o, b) PROVE FALSE
  <2>1. q.ins[j][2] = -2
    BY <1>4 DEF ToBuffer
  <2>2. ReadWire(i, k)[2] \in {0, -1}
    BY <1>2
  <2> QED
    BY <1>1, <2>1, <2>2
<1>5. ASSUME NEW d, NEW level, NEW x, ToLeaf(q, j, d, level, x) PROVE FALSE
  <2>1. d \in DOMAIN copies
    BY <1>5 DEF ToLeaf, LeafOf
  <2>2. level \in Nat /\ (q.ins[j] = <<d, -1, 0>> \/ q.ins[j] = <<d, level + 1, x>>)
    BY <1>5 DEF ToLeaf
  <2>3. ReadWire(i, k)[1] = own
    BY <1>2
  <2>4. q.ins[j][1] = d
    BY <2>2
  <2>5. own = d
    BY <1>1, <2>3, <2>4
  <2>6. ReadWire(i, k)[2] = 0
    BY <1>2, <2>1, <2>5
  <2>7. q.ins[j][2] = -1 \/ q.ins[j][2] = level + 1
    BY <2>2
  <2> QED
    BY <1>1, <2>2, <2>6, <2>7
<1>6. ASSUME NEW f, ToSink(q, j, f) PROVE FALSE
  <2>1. ReadWire(i, k)[1] = own
    BY <1>2
  <2>2. q.ins[j][1] = NoChan
    BY <1>6 DEF ToSink
  <2> QED
    BY <1>1, <1>2, <2>1, <2>2, ProgramsAssumption
<1> QED
  BY <1>3, <1>4, <1>5, <1>6

LEMMA OneReceiverHolds ==
  ASSUME Printed, Bodies PROVE OneReceiver(Circuit)
<1>0. prog \in Programs /\ SinksDistinct
  BY DEF Printed, WalkInv, IInv
<1> SUFFICES ASSUME NEW p \in Circuit, NEW q \in Circuit, NEW k \in DOMAIN p.ins, NEW j \in DOMAIN q.ins,
                    p.ins[k] = q.ins[j]
             PROVE  p = q /\ k = j
  BY DEF OneReceiver
<1>1. CASE \E i : ToElement(p, k, i)
  <2>1. PICK i : ToElement(p, k, i)
    BY <1>1
  <2>2. /\ \A r : ToElement(q, j, r) => p = q /\ k = j
        /\ \A r, o, b : ~ToBuffer(q, j, r, o, b)
        /\ \A c, level, x : ~ToLeaf(q, j, c, level, x)
        /\ \A f : ~ToSink(q, j, f)
    BY <2>1, ElementReceives
  <2> QED
    BY <2>2, Receivers
<1>2. CASE \E i : ToElement(q, j, i)
  <2>1. PICK i : ToElement(q, j, i)
    BY <1>2
  <2>2. /\ \A r : ToElement(p, k, r) => q = p /\ j = k
        /\ \A r, o, b : ~ToBuffer(p, k, r, o, b)
        /\ \A c, level, x : ~ToLeaf(p, k, c, level, x)
        /\ \A f : ~ToSink(p, k, f)
    BY <2>1, ElementReceives
  <2> QED
    BY <2>2, Receivers
<1>3. ASSUME NEW i, NEW o, NEW b, ToBuffer(p, k, i, o, b), NEW r, NEW m, NEW a, ToBuffer(q, j, r, m, a)
      PROVE  p = q /\ k = j
  <2>1. /\ BufferOf(p, i, o, b) /\ k = 1 /\ i \in DOMAIN prog /\ o \in DOMAIN prog[i].out /\ b \in Nat
        /\ prog[i].out[o] \in Chan /\ p.ins[k] = <<prog[i].out[o], -2, b - 1>>
    BY <1>3 DEF ToBuffer
  <2>2. /\ BufferOf(q, r, m, a) /\ j = 1 /\ r \in DOMAIN prog /\ m \in DOMAIN prog[r].out /\ a \in Nat
        /\ prog[r].out[m] \in Chan /\ q.ins[j] = <<prog[r].out[m], -2, a - 1>>
    BY <1>3 DEF ToBuffer
  <2>3. prog[i].out[o] = prog[r].out[m] /\ b = a
    BY <2>1, <2>2
  <2>4. i = r /\ o = m
    BY <1>0, <2>1, <2>2, <2>3, ProgramsAssumption DEF Bodies, SingleDrivers
  <2> QED
    BY <2>1, <2>2, <2>3, <2>4 DEF BufferOf
<1>4. ASSUME NEW c, NEW l, NEW x, ToLeaf(p, k, c, l, x), NEW d, NEW m, NEW y, ToLeaf(q, j, d, m, y)
      PROVE  p = q /\ k = j
  <2>1. /\ LeafOf(p, c, l, x) /\ k = 1 /\ l \in Nat
        /\ l = Root(copies[c]) => x = 0 /\ p.ins[k] = <<c, -1, 0>>
        /\ l # Root(copies[c]) => p.ins[k] = <<c, l + 1, x>>
    BY <1>4 DEF ToLeaf
  <2>2. /\ LeafOf(q, d, m, y) /\ j = 1 /\ m \in Nat
        /\ m = Root(copies[d]) => y = 0 /\ q.ins[j] = <<d, -1, 0>>
        /\ m # Root(copies[d]) => q.ins[j] = <<d, m + 1, y>>
    BY <1>4 DEF ToLeaf
  <2>3. c = d
    BY <2>1, <2>2
  <2>4. l = m /\ x = y
    <3>1. CASE l = Root(copies[c])
      <4>1. m = Root(copies[d])
        BY <2>1, <2>2, <3>1
      <4> QED
        BY <2>1, <2>2, <2>3, <3>1, <4>1
    <3>2. CASE l # Root(copies[c])
      <4>1. m # Root(copies[d])
        BY <2>1, <2>2, <3>2
      <4>2. <<c, l + 1, x>> = <<d, m + 1, y>>
        BY <2>1, <2>2, <3>2, <4>1
      <4>3. l + 1 = m + 1 /\ x = y
        BY <4>2
      <4> QED
        BY <2>1, <2>2, <4>3
    <3> QED
      BY <3>1, <3>2
  <2> QED
    BY <2>1, <2>2, <2>3, <2>4 DEF LeafOf
<1>5. ASSUME NEW f, ToSink(p, k, f), NEW g, ToSink(q, j, g)
      PROVE  p = q /\ k = j
  <2>1. <<NoChan, -1, f.id>> = <<NoChan, -1, g.id>> /\ f \in fresh /\ g \in fresh
    BY <1>5 DEF ToSink
  <2>2. f.id = g.id
    BY <2>1
  <2>3. f = g
    BY <1>0, <2>1, <2>2 DEF SinksDistinct
  <2> QED
    BY <1>5, <2>3 DEF ToSink, SinkOf
<1>6. /\ \A i, o, b : ToBuffer(p, k, i, o, b) => (\A c, l, x : ~ToLeaf(q, j, c, l, x)) /\ \A f : ~ToSink(q, j, f)
      /\ \A c, l, x : ToLeaf(p, k, c, l, x) => (\A i, o, b : ~ToBuffer(q, j, i, o, b)) /\ \A f : ~ToSink(q, j, f)
      /\ \A f : ToSink(p, k, f) => (\A i, o, b : ~ToBuffer(q, j, i, o, b)) /\ \A c, l, x : ~ToLeaf(q, j, c, l, x)
  <2>2. \A i, o, b : ToBuffer(p, k, i, o, b) => p.ins[k][1] \in Chan /\ p.ins[k][2] = -2
    BY DEF ToBuffer
  <2>3. \A i, o, b : ToBuffer(q, j, i, o, b) => q.ins[j][1] \in Chan /\ q.ins[j][2] = -2
    BY DEF ToBuffer
  <2>4. \A c, l, x : ToLeaf(p, k, c, l, x) => p.ins[k][1] \in Chan /\ p.ins[k][2] # -2
    BY DEF ToLeaf
  <2>5. \A c, l, x : ToLeaf(q, j, c, l, x) => q.ins[j][1] \in Chan /\ q.ins[j][2] # -2
    BY DEF ToLeaf
  <2>6. (\A f : ToSink(p, k, f) => p.ins[k][1] \notin Chan) /\ \A f : ToSink(q, j, f) => q.ins[j][1] \notin Chan
    BY ProgramsAssumption DEF ToSink
  <2> QED
    BY <2>2, <2>3, <2>4, <2>5, <2>6
<1> QED
  BY <1>1, <1>2, <1>3, <1>4, <1>5, <1>6, Receivers

LEMMA PortsFreeHolds ==
  ASSUME Printed, Bodies PROVE PortsFree(Circuit)
<1>1. ASSUME NEW c \in InPorts, NEW p \in Circuit, NEW k \in DOMAIN p.outs, p.outs[k] = <<c, -1, 0>>
      PROVE  FALSE
  <2>1. c \notin Driven(prog) /\ c \in Chan
    <3>1. PICK i \in DOMAIN prog : c \in {SlotChan(prog[i], s) : s \in CountedSlots(prog[i])}
      BY DEF InPorts, Read
    <3>2. PICK s \in CountedSlots(prog[i]) : c = SlotChan(prog[i], s)
      BY <3>1
    <3>3. c \in Chan
      BY <3>2, ReadWires
    <3> QED
      BY <3>3 DEF InPorts
  <2>2. \A i \in DOMAIN prog : \A o \in DOMAIN prog[i].out : prog[i].out[o] # c
    <3> SUFFICES ASSUME NEW i \in DOMAIN prog, NEW o \in DOMAIN prog[i].out, prog[i].out[o] = c PROVE FALSE
      OBVIOUS
    <3>1. c \in {prog[i].out[r] : r \in DOMAIN prog[i].out}
      OBVIOUS
    <3>2. c \in Driven(prog)
      BY <2>1, <3>1, ProgramsAssumption DEF Driven
    <3> QED
      BY <2>1, <3>2
  <2>3. ASSUME NEW i, FromElement(p, k, i) PROVE FALSE
    <3>1. i \in DOMAIN prog /\ k \in DOMAIN prog[i].out
      BY <2>3 DEF FromElement
    <3>2. prog[i].out[k] = NoChan
      BY <1>1, <2>2, <2>3, <3>1, SentOn
    <3>3. PICK id : p.outs[k] = <<NoChan, -1, id>>
      BY <2>3, <3>2, SentOn
    <3> QED
      BY <1>1, <2>1, <3>3, ProgramsAssumption
  <2>4. ASSUME NEW i, NEW o, NEW j, FromBuffer(p, k, i, o, j) PROVE FALSE
    BY <1>1, <2>2, <2>4 DEF FromBuffer
  <2>5. ASSUME NEW d, NEW level, NEW x, FromLeaf(p, k, d, level, x) PROVE FALSE
    BY <1>1, <2>5 DEF FromLeaf
  <2> QED
    BY <2>3, <2>4, <2>5, Senders
<1>2. ASSUME NEW c \in OutPorts, NEW p \in Circuit, NEW k \in DOMAIN p.ins, p.ins[k] = <<c, -1, 0>>
      PROVE  FALSE
  <2>1. c \notin Read(prog) /\ c # NoChan
    BY DEF OutPorts, Driven
  <2>2. ASSUME NEW i, ToElement(p, k, i) PROVE FALSE
    <3>1. i \in DOMAIN prog /\ k \in CountedSlots(prog[i]) /\ p.ins[k] = ReadWire(i, k)
      BY <2>2 DEF ToElement, UnitOf
    <3>2. /\ SlotChan(prog[i], k) \in Read(prog)
          /\ ReadWire(i, k)[1] = SlotChan(prog[i], k)
      BY <3>1, ReadWires
    <3> QED
      BY <1>2, <2>1, <3>1, <3>2
  <2>3. ASSUME NEW i, NEW o, NEW j, ToBuffer(p, k, i, o, j) PROVE FALSE
    BY <1>2, <2>3 DEF ToBuffer
  <2>4. ASSUME NEW d, NEW level, NEW x, ToLeaf(p, k, d, level, x) PROVE FALSE
    <3>1. d \in DOMAIN copies /\ level \in Nat
      BY <2>4 DEF ToLeaf, LeafOf
    <3>2. d \in Read(prog)
      BY <3>1, ReadWires
    <3>3. p.ins[k] = <<d, -1, 0>> \/ p.ins[k] = <<d, level + 1, x>>
      BY <2>4 DEF ToLeaf
    <3> QED
      BY <1>2, <2>1, <3>1, <3>2, <3>3
  <2>5. ASSUME NEW f, ToSink(p, k, f) PROVE FALSE
    BY <1>2, <2>1, <2>5 DEF ToSink
  <2> QED
    BY <2>2, <2>3, <2>4, <2>5, Receivers
<1> QED
  BY <1>1, <1>2 DEF PortsFree

LEMMA NamesDistinctHolds ==
  ASSUME Printed, Bodies PROVE NamesDistinct(Circuit)
<1> SUFFICES ASSUME NEW p \in Circuit, NEW q \in Circuit
             PROVE  /\ p.name = q.name => p = q
                    /\ (p.elem = q.elem /\ p.elem > 0) =>
                         /\ (p.kind # "source" /\ q.kind # "source") => p = q
                         /\ DOMAIN p.outs \cap DOMAIN q.outs # {} => p = q
  BY DEF NamesDistinct
<1>0. prog \in Programs /\ SinksDistinct
  BY DEF Printed, WalkInv, IInv
<1>1. /\ \A i : UnitOf(p, i) => /\ p.name = <<"unit", i, 0, NoChan>> /\ p.elem = i /\ p.kind # "source"
                                /\ DOMAIN p.outs \cap Literals(prog[i]) = {}
      /\ \A i : UnitOf(q, i) => /\ q.name = <<"unit", i, 0, NoChan>> /\ q.elem = i /\ q.kind # "source"
                                /\ DOMAIN q.outs \cap Literals(prog[i]) = {}
  <2>1. \A i \in DOMAIN prog : prog[i].t # "source"
    BY <1>0, ElementFacts DEF Element, Kind
  <2> QED
    BY <2>1, UnitFacts
<1>2. /\ \A i, o : SourceOf(p, i, o) => /\ p.name = <<"source", i, o, NoChan>> /\ p.elem = i /\ p.kind = "source"
                                        /\ DOMAIN p.outs = {o} /\ o \in Literals(prog[i])
      /\ \A i, o : SourceOf(q, i, o) => /\ q.name = <<"source", i, o, NoChan>> /\ q.elem = i /\ q.kind = "source"
                                        /\ DOMAIN q.outs = {o} /\ o \in Literals(prog[i])
  BY UnitFacts
<1>3. /\ \A i, o, j : BufferOf(p, i, o, j) => p.name = <<"buf", i, o, j>> /\ p.elem = 0
      /\ \A i, o, j : BufferOf(q, i, o, j) => q.name = <<"buf", i, o, j>> /\ q.elem = 0
  BY BufferFacts
<1>4. /\ \A c, l, x : LeafOf(p, c, l, x) => p.name = <<"copy", l, x, c>> /\ p.elem = 0
      /\ \A c, l, x : LeafOf(q, c, l, x) => q.name = <<"copy", l, x, c>> /\ q.elem = 0
  BY LeafFacts
<1>5. /\ \A f : SinkOf(p, f) => p.name = <<"sink", f.id, 0, NoChan>> /\ p.elem = 0 /\ f \in fresh
      /\ \A f : SinkOf(q, f) => q.name = <<"sink", f.id, 0, NoChan>> /\ q.elem = 0 /\ f \in fresh
  BY UnitFacts
<1>6. \A i : UnitOf(p, i) /\ UnitOf(q, i) => p = q
  BY DEF UnitOf
<1>7. \A i, o : SourceOf(p, i, o) /\ SourceOf(q, i, o) => p = q
  BY DEF SourceOf
<1>8. \A i, o, j : BufferOf(p, i, o, j) /\ BufferOf(q, i, o, j) => p = q
  BY DEF BufferOf
<1>9. \A c, l, x : LeafOf(p, c, l, x) /\ LeafOf(q, c, l, x) => p = q
  BY DEF LeafOf
<1>10. \A f, g : SinkOf(p, f) /\ SinkOf(q, g) /\ f.id = g.id => p = q
  BY DEF SinkOf
<1>11. ASSUME p.name = q.name PROVE p = q
  <2>1. ASSUME NEW i, UnitOf(p, i) PROVE p = q
    <3>1. p.name[1] = "unit" /\ q.name[2] = i /\ q.name[1] = "unit"
      BY <1>1, <1>11, <2>1
    <3>2. UnitOf(q, i)
      BY <1>1, <1>2, <1>3, <1>4, <1>5, <3>1, Pieces
    <3> QED
      BY <1>6, <2>1, <3>2
  <2>2. ASSUME NEW i, NEW o, SourceOf(p, i, o) PROVE p = q
    <3>1. q.name[2] = i /\ q.name[3] = o /\ q.name[1] = "source"
      BY <1>2, <1>11, <2>2
    <3>2. SourceOf(q, i, o)
      BY <1>1, <1>2, <1>3, <1>4, <1>5, <3>1, Pieces
    <3> QED
      BY <1>7, <2>2, <3>2
  <2>3. ASSUME NEW i, NEW o, NEW j, BufferOf(p, i, o, j) PROVE p = q
    <3>1. q.name[2] = i /\ q.name[3] = o /\ q.name[4] = j /\ q.name[1] = "buf"
      BY <1>3, <1>11, <2>3
    <3>2. BufferOf(q, i, o, j)
      BY <1>1, <1>2, <1>3, <1>4, <1>5, <3>1, Pieces
    <3> QED
      BY <1>8, <2>3, <3>2
  <2>4. ASSUME NEW c, NEW l, NEW x, LeafOf(p, c, l, x) PROVE p = q
    <3>1. q.name[2] = l /\ q.name[3] = x /\ q.name[4] = c /\ q.name[1] = "copy"
      BY <1>4, <1>11, <2>4
    <3>2. LeafOf(q, c, l, x)
      BY <1>1, <1>2, <1>3, <1>4, <1>5, <3>1, Pieces
    <3> QED
      BY <1>9, <2>4, <3>2
  <2>5. ASSUME NEW f, SinkOf(p, f) PROVE p = q
    <3>1. q.name[2] = f.id /\ q.name[1] = "sink"
      BY <1>5, <1>11, <2>5
    <3>2. PICK g : SinkOf(q, g)
      BY <1>1, <1>2, <1>3, <1>4, <3>1, Pieces
    <3>3. q.name[2] = g.id
      BY <1>5, <3>2
    <3> QED
      BY <1>10, <2>5, <3>1, <3>2, <3>3
  <2> QED
    BY <2>1, <2>2, <2>3, <2>4, <2>5, Pieces
<1>12. ASSUME p.elem = q.elem, p.elem > 0, p.kind # "source", q.kind # "source" PROVE p = q
  <2>1. \E i : UnitOf(p, i)
    BY <1>2, <1>3, <1>4, <1>5, <1>12, Pieces
  <2>2. \E i : UnitOf(q, i)
    BY <1>2, <1>3, <1>4, <1>5, <1>12, Pieces
  <2> QED
    BY <1>1, <1>6, <1>12, <2>1, <2>2
<1>13. ASSUME p.elem = q.elem, p.elem > 0, DOMAIN p.outs \cap DOMAIN q.outs # {} PROVE p = q
  <2>1. (\E i : UnitOf(p, i)) \/ \E i, o : SourceOf(p, i, o)
    BY <1>3, <1>4, <1>5, <1>13, Pieces
  <2>2. (\E i : UnitOf(q, i)) \/ \E i, o : SourceOf(q, i, o)
    BY <1>3, <1>4, <1>5, <1>13, Pieces
  <2>3. ASSUME NEW i, UnitOf(p, i), NEW j, UnitOf(q, j) PROVE p = q
    BY <1>1, <1>6, <1>13, <2>3
  <2>4. ASSUME NEW i, UnitOf(p, i), NEW j, NEW o, SourceOf(q, j, o) PROVE FALSE
    <3>1. j = i /\ o \in DOMAIN p.outs /\ o \in Literals(prog[i]) /\ DOMAIN p.outs \cap Literals(prog[i]) = {}
      BY <1>1, <1>2, <1>13, <2>4
    <3> QED
      BY <3>1
  <2>5. ASSUME NEW i, UnitOf(q, i), NEW j, NEW o, SourceOf(p, j, o) PROVE FALSE
    <3>1. j = i /\ o \in DOMAIN q.outs /\ o \in Literals(prog[i]) /\ DOMAIN q.outs \cap Literals(prog[i]) = {}
      BY <1>1, <1>2, <1>13, <2>5
    <3> QED
      BY <3>1
  <2>6. ASSUME NEW i, NEW o, SourceOf(p, i, o), NEW j, NEW r, SourceOf(q, j, r) PROVE p = q
    <3>1. i = j /\ o = r
      BY <1>2, <1>13, <2>6
    <3> QED
      BY <1>7, <2>6, <3>1
  <2> QED
    BY <2>1, <2>2, <2>3, <2>4, <2>5, <2>6
<1> QED
  BY <1>11, <1>12, <1>13


LEMMA KindsHolds ==
  ASSUME Printed, Bodies PROVE Kinds(Circuit)
<1>0. prog \in Programs
  BY DEF Printed, WalkInv, IInv
<1>1. ASSUME NEW p, NEW i, NEW o, SourceOf(p, i, o) PROVE Constant(p)
  <2>1. /\ i \in DOMAIN prog /\ o \in Literals(prog[i]) /\ o \in DOMAIN prog[i].out
        /\ p.kind = "source" /\ p.elem = i /\ p.ins = <<>>
        /\ DOMAIN p.outs = {o} /\ p.outs[o] = DriveWire(i, o)
    BY <1>1, UnitFacts
  <2>2. prog[i].out[o] # NoChan
    BY <2>1, DriveFacts DEF Bodies
  <2>3. DriveWire(i, o)[1] = prog[i].out[o]
    BY <2>1, <2>2, DriveFacts DEF Bodies
  <2>4. \E r \in Literals(prog[p.elem]) : DOMAIN p.outs = {r}
    BY <2>1
  <2> QED
    BY <2>1, <2>3, <2>4 DEF Constant
<1>2. ASSUME NEW p, NEW i, UnitOf(p, i) PROVE Unit(p)
  <2>1. /\ i \in DOMAIN prog /\ p.kind = prog[i].t /\ p.elem = i
        /\ DOMAIN p.ins = CountedSlots(prog[i])
        /\ \A k \in CountedSlots(prog[i]) : p.ins[k] = ReadWire(i, k)
        /\ DOMAIN p.outs = DOMAIN prog[i].out \ Literals(prog[i])
        /\ \A o \in DOMAIN p.outs : p.outs[o] = DriveWire(i, o)
    BY <1>2, UnitFacts
  <2>2. ASSUME NEW k \in DOMAIN p.ins PROVE p.ins[k][1] = SlotChan(prog[i], k)
    <3>1. \/ \E x : ReadWire(i, k) = <<SlotChan(prog[i], k), 0, x>>
          \/ ReadWire(i, k) = <<SlotChan(prog[i], k), -1, 0>>
      BY <2>1, ReadWires
    <3>2. ReadWire(i, k)[1] = SlotChan(prog[i], k)
      BY <3>1
    <3> QED
      BY <2>1, <3>2
  <2>3. ASSUME NEW o \in DOMAIN p.outs PROVE p.outs[o][1] = prog[i].out[o]
    <3>1. o \in DOMAIN prog[i].out
      BY <2>1
    <3>2. \/ prog[i].out[o] = NoChan /\ \E f : DriveWire(i, o) = <<NoChan, -1, f.id>>
          \/ DriveWire(i, o) = <<prog[i].out[o], -2, 0>>
          \/ DriveWire(i, o) = <<prog[i].out[o], -1, 0>>
      BY <2>1, <3>1, DriveFacts DEF Bodies
    <3>3. DriveWire(i, o)[1] = prog[i].out[o]
      BY <3>2
    <3> QED
      BY <2>1, <3>3
  <2> QED
    BY <2>1, <2>2, <2>3 DEF Unit
<1>3. ASSUME NEW p, NEW i, NEW o, NEW j, BufferOf(p, i, o, j) PROVE Relay(p)
  <2>1. /\ prog[i].out[o] \in Chan /\ DOMAIN p.ins = {1} /\ DOMAIN p.outs = {1} /\ p.elem = 0
        /\ p.kind \in {"init", "onebuf"} /\ p.ins[1] = <<prog[i].out[o], -2, j - 1>>
        /\ p.outs[1] = <<prog[i].out[o], -1, 0>> \/ p.outs[1] = <<prog[i].out[o], -2, j>>
    BY <1>3, BufferFacts
  <2>2. p.ins[1][1] = prog[i].out[o] /\ p.outs[1][1] = prog[i].out[o]
    BY <2>1
  <2> QED
    BY <2>1, <2>2 DEF Relay
<1>4. ASSUME NEW p, NEW c, NEW level, NEW x, LeafOf(p, c, level, x) PROVE Relay(p)
  <2>1. /\ c \in Chan /\ p.elem = 0 /\ p.kind = "copy_leaf" /\ DOMAIN p.ins = {1}
        /\ p.ins[1] = <<c, -1, 0>> \/ p.ins[1] = <<c, level + 1, x>>
        /\ \A k \in DOMAIN p.outs : p.outs[k] = <<c, level, LeafWidth * x + k - 1>>
    BY <1>4, LeafFacts
  <2>2. p.ins[1][1] = c /\ \A k \in DOMAIN p.outs : p.outs[k][1] = c
    BY <2>1
  <2> QED
    BY <2>1, <2>2 DEF Relay
<1>5. ASSUME NEW p, NEW f, SinkOf(p, f) PROVE Drop(p)
  <2>1. p.kind = "sink" /\ p.elem = 0 /\ DOMAIN p.ins = {1} /\ p.ins[1] = <<NoChan, -1, f.id>>
        /\ DOMAIN p.outs = {}
    BY <1>5, UnitFacts
  <2> QED
    BY <2>1 DEF Drop
<1> QED
  BY <1>1, <1>2, <1>3, <1>4, <1>5, Pieces DEF Kinds

LEMMA WiredHolds ==
  ASSUME Printed, Bodies PROVE Wired(Circuit)
BY KindsHolds, NamesDistinctHolds, OneSenderHolds, OneReceiverHolds, PortsFreeHolds DEF Wired

-----------------------------------------------------------------------------
(* Powering up *)

Starter(p, w) == p \in Circuit /\ p.kind = "init" /\ p.outs[1] = w

\* A channel starts with the value of its one buffer, if that has one.
LEMMA FirstTokenFacts ==
  ASSUME Printed, Bodies, NEW c \in Chan
  PROVE  /\ FirstTokens(c) # {} => \E v \in Nat : FirstTokens(c) = {v}
         /\ \A i \in DOMAIN prog : \A o \in DOMAIN prog[i].out : prog[i].out[o] = c =>
              FirstTokens(c) = {Buffer(prog, i, o).init} \ {Idle}
         /\ FirstTokens(c) # {} => \E i \in DOMAIN prog : \E o \in DOMAIN prog[i].out :
              prog[i].out[o] = c /\ Buffer(prog, i, o).init # Idle
<1>0. prog \in Programs /\ NoChan \notin Chan
  BY ProgramsAssumption DEF Printed, WalkInv, IInv
<1> DEFINE Starts(i) == {Buffer(prog, i, o).init : o \in {x \in DOMAIN prog[i].out : prog[i].out[x] = c}}
<1>1. FirstTokens(c) = (UNION {Starts(i) : i \in DOMAIN prog}) \ {Idle}
  BY DEF FirstTokens
<1>2. ASSUME NEW i \in DOMAIN prog, NEW o \in DOMAIN prog[i].out, prog[i].out[o] = c
      PROVE  FirstTokens(c) = {Buffer(prog, i, o).init} \ {Idle}
  <2>1. \A j \in DOMAIN prog : \A r \in DOMAIN prog[j].out : prog[j].out[r] = c => j = i /\ r = o
    BY <1>0, <1>2 DEF Bodies, SingleDrivers
  <2>2. Starts(i) = {Buffer(prog, i, o).init}
    BY <1>2, <2>1
  <2>3. \A j \in DOMAIN prog : j # i => Starts(j) = {}
    BY <2>1
  <2>4. UNION {Starts(j) : j \in DOMAIN prog} = Starts(i)
    <3> HIDE DEF Starts
    <3> QED
      BY <2>3
  <2> HIDE DEF Starts
  <2> QED
    BY <1>1, <2>2, <2>4
<1>3. ASSUME FirstTokens(c) # {}
      PROVE  \E i \in DOMAIN prog : \E o \in DOMAIN prog[i].out :
               prog[i].out[o] = c /\ Buffer(prog, i, o).init # Idle
  <2>1. PICK v : v \in FirstTokens(c)
    BY <1>3
  <2>2. PICK i \in DOMAIN prog : v \in Starts(i)
    <3> HIDE DEF Starts
    <3> QED
      BY <1>1, <2>1
  <2>3. PICK o \in DOMAIN prog[i].out : prog[i].out[o] = c /\ v = Buffer(prog, i, o).init
    BY <2>2
  <2> QED
    BY <1>1, <2>1, <2>3
<1>4. ASSUME FirstTokens(c) # {} PROVE \E v \in Nat : FirstTokens(c) = {v}
  <2>0. PICK i \in DOMAIN prog : \E r \in DOMAIN prog[i].out : prog[i].out[r] = c /\ Buffer(prog, i, r).init # Idle
    BY <1>3, <1>4
  <2>1. PICK o \in DOMAIN prog[i].out : prog[i].out[o] = c /\ Buffer(prog, i, o).init # Idle
    BY <2>0
  <2>2. Buffer(prog, i, o).init \in Nat
    BY <1>0, <2>1 DEF Bodies, SoundBuffers
  <2> QED
    BY <1>2, <2>1, <2>2
<1> QED
  BY <1>2, <1>3, <1>4

\* The init processes are those of the channels that start with a token.
LEMMA Starters ==
  ASSUME Printed, Bodies
  PROVE  /\ \A w, p : Starter(p, w) => \E c \in Chan : w = <<c, -1, 0>> /\ FirstTokens(c) = {InitialValue(p)}
         /\ \A c \in Chan : FirstTokens(c) # {} => \E p : Starter(p, <<c, -1, 0>>)
<1>0. prog \in Programs /\ NoChan \notin Chan
  BY ProgramsAssumption DEF Printed, WalkInv, IInv
<1>1. ASSUME NEW w, NEW p, Starter(p, w)
      PROVE  \E c \in Chan : w = <<c, -1, 0>> /\ FirstTokens(c) = {InitialValue(p)}
  <2>1. p \in Circuit /\ p.kind = "init" /\ p.outs[1] = w
    BY <1>1 DEF Starter
  <2>2. \A i : ~UnitOf(p, i)
    <3>1. \A i \in DOMAIN prog : prog[i].t # "init"
      BY <1>0, ElementFacts DEF Element, Kind
    <3>2. \A i : UnitOf(p, i) => i \in DOMAIN prog /\ p.kind = prog[i].t
      BY UnitFacts
    <3> QED
      BY <2>1, <3>1, <3>2
  <2>3. (\A i, o : ~SourceOf(p, i, o)) /\ (\A f : ~SinkOf(p, f)) /\ \A c, l, x : ~LeafOf(p, c, l, x)
    BY <2>1, UnitFacts, LeafFacts
  <2>4. PICK i, o, j : BufferOf(p, i, o, j)
    BY <2>1, <2>2, <2>3, Pieces
  <2>5. /\ i \in DOMAIN prog /\ o \in DOMAIN prog[i].out /\ prog[i].out[o] \in Chan
        /\ p.name = <<"buf", i, o, j>> /\ j = Buffer(prog, i, o).n /\ Buffer(prog, i, o).init # Idle
        /\ p.outs[1] = <<prog[i].out[o], -1, 0>>
    <3>1. /\ i \in DOMAIN prog /\ o \in DOMAIN prog[i].out /\ prog[i].out[o] \in Chan
          /\ p.name = <<"buf", i, o, j>>
          /\ p.kind = "init" <=> j = Buffer(prog, i, o).n /\ Buffer(prog, i, o).init # Idle
          /\ j = Buffer(prog, i, o).n => p.outs[1] = <<prog[i].out[o], -1, 0>>
      BY <2>4, BufferFacts
    <3> QED
      BY <2>1, <3>1
  <2>6. p.name[2] = i /\ p.name[3] = o
    BY <2>5
  <2>7. InitialValue(p) = Buffer(prog, i, o).init
    BY <2>6 DEF InitialValue
  <2>8. FirstTokens(prog[i].out[o]) = {InitialValue(p)}
    BY <2>5, <2>7, FirstTokenFacts
  <2> QED
    BY <2>1, <2>5, <2>8
<1>2. ASSUME NEW c \in Chan, FirstTokens(c) # {} PROVE \E p : Starter(p, <<c, -1, 0>>)
  <2>0. PICK i \in DOMAIN prog : \E r \in DOMAIN prog[i].out : prog[i].out[r] = c /\ Buffer(prog, i, r).init # Idle
    BY <1>2, FirstTokenFacts
  <2>1. PICK o \in DOMAIN prog[i].out : prog[i].out[o] = c /\ Buffer(prog, i, o).init # Idle
    BY <2>0
  <2>2. Buffer(prog, i, o).n \in Nat /\ Buffer(prog, i, o).n > 0
    BY <1>0, <2>1 DEF Bodies, SoundBuffers
  <2> DEFINE n == Buffer(prog, i, o).n
             p == Proc(<<"buf", i, o, n>>, IF n = n /\ Buffer(prog, i, o).init # Idle THEN "init" ELSE "onebuf", 0,
                       [k \in {1} |-> <<prog[i].out[o], -2, n - 1>>],
                       [k \in {1} |-> IF n = n THEN <<prog[i].out[o], -1, 0>> ELSE <<prog[i].out[o], -2, n>>])
  <2>3. n \in 1 .. n
    BY <2>2
  <2>4. BufferOf(p, i, o, n)
    BY <2>1, <2>3 DEF BufferOf
  <2>5. p \in Circuit
    <3> HIDE DEF p, n
    <3> QED
      BY <2>4, Pieces
  <2>6. p.kind = "init" /\ p.outs[1] = <<c, -1, 0>>
    BY <2>1 DEF Proc
  <2> HIDE DEF p, n
  <2> QED
    BY <2>5, <2>6 DEF Starter
<1> QED
  BY <1>1, <1>2

\* What the wires offer at first: a starting token on its channel.
LEMMA FirstWires ==
  ASSUME Printed, Bodies, PowerUp
  PROVE  /\ wire' \in [WiresOf(Circuit) -> Nat \cup {Idle}]
         /\ \A c \in Chan : <<c, -1, 0>> \in WiresOf(Circuit) =>
              /\ FirstTokens(c) = {} => wire'[<<c, -1, 0>>] = Idle
              /\ FirstTokens(c) # {} => FirstTokens(c) = {wire'[<<c, -1, 0>>]} /\ wire'[<<c, -1, 0>>] \in Nat
         /\ \A w \in WiresOf(Circuit) : (w[1] \notin Chan \/ w[2] # -1) => wire'[w] = Idle
<1> DEFINE Value(w) == IF \E p \in Circuit : p.kind = "init" /\ p.outs[1] = w
                       THEN InitialValue(CHOOSE p \in Circuit : p.kind = "init" /\ p.outs[1] = w)
                       ELSE Idle
<1>1. wire' = [w \in WiresOf(Circuit) |-> Value(w)]
  BY DEF PowerUp
<1>2. ASSUME NEW w PROVE \/ Value(w) = Idle /\ \A p : ~Starter(p, w)
                         \/ \E p : Starter(p, w) /\ Value(w) = InitialValue(p)
  <2>1. CASE \E p \in Circuit : p.kind = "init" /\ p.outs[1] = w
    BY <2>1 DEF Starter
  <2>2. CASE ~\E p \in Circuit : p.kind = "init" /\ p.outs[1] = w
    BY <2>2 DEF Starter
  <2> QED
    BY <2>1, <2>2
<1>3. ASSUME NEW w
      PROVE  \/ Value(w) = Idle /\ \A p : ~Starter(p, w)
             \/ \E c \in Chan : w = <<c, -1, 0>> /\ FirstTokens(c) = {Value(w)}
  <2> HIDE DEF Value
  <2> QED
    BY <1>2, Starters
<1> HIDE DEF Value
<1>4. \A w : Value(w) \in Nat \cup {Idle}
  <2> SUFFICES ASSUME NEW w PROVE Value(w) \in Nat \cup {Idle}
    OBVIOUS
  <2>1. CASE \E c \in Chan : w = <<c, -1, 0>> /\ FirstTokens(c) = {Value(w)}
    BY <2>1, FirstTokenFacts
  <2> QED
    BY <1>3, <2>1
<1>5. ASSUME NEW c \in Chan, FirstTokens(c) = {} PROVE Value(<<c, -1, 0>>) = Idle
  <2>1. ASSUME NEW d \in Chan, <<c, -1, 0>> = <<d, -1, 0>>, FirstTokens(d) = {Value(<<c, -1, 0>>)} PROVE FALSE
    <3>1. c = d
      BY <2>1
    <3> QED
      BY <1>5, <2>1, <3>1
  <2> QED
    BY <1>3, <2>1
<1>6. ASSUME NEW c \in Chan, FirstTokens(c) # {}
      PROVE  FirstTokens(c) = {Value(<<c, -1, 0>>)} /\ Value(<<c, -1, 0>>) \in Nat
  <2>1. PICK d \in Chan : <<c, -1, 0>> = <<d, -1, 0>> /\ FirstTokens(d) = {Value(<<c, -1, 0>>)}
    BY <1>3, <1>6, Starters
  <2>2. c = d
    BY <2>1
  <2> QED
    BY <1>6, <2>1, <2>2, FirstTokenFacts
<1>7. ASSUME NEW w, w[1] \notin Chan \/ w[2] # -1 PROVE Value(w) = Idle
  BY <1>3, <1>7
<1> QED
  BY <1>1, <1>4, <1>5, <1>6, <1>7

\* The tokens the receivers have taken before the start: none, but a starting
\* token has been through the buffers before the last.
Started(w) == IF w[1] \in Chan /\ w[2] = -2 /\ FirstTokens(w[1]) # {} THEN 1 ELSE 0

LEMMA PowerCircuit ==
  ASSUME Printed, Bodies, PowerUp
  PROVE  /\ net' = Circuit /\ prog' = prog /\ pipeline' = pipeline /\ phase' = "done"
         /\ UNCHANGED <<vars, hist, used, delivered>>
         /\ InPorts' = InPorts /\ OutPorts' = OutPorts /\ WiresOf(net)' = WiresOf(Circuit)
         /\ \A p : Storing(p)' <=> Storing(p)
         /\ \A p : Unit(p)' <=> Unit(p)
         /\ Wired(net)'
<1>1. /\ net' = Circuit /\ prog' = prog /\ pipeline' = pipeline /\ phase' = "done"
      /\ UNCHANGED <<vars, hist, used, delivered>>
  BY DEF PowerUp, vars, Printed
<1>2. InPorts' = InPorts /\ OutPorts' = OutPorts
  BY <1>1 DEF InPorts, OutPorts
<1>3. \A p : Storing(p)' <=> Storing(p)
  BY <1>1 DEF Storing
<1>4. WiresOf(net)' = WiresOf(Circuit)
  BY <1>1, <1>2 DEF WiresOf
<1>5. Kinds(Circuit) /\ NamesDistinct(Circuit) /\ OneSender(Circuit) /\ OneReceiver(Circuit) /\ PortsFree(Circuit)
  BY WiredHolds DEF Wired
<1>6. \A p : /\ Relay(p)' <=> Relay(p)
             /\ Drop(p)' <=> Drop(p)
             /\ Constant(p)' <=> Constant(p)
             /\ Unit(p)' <=> Unit(p)
  BY <1>1 DEF Relay, Drop, Constant, Unit
<1>7. Kinds(net)'
  BY <1>1, <1>5, <1>6 DEF Kinds
<1>8. NamesDistinct(net)'
  BY <1>1, <1>5 DEF NamesDistinct
<1>9. OneSender(net)' /\ OneReceiver(net)'
  BY <1>1, <1>5 DEF OneSender, OneReceiver
<1>10. PortsFree(net)'
  BY <1>1, <1>2, <1>5 DEF PortsFree
<1>11. Wired(net)'
  BY <1>7, <1>8, <1>9, <1>10 DEF Wired
<1> QED
  BY <1>1, <1>2, <1>3, <1>4, <1>6, <1>11

LEMMA PowerGot ==
  ASSUME Printed, Bodies, PowerUp
  PROVE  /\ DOMAIN got' = {p.name : p \in Circuit} /\ DOMAIN mid' = {p.name : p \in Circuit}
         /\ \A p \in Circuit : /\ got'[p.name] = [k \in DOMAIN p.ins |-> Idle]
                               /\ mid'[p.name] = {}
<1>1. /\ got' = [n \in {p.name : p \in Circuit} |->
                   [k \in DOMAIN (CHOOSE p \in Circuit : p.name = n).ins |-> Idle]]
      /\ mid' = [n \in {p.name : p \in Circuit} |-> {}]
  BY DEF PowerUp
<1>2. ASSUME NEW p \in Circuit PROVE (CHOOSE q \in Circuit : q.name = p.name) = p
  <2>1. \A q \in Circuit : q.name = p.name => q = p
    BY NamesDistinctHolds DEF NamesDistinct
  <2> QED
    BY <2>1
<1>3. ASSUME NEW p \in Circuit PROVE got'[p.name] = [k \in DOMAIN p.ins |-> Idle] /\ mid'[p.name] = {}
  BY <1>1, <1>2
<1> QED
  BY <1>1, <1>3

\* Where a wire's history and what it offers stand at the start.
LEMMA FirstHistory ==
  ASSUME Printed, Bodies, PowerUp, Histories, NotYet,
         NEW w \in WiresOf(Circuit), w[1] \in Chan
  PROVE  /\ FirstTokens(w[1]) = {} => hist[w[1]] = <<>> /\ wire'[w] = Idle
         /\ FirstTokens(w[1]) # {} => Len(hist[w[1]]) = 1 /\ FirstTokens(w[1]) = {hist[w[1]][1]}
         /\ w = <<w[1], -1, 0>> /\ FirstTokens(w[1]) # {} => wire'[w] = hist[w[1]][1] /\ wire'[w] # Idle
         /\ w[2] # -1 => wire'[w] = Idle
<1> DEFINE c == w[1]
<1>0. Idle \notin Nat
  BY CircuitAssumption
<1>1. w[2] # -1 => wire'[w] = Idle
  BY FirstWires
<1>2. ASSUME FirstTokens(c) = {} PROVE hist[c] = <<>> /\ wire'[w] = Idle
  <2>1. hist[c] = <<>>
    BY <1>2 DEF NotYet
  <2>2. wire'[w] = Idle \/ \E p : Starter(p, w)
    BY DEF PowerUp, Starter
  <2>3. ASSUME NEW p, Starter(p, w) PROVE FALSE
    <3>1. PICK d \in Chan : w = <<d, -1, 0>> /\ FirstTokens(d) = {InitialValue(p)}
      BY <2>3, Starters
    <3>2. d = c
      BY <3>1
    <3> QED
      BY <1>2, <3>1, <3>2
  <2> QED
    BY <2>1, <2>2, <2>3
<1>3. ASSUME FirstTokens(c) # {} PROVE Len(hist[c]) = 1 /\ FirstTokens(c) = {hist[c][1]}
  <2>1. hist[c] = <<CHOOSE v \in FirstTokens(c) : TRUE>>
    BY <1>3 DEF NotYet
  <2>2. Len(hist[c]) = 1 /\ hist[c][1] = CHOOSE v \in FirstTokens(c) : TRUE
    BY <2>1
  <2>3. PICK v \in Nat : FirstTokens(c) = {v}
    BY <1>3, FirstTokenFacts
  <2>4. (CHOOSE u \in {v} : TRUE) = v
    OBVIOUS
  <2> QED
    BY <2>2, <2>3, <2>4
<1>4. ASSUME w = <<c, -1, 0>>, FirstTokens(c) # {} PROVE wire'[w] = hist[c][1] /\ wire'[w] # Idle
  <2>1. <<c, -1, 0>> \in WiresOf(Circuit)
    BY <1>4
  <2>2. FirstTokens(c) = {wire'[<<c, -1, 0>>]} /\ wire'[<<c, -1, 0>>] \in Nat
    BY <1>4, <2>1, FirstWires
  <2>3. wire'[<<c, -1, 0>>] = hist[c][1]
    BY <1>3, <1>4, <2>2
  <2> QED
    BY <1>0, <1>4, <2>2, <2>3
<1> QED
  BY <1>1, <1>2, <1>3, <1>4

LEMMA PowerSignals ==
  ASSUME Printed, Bodies, PowerUp, Histories, NotYet PROVE Signals' /\ Rounds'
<1>0. prog \in Programs
  BY DEF Printed, WalkInv, IInv
<1>1. /\ net' = Circuit /\ prog' = prog /\ WiresOf(net)' = WiresOf(Circuit)
      /\ \A p : Storing(p)' <=> Storing(p)
  BY PowerCircuit
<1>2. /\ DOMAIN got' = {p.name : p \in Circuit} /\ DOMAIN mid' = {p.name : p \in Circuit}
      /\ \A p \in Circuit : got'[p.name] = [k \in DOMAIN p.ins |-> Idle] /\ mid'[p.name] = {}
  BY PowerGot
<1>3. wire' \in [WiresOf(Circuit) -> Nat \cup {Idle}]
  BY FirstWires
<1>4. Signals'
  <2>1. \A p \in Circuit : /\ got'[p.name] \in [DOMAIN p.ins -> Nat \cup {Idle}]
                            /\ mid'[p.name] \subseteq DOMAIN p.ins
    BY <1>2
  <2>2. DOMAIN got' = {p.name : p \in Circuit} /\ DOMAIN mid' = {p.name : p \in Circuit}
    BY <1>2
  <2> QED
    BY <1>1, <1>3, <2>1, <2>2 DEF Signals
<1>5. ASSUME NEW p \in Circuit, ~Storing(p), NEW o \in DOMAIN p.outs PROVE wire'[p.outs[o]] = Idle
  <2>1. p.kind \in Selections
    BY <1>5 DEF Storing
  <2>2. Relay(p) \/ Drop(p) \/ Constant(p) \/ Unit(p)
    BY KindsHolds DEF Kinds
  <2>3. Unit(p) /\ ~Constant(p) /\ ~Relay(p) /\ ~Drop(p)
    BY <2>1, <2>2 DEF Relay, Drop, Constant, Selections
  <2>4. p.elem \in DOMAIN prog /\ o \in DOMAIN prog[p.elem].out
    BY <2>3 DEF Unit
  <2>5. p.elem # 0
    BY <1>0, <2>4, ElementFacts
  <2>6. PICK i : FromElement(p, o, i)
    BY <2>5, Senders, BufferFacts, LeafFacts DEF FromBuffer, FromLeaf
  <2>7. p.outs[o] \in WiresOf(Circuit)
    BY WiresThere
  <2>8. /\ i \in DOMAIN prog /\ o \in DOMAIN prog[i].out
        /\ prog[i].out[o] = NoChan => \E id : p.outs[o] = <<NoChan, -1, id>>
        /\ prog[i].out[o] # NoChan => prog[i].out[o] \in Chan /\ Buffer(prog, i, o).n \in Nat
        /\ prog[i].out[o] # NoChan /\ Buffer(prog, i, o).n > 0 => p.outs[o] = <<prog[i].out[o], -2, 0>>
        /\ prog[i].out[o] # NoChan /\ Buffer(prog, i, o).n = 0 => p.outs[o] = <<prog[i].out[o], -1, 0>>
    BY <2>6, SentOn DEF FromElement
  <2>9. CASE prog[i].out[o] = NoChan
    BY <2>7, <2>8, <2>9, FirstWires, ProgramsAssumption
  <2>10. CASE prog[i].out[o] # NoChan /\ Buffer(prog, i, o).n > 0
    BY <2>7, <2>8, <2>10, FirstWires
  <2>11. CASE prog[i].out[o] # NoChan /\ Buffer(prog, i, o).n = 0
    <3>1. Buffer(prog, i, o).init = Idle
      BY <1>0, <2>8, <2>11 DEF Bodies, SoundBuffers
    <3>2. FirstTokens(prog[i].out[o]) = {}
      BY <2>8, <2>11, <3>1, FirstTokenFacts
    <3> QED
      BY <2>7, <2>8, <2>11, <3>2, FirstWires
  <2> QED
    BY <2>8, <2>9, <2>10, <2>11
<1>6. Rounds'
  <2>1. \A p \in Circuit : mid'[p.name] = {} /\ \A k \in DOMAIN p.ins : got'[p.name][k] = Idle
    BY <1>2
  <2>2. \A p \in Circuit : ~Storing(p) => Sent(p)'
    BY <1>5 DEF Sent
  <2> QED
    BY <1>1, <2>1, <2>2 DEF Rounds
<1> QED
  BY <1>4, <1>6


\* On the wires of a process, at the start.
LEMMA RelayStart ==
  ASSUME Printed, Bodies, PowerUp, Histories, NotYet,
         NEW p \in Circuit, Relay(p), NEW k \in DOMAIN p.outs
  PROVE  Started(p.ins[1]) = Started(p.outs[k]) + Full(wire'[p.outs[k]])
<1>0. prog \in Programs
  BY DEF Printed, WalkInv, IInv
<1>1. p.elem = 0 /\ p.kind # "sink"
  BY DEF Relay
<1>2. (\A i : ~UnitOf(p, i)) /\ (\A i, o : ~SourceOf(p, i, o)) /\ \A f : ~SinkOf(p, f)
  <2>1. \A i \in DOMAIN prog : i # 0
    BY <1>0, ElementFacts
  <2> QED
    BY <1>1, <2>1, UnitFacts
<1>3. p.outs[k] \in WiresOf(Circuit)
  BY WiresThere
<1>4. ASSUME NEW i, NEW o, NEW j, BufferOf(p, i, o, j)
      PROVE  Started(p.ins[1]) = Started(p.outs[k]) + Full(wire'[p.outs[k]])
  <2> DEFINE c == prog[i].out[o]
  <2>1. /\ c \in Chan /\ DOMAIN p.outs = {1} /\ p.ins[1] = <<c, -2, j - 1>>
        /\ p.outs[1] = <<c, -1, 0>> \/ p.outs[1] = <<c, -2, j>>
    BY <1>4, BufferFacts
  <2>2. Started(p.ins[1]) = IF FirstTokens(c) # {} THEN 1 ELSE 0
    BY <2>1 DEF Started
  <2>3. CASE p.outs[1] = <<c, -1, 0>>
    <3>1. k = 1 /\ p.outs[k][1] = c /\ p.outs[k] = <<p.outs[k][1], -1, 0>> /\ p.outs[k][2] = -1
      BY <2>1, <2>3
    <3>2. Started(p.outs[k]) = 0
      BY <3>1 DEF Started
    <3>3. wire'[p.outs[k]] = Idle <=> FirstTokens(c) = {}
      BY <1>3, <2>1, <3>1, FirstHistory
    <3> QED
      BY <2>2, <3>2, <3>3 DEF Full
  <2>4. CASE p.outs[1] = <<c, -2, j>>
    <3>1. k = 1 /\ p.outs[k][1] = c /\ p.outs[k][2] = -2
      BY <2>1, <2>4
    <3>2. Started(p.outs[k]) = IF FirstTokens(c) # {} THEN 1 ELSE 0
      BY <2>1, <3>1 DEF Started
    <3>3. wire'[p.outs[k]] = Idle
      BY <1>3, <2>1, <3>1, FirstHistory
    <3> QED
      BY <2>2, <3>2, <3>3 DEF Full
  <2> QED
    BY <2>1, <2>3, <2>4
<1>5. ASSUME NEW c, NEW level, NEW x, LeafOf(p, c, level, x)
      PROVE  Started(p.ins[1]) = Started(p.outs[k]) + Full(wire'[p.outs[k]])
  <2>1. /\ c \in Chan /\ level \in Nat
        /\ p.ins[1] = <<c, -1, 0>> \/ p.ins[1] = <<c, level + 1, x>>
        /\ p.outs[k] = <<c, level, LeafWidth * x + k - 1>>
    BY <1>5, LeafFacts
  <2>2. p.ins[1][2] # -2 /\ p.outs[k][2] # -2 /\ p.outs[k][2] # -1 /\ p.outs[k][1] \in Chan
    BY <2>1
  <2>3. wire'[p.outs[k]] = Idle
    BY <1>3, <2>2, FirstHistory
  <2> QED
    BY <2>2, <2>3 DEF Started, Full
<1> QED
  BY <1>2, <1>4, <1>5, Pieces

LEMMA ElementStart ==
  ASSUME Printed, Bodies, PowerUp, Histories, NotYet, NEW p \in Circuit, p.elem > 0
  PROVE  /\ \A o \in DOMAIN p.outs : p.outs[o][1] \in Chan =>
              Started(p.outs[o]) + Full(wire'[p.outs[o]]) = Len(hist[p.outs[o][1]])
         /\ \A k \in DOMAIN p.ins : Started(p.ins[k]) = 0
<1>1. ASSUME NEW o \in DOMAIN p.outs, p.outs[o][1] \in Chan
      PROVE  Started(p.outs[o]) + Full(wire'[p.outs[o]]) = Len(hist[p.outs[o][1]])
  <2>1. PICK i : FromElement(p, o, i)
    BY Senders, BufferFacts, LeafFacts DEF FromBuffer, FromLeaf
  <2> DEFINE c == p.outs[o][1]
  <2>2. p.outs[o] \in WiresOf(Circuit)
    BY WiresThere
  <2>3. p.outs[o][2] = -2 \/ (p.outs[o] = <<c, -1, 0>> /\ p.outs[o][2] = -1)
    <3>1. \/ \E id : p.outs[o] = <<NoChan, -1, id>>
          \/ p.outs[o] = <<prog[i].out[o], -2, 0>>
          \/ p.outs[o] = <<prog[i].out[o], -1, 0>>
      BY <2>1, SentOn
    <3> QED
      BY <1>1, <3>1, ProgramsAssumption
  <2>4. Len(<<>>) = 0
    OBVIOUS
  <2>5. CASE FirstTokens(c) = {}
    BY <1>1, <2>2, <2>3, <2>4, <2>5, FirstHistory DEF Started, Full
  <2>6. CASE FirstTokens(c) # {}
    <3>1. Len(hist[c]) = 1
      BY <1>1, <2>2, <2>6, FirstHistory
    <3>2. CASE p.outs[o][2] = -2
      <4>1. wire'[p.outs[o]] = Idle /\ Started(p.outs[o]) = 1
        BY <1>1, <2>2, <2>6, <3>2, FirstHistory DEF Started
      <4> QED
        BY <3>1, <4>1 DEF Full
    <3>3. CASE p.outs[o] = <<c, -1, 0>> /\ p.outs[o][2] = -1
      <4>1. Started(p.outs[o]) = 0
        BY <3>3 DEF Started
      <4>2. PICK w \in WiresOf(Circuit) : w = p.outs[o]
        BY <2>2
      <4>3. w[1] \in Chan /\ w = <<w[1], -1, 0>> /\ FirstTokens(w[1]) # {}
        BY <1>1, <2>6, <3>3, <4>2
      <4>4. wire'[w] # Idle
        BY <4>3, FirstHistory
      <4> QED
        BY <3>1, <4>1, <4>2, <4>4 DEF Full
    <3> QED
      BY <2>3, <3>2, <3>3
  <2> QED
    BY <2>5, <2>6
<1>2. ASSUME NEW k \in DOMAIN p.ins PROVE Started(p.ins[k]) = 0
  <2>1. PICK i : ToElement(p, k, i)
    BY Receivers, BufferFacts, LeafFacts, UnitFacts DEF ToBuffer, ToLeaf, ToSink
  <2>2. i \in DOMAIN prog /\ k \in CountedSlots(prog[i]) /\ p.ins[k] = ReadWire(i, k)
    BY <2>1 DEF ToElement, UnitOf
  <2>3. \/ \E x : ReadWire(i, k) = <<SlotChan(prog[i], k), 0, x>>
        \/ ReadWire(i, k) = <<SlotChan(prog[i], k), -1, 0>>
    BY <2>2, ReadWires
  <2>4. p.ins[k][2] # -2
    BY <2>2, <2>3
  <2> QED
    BY <2>4 DEF Started
<1> QED
  BY <1>1, <1>2

LEMMA PowerFlow ==
  ASSUME Printed, Bodies, PowerUp, Histories, NotYet PROVE \E taken : Flow(taken)'
<1>0. prog \in Programs
  BY DEF Printed, WalkInv, IInv
<1>t. PICK t : t = [w \in WiresOf(Circuit) |-> Started(w)]
  OBVIOUS
<1>1. /\ net' = Circuit /\ prog' = prog /\ WiresOf(net)' = WiresOf(Circuit)
      /\ InPorts' = InPorts /\ OutPorts' = OutPorts
      /\ hist' = hist /\ used' = used /\ delivered' = delivered
      /\ \A p : Unit(p)' <=> Unit(p)
  BY PowerCircuit
<1>2. \A p \in Circuit : mid'[p.name] = {} /\ \A k \in DOMAIN p.ins : got'[p.name][k] = Idle
  BY PowerGot
<1>3. t \in [WiresOf(Circuit) -> Nat] /\ \A w \in WiresOf(Circuit) : t[w] = Started(w) /\ Started(w) \in {0, 1}
  BY <1>t DEF Started
<1>4. /\ \A p \in Circuit : /\ \A k \in DOMAIN p.ins : p.ins[k] \in WiresOf(Circuit)
                            /\ \A k \in DOMAIN p.outs : p.outs[k] \in WiresOf(Circuit)
      /\ \A c \in InPorts \cup OutPorts : <<c, -1, 0>> \in WiresOf(Circuit)
  BY WiresThere
<1>5. Full(Idle) = 0 /\ \A v : v # Idle => Full(v) = 1
  BY FullFacts
<1>6. InOrder(t)'
  <2> SUFFICES ASSUME NEW w \in WiresOf(Circuit), w[1] \in Chan
               PROVE  /\ t[w] + Full(wire'[w]) <= Len(hist[w[1]])
                      /\ wire'[w] # Idle => wire'[w] = hist[w[1]][t[w] + 1]
    BY <1>1 DEF InOrder, Full
  <2>1. CASE FirstTokens(w[1]) = {}
    <3>1. wire'[w] = Idle /\ hist[w[1]] = <<>> /\ t[w] = 0
      BY <1>3, <2>1, FirstHistory DEF Started
    <3> QED
      BY <1>5, <3>1
  <2>2. CASE FirstTokens(w[1]) # {} /\ w[2] = -2
    <3>1. wire'[w] = Idle /\ Len(hist[w[1]]) = 1 /\ t[w] = 1
      BY <1>3, <2>2, FirstHistory DEF Started
    <3> QED
      BY <1>5, <3>1
  <2>3. CASE FirstTokens(w[1]) # {} /\ w[2] # -2
    <3>1. t[w] = 0 /\ Len(hist[w[1]]) = 1
      BY <1>3, <2>3, FirstHistory DEF Started
    <3>2. wire'[w] = Idle \/ \E p : Starter(p, w)
      BY DEF PowerUp, Starter
    <3>3. ASSUME NEW p, Starter(p, w) PROVE wire'[w] = hist[w[1]][1]
      <4>1. PICK d \in Chan : w = <<d, -1, 0>>
        BY <3>3, Starters
      <4>2. w = <<w[1], -1, 0>>
        BY <4>1
      <4> QED
        BY <2>3, <4>2, FirstHistory
    <3> QED
      BY <1>5, <3>1, <3>2, <3>3, FullFacts
  <2> QED
    BY <2>1, <2>2, <2>3
<1>7. Relayed(t)'
  <2> SUFFICES ASSUME NEW p \in Circuit, Relay(p), NEW k \in DOMAIN p.outs
               PROVE  t[p.ins[1]] = t[p.outs[k]] + Full(wire'[p.outs[k]]) + Full(got'[p.name][1])
    BY <1>1 DEF Relayed, Full
  <2>1. 1 \in DOMAIN p.ins
    BY DEF Relay
  <2>2. got'[p.name][1] = Idle
    BY <1>2, <2>1
  <2>3. Started(p.ins[1]) = Started(p.outs[k]) + Full(wire'[p.outs[k]])
    BY RelayStart
  <2>4. t[p.ins[1]] = Started(p.ins[1]) /\ t[p.outs[k]] = Started(p.outs[k]) /\ Started(p.outs[k]) \in {0, 1}
    BY <1>3, <1>4, <2>1
  <2> QED
    BY <1>5, <2>2, <2>3, <2>4, FullFacts
<1>8. Latest(t)'
  <2>1. ASSUME NEW p \in Circuit, p.elem > 0, NEW o \in DOMAIN p.outs, p.outs[o][1] \in Chan
        PROVE  t[p.outs[o]] + Full(wire'[p.outs[o]]) = Len(hist[p.outs[o][1]])
    BY <1>3, <1>4, <2>1, ElementStart
  <2>2. ASSUME NEW c \in InPorts
        PROVE  t[<<c, -1, 0>>] + Full(wire'[<<c, -1, 0>>]) = Len(hist[c])
    <3>1. c \in Chan
      <4>1. PICK i \in DOMAIN prog : c \in {SlotChan(prog[i], s) : s \in CountedSlots(prog[i])}
        BY DEF InPorts, Read
      <4>2. PICK s \in CountedSlots(prog[i]) : c = SlotChan(prog[i], s)
        BY <4>1
      <4> QED
        BY <4>2, ReadWires
    <3> DEFINE w == <<c, -1, 0>>
    <3>2. w \in WiresOf(Circuit) /\ w[1] = c /\ w[2] = -1 /\ w = <<w[1], -1, 0>>
      BY <1>4
    <3>3. t[w] = 0
      BY <1>3, <3>2 DEF Started
    <3> HIDE DEF w
    <3>4. CASE FirstTokens(c) = {}
      <4>1. hist[c] = <<>> /\ wire'[w] = Idle
        BY <3>1, <3>2, <3>4, FirstHistory
      <4> QED
        BY <1>5, <3>3, <4>1 DEF w
    <3>5. CASE FirstTokens(c) # {}
      <4>1. Len(hist[c]) = 1 /\ wire'[w] # Idle
        BY <3>1, <3>2, <3>5, FirstHistory
      <4> QED
        BY <1>5, <3>3, <4>1 DEF w
    <3> QED
      BY <3>4, <3>5
  <2> QED
    BY <1>1, <2>1, <2>2 DEF Latest, Full
<1>9. Consumed(t)'
  <2> SUFFICES ASSUME NEW p \in Circuit, Unit(p), NEW k \in DOMAIN p.ins
               PROVE  used[p.elem][k] + Full(got'[p.name][k])
                        = t[p.ins[k]] + (IF k \in mid'[p.name] THEN 1 ELSE 0)
    BY <1>1 DEF Consumed, Full
  <2>1. p.elem \in DOMAIN prog /\ DOMAIN p.ins = CountedSlots(prog[p.elem])
    BY DEF Unit
  <2>2. p.elem > 0
    BY <1>0, <2>1, ElementFacts
  <2>3. used[p.elem][k] = 0
    BY <2>1 DEF NotYet, Histories
  <2>4. t[p.ins[k]] = 0
    BY <1>3, <1>4, <2>2, ElementStart
  <2> QED
    BY <1>2, <1>5, <2>3, <2>4
<1>10. InHand(t)'
  BY <1>1, <1>2 DEF InHand
<1>11. Delivered(t)'
  <2> SUFFICES ASSUME NEW c \in OutPorts PROVE Len(delivered[c]) = t[<<c, -1, 0>>]
    BY <1>1 DEF Delivered
  <2>1. c \in Chan
    BY <1>0, OutPortChan
  <2>2. delivered[c] = <<>>
    BY <2>1 DEF NotYet
  <2>3. t[<<c, -1, 0>>] = 0
    BY <1>3, <1>4 DEF Started
  <2> QED
    BY <2>2, <2>3
<1> QED
  BY <1>1, <1>3, <1>6, <1>7, <1>8, <1>9, <1>10, <1>11 DEF Flow

LEMMA PowerStep ==
  ASSUME Printed, Bodies, NothingElsewhere, Histories, InRange, NotYet, PowerUp PROVE CircuitInv'
<1>1. /\ net' = Circuit /\ prog' = prog /\ pipeline' = pipeline /\ phase' = "done"
      /\ UNCHANGED <<vars, hist, used, delivered>> /\ OutPorts' = OutPorts
      /\ Wired(net)'
  BY PowerCircuit
<1>2. Signals' /\ Rounds'
  BY PowerSignals
<1>3. \E taken : Flow(taken)'
  BY PowerFlow
<1>4. Histories' /\ NothingElsewhere' /\ InRange'
  BY <1>1 DEF Histories, NothingElsewhere, InRange
<1>5. NotYet'
  <2>1. \A c : FirstTokens(c)' = FirstTokens(c)
    BY <1>1 DEF FirstTokens
  <2> QED
    BY <1>1, <2>1 DEF NotYet
<1>6. Offers'
  BY <1>2 DEF Signals, Offers
<1> QED
  BY <1>1, <1>2, <1>3, <1>4, <1>5, <1>6 DEF CircuitInv

LEMMA CircuitStart == ASSUME Bodies PROVE CircuitInit => CircuitInv
<1> SUFFICES ASSUME CircuitInit PROVE CircuitInv
  OBVIOUS
<1>1. /\ prog \in Programs /\ net = {} /\ pipeline \in Builds(prog)
      /\ hist = [c \in Chan |-> IF FirstTokens(c) = {} THEN <<>> ELSE <<CHOOSE v \in FirstTokens(c) : TRUE>>]
      /\ used = [i \in DOMAIN prog |-> [k \in CountedSlots(prog[i]) |-> 0]]
      /\ delivered = [c \in Chan |-> <<>>]
  BY DEF CircuitInit, Init
<1>2. ASSUME NEW c \in Chan PROVE FirstTokens(c) \subseteq Carried(prog, c)
  <2> DEFINE Starts(i) == {Buffer(prog, i, o).init : o \in {x \in DOMAIN prog[i].out : prog[i].out[x] = c}}
  <2>1. \A i \in DOMAIN prog : Starts(i) \subseteq Carried(prog, c) \cup {Idle}
    BY <1>1 DEF Bodies, SoundBuffers
  <2>2. FirstTokens(c) = (UNION {Starts(i) : i \in DOMAIN prog}) \ {Idle}
    BY DEF FirstTokens
  <2> HIDE DEF Starts
  <2> QED
    BY <2>1, <2>2
<1>3. ASSUME NEW c \in Chan
      PROVE  hist[c] \in Seq(Nat) /\ \A m \in 1 .. Len(hist[c]) : hist[c][m] \in Carried(prog, c)
  <2>1. CASE FirstTokens(c) = {}
    BY <1>1, <2>1
  <2>2. CASE FirstTokens(c) # {}
    <3>1. PICK v \in FirstTokens(c) : v = CHOOSE x \in FirstTokens(c) : TRUE
      BY <2>2
    <3>2. v \in Carried(prog, c) /\ v \in Nat
      BY <1>2 DEF Carried
    <3>3. hist[c] = <<v>>
      BY <1>1, <2>2, <3>1
    <3> QED
      BY <3>2, <3>3
  <2> QED
    BY <2>1, <2>2
<1>4. Histories
  <2>1. hist \in [Chan -> Seq(Nat)]
    BY <1>1, <1>3
  <2>2. delivered \in [Chan -> Seq(Nat)]
    BY <1>1
  <2> QED
    BY <1>1, <2>1, <2>2 DEF Histories
<1>5. NotYet
  BY <1>1 DEF NotYet
<1>6. NothingElsewhere
  BY <1>1 DEF NothingElsewhere
<1>7. Offers
  BY DEF CircuitInit, Offers
<1>8. InRange
  BY <1>1, <1>3 DEF InRange
<1> QED
  BY <1>1, <1>4, <1>5, <1>6, <1>7, <1>8 DEF CircuitInv

\* Translation is over before the circuit works, and does not touch it.
LEMMA TranslateStep == CircuitInv /\ Translate => CircuitInv' /\ UNCHANGED <<prog, netVars>>
<1> SUFFICES ASSUME CircuitInv, Translate PROVE CircuitInv' /\ UNCHANGED <<prog, netVars>>
  OBVIOUS
<1>1. phase # "done" /\ prog' = prog
  BY DEF Translate, Next, CollectElement, CollectAbort, CreateCopyProcs, EmitFunc, EmitCluster, EmitMerge,
         EmitMixer, EmitSplit, EmitSink, EmitAbort, Finish, Abort, At, Plainly, Serve
<1>2. net = {} /\ UNCHANGED netVars
  BY <1>1 DEF CircuitInv, Translate
<1>3. UNCHANGED <<pipeline, net, wire, got, mid, hist, used, delivered>>
  BY <1>2 DEF netVars
<1>4. Histories' /\ InRange' /\ NothingElsewhere' /\ Offers'
  <2>1. OutPorts' = OutPorts
    BY <1>1 DEF OutPorts
  <2> QED
    BY <1>1, <1>3, <2>1 DEF CircuitInv, Histories, InRange, NothingElsewhere, Offers
<1>5. NotYet'
  <2>1. \A c : FirstTokens(c)' = FirstTokens(c)
    BY <1>1 DEF FirstTokens
  <2> QED
    BY <1>1, <1>2, <1>3, <2>1 DEF CircuitInv, NotYet
<1> QED
  BY <1>1, <1>2, <1>3, <1>4, <1>5 DEF CircuitInv

\* A step of the circuit at work: what it leaves is a circuit at work.
LEMMA WorkKeeps ==
  ASSUME CircuitInv, net # {}, net' = net, prog' = prog, phase' = phase,
         NothingElsewhere', Running', InRange', NEW u, Flow(u)'
  PROVE  CircuitInv'
<1>1. Offers'
  BY DEF Running, Signals, Offers
<1> QED
  BY <1>1 DEF CircuitInv, Running

LEMMA SameElsewhere ==
  ASSUME NothingElsewhere, prog' = prog, delivered' = delivered PROVE NothingElsewhere'
<1>1. OutPorts' = OutPorts
  BY DEF OutPorts
<1> QED
  BY <1>1 DEF NothingElsewhere

-----------------------------------------------------------------------------
(* The values on a channel fit its width *)

LEMMA SameWidth ==
  ASSUME Widths, NEW q \in Programs, NEW i \in DOMAIN q, q[i].t \in Selections,
         NEW c \in Data(q[i]), NEW d \in Data(q[i])
  PROVE  Width(q, c) = Width(q, d) /\ Carried(q, c) = Carried(q, d)
<1>1. Width(q, c) = Width(q, d)
  BY DEF Widths
<1> QED
  BY <1>1 DEF Carried

\* The data channels of a selection, as its process has them.
LEMMA DataFacts ==
  ASSUME Running, ElementShapes, NEW p \in net, p.kind \in Selections
  PROVE  /\ Unit(p) /\ p.elem \in DOMAIN prog /\ prog[p.elem].t = p.kind
         /\ \A k \in DOMAIN p.ins : k # 0 =>
              p.ins[k][1] \in Chan /\ p.ins[k][1] \in Data(prog[p.elem])
         /\ \A k \in DOMAIN p.outs : (p.outs[k][1] \in Chan /\ (p.kind \in Mixers => k # 2)) =>
              p.outs[k][1] \in Data(prog[p.elem])
         /\ p.kind \in Mixers => prog[p.elem].out[1] \in Data(prog[p.elem])
<1> DEFINE e == prog[p.elem]
<1>1. /\ Unit(p) /\ prog \in Programs /\ p.elem \in DOMAIN prog /\ e.t = p.kind /\ NoChan \notin Chan
      /\ e \in Element /\ (e.t \in {"split", "merge"} => e.guard \in Chan)
      /\ \A k \in DOMAIN p.ins : p.ins[k][1] \in Chan
  BY KindFacts, ProgramsAssumption DEF Running, Unit
<1>2. /\ CountedSlots(e) \subseteq 0 .. Len(e.in) /\ Len(e.in) \in Nat /\ DOMAIN e.in = 1 .. Len(e.in)
  BY <1>1, SlotFacts
<1>3. ASSUME NEW k \in DOMAIN p.ins, k # 0 PROVE p.ins[k][1] \in Data(e)
  <2>1. k \in CountedSlots(e) /\ p.ins[k][1] = SlotChan(e, k)
    BY <1>1 DEF Unit
  <2>2. k \in DOMAIN e.in /\ p.ins[k][1] = e.in[k]
    BY <1>2, <1>3, <2>1 DEF SlotChan
  <2> QED
    BY <2>2 DEF Data
<1>4. ASSUME NEW k \in DOMAIN p.outs, p.outs[k][1] \in Chan, p.kind \in Mixers => k # 2
      PROVE  p.outs[k][1] \in Data(e)
  <2>1. k \in DOMAIN e.out /\ p.outs[k][1] = e.out[k]
    BY <1>1 DEF Unit
  <2> QED
    BY <1>1, <1>4, <2>1 DEF Data
<1>5. ASSUME p.kind \in Mixers PROVE e.out[1] \in Data(e)
  <2>1. 1 \in DOMAIN e.out /\ e.out[1] # NoChan
    BY <1>1, <1>5, ShapeFacts DEF ElementShapes
  <2> QED
    BY <2>1 DEF Data
<1> QED
  BY <1>1, <1>3, <1>4, <1>5

LEMMA SeenCarried ==
  ASSUME Running, InRange, NEW taken, Flow(taken), NEW p \in net, Unit(p),
         mid[p.name] = {}, NEW k \in DOMAIN p.ins, Seen(p, k) # Idle
  PROVE  Seen(p, k) \in Carried(prog, p.ins[k][1])
<1> DEFINE c == p.ins[k][1]
           u == used[p.elem][k]
<1>1. /\ c \in Chan /\ c = SlotChan(prog[p.elem], k) /\ p.elem \in DOMAIN prog
      /\ k \in CountedSlots(prog[p.elem])
  BY KindFacts DEF Unit
<1>2. D!ChanAt(prog[p.elem], k) = c
  BY <1>1 DEF D!ChanAt, SlotChan
<1>3. hist[c] \in Seq(Nat) /\ Len(hist[c]) \in Nat /\ u \in Nat
  BY <1>1 DEF Running, Histories
<1>4. u < Len(hist[c]) /\ hist[c][u + 1] = Seen(p, k)
  BY <1>2, TokenSeen DEF D!Has, D!Token
<1>5. u + 1 \in 1 .. Len(hist[c])
  BY <1>3, <1>4
<1> QED
  BY <1>1, <1>4, <1>5 DEF InRange

\* What an element sends on a channel fits it.
LEMMA ChoiceRange ==
  ASSUME Running, InRange, Fitted, ElementShapes, SoundValues, NEW taken, Flow(taken),
         NEW p \in net, p.elem > 0, mid[p.name] = {}, NEW s \in Choices(p),
         NEW k \in DOMAIN s.put, p.outs[k][1] \in Chan
  PROVE  s.put[k] \in Carried(prog, p.outs[k][1])
<1>0. k \in DOMAIN p.outs
  BY ChoiceFacts
<1>1. CASE p.kind \notin Selections
  <2>1. p.outs[k][1] = prog[p.elem].out[k]
    BY <1>0, KindFacts DEF Relay, Drop, Constant, Unit
  <2> QED
    BY <1>0, <1>1, <2>1, PlainFacts
<1>2. CASE p.kind \in Selections
  <2> DEFINE e == prog[p.elem]
  <2>1. /\ Unit(p) /\ p.elem \in DOMAIN prog /\ e.t = p.kind /\ prog \in Programs /\ Widths
        /\ \A j \in DOMAIN p.ins : j # 0 => p.ins[j][1] \in Data(e)
        /\ (p.kind \in Mixers => k # 2) => p.outs[k][1] \in Data(e)
    BY <1>0, <1>2, DataFacts DEF Running, SoundValues
  <2>2. ASSUME NEW j \in DOMAIN p.ins, j # 0, Seen(p, j) # Idle, p.kind \in Mixers => k # 2
        PROVE  Seen(p, j) \in Carried(prog, p.outs[k][1])
    <3>1. Seen(p, j) \in Carried(prog, p.ins[j][1])
      BY <2>1, <2>2, SeenCarried
    <3>2. Carried(prog, p.ins[j][1]) = Carried(prog, p.outs[k][1])
      BY <1>2, <2>1, <2>2, SameWidth
    <3> QED
      BY <3>1, <3>2
  <2>3. CASE p.kind = "merge"
    <3>1. PICK j \in DOMAIN p.ins \ {0} :
             Seen(p, j) # Idle /\ s = [take |-> {0, j}, put |-> [x \in {1} |-> Seen(p, j)]]
      BY <2>3, MergeChoice
    <3>2. s.put[k] = Seen(p, j)
      BY <3>1
    <3> QED
      BY <2>2, <2>3, <3>1, <3>2
  <2>4. CASE p.kind = "split"
    <3>1. /\ 1 \in DOMAIN p.ins /\ Seen(p, 1) # Idle
          /\ \E j \in DOMAIN p.outs : DOMAIN s.put = {j} /\ s.put[j] = Seen(p, 1)
      BY <2>4, SplitChoice
    <3>2. s.put[k] = Seen(p, 1)
      BY <3>1
    <3> QED
      BY <2>2, <2>4, <3>1, <3>2
  <2>5. CASE p.kind \in Mixers
    <3>1. PICK j \in DOMAIN p.ins :
            /\ Seen(p, j) # Idle
            /\ s = [take |-> {j}, put |-> [x \in {1, 2} |-> IF x = 1 THEN Seen(p, j) ELSE j - 1]]
      BY <2>5, MixerChoice
    <3>2. /\ k \in {1, 2} /\ s.put[1] = Seen(p, j) /\ s.put[2] = j - 1
      BY <3>1
    <3>3. DOMAIN p.ins \subseteq Nat /\ 0 \notin DOMAIN p.ins
      BY <2>1, <2>5, KindFacts
    <3>4. CASE k = 1
      BY <2>2, <3>1, <3>2, <3>3, <3>4
    <3>5. CASE k = 2
      <4>1. p.outs[2][1] = e.out[2] /\ e.out[2] \in Chan
        BY <1>0, <2>1, <3>5 DEF Unit
      <4>2. Width(prog, e.out[2]) \in Nat
        BY <2>1, <4>1 DEF Widths
      <4> DEFINE m == Pow2[Width(prog, e.out[2])]
      <4>3. m \in Nat /\ m >= 1
        BY <4>2, Pow2Grows
      <4>4. j - 1 \in Nat /\ (j - 1) % m = j - 1
        <5>1. Narrow(p, j - 1) = j - 1
          BY <2>5 DEF Fitted
        <5> QED
          BY <3>3, <5>1 DEF Narrow
      <4>5. \A a \in Nat, b \in Nat : b >= 1 => a % b < b
        OBVIOUS
      <4> HIDE DEF m
      <4>6. j - 1 < m
        BY <4>3, <4>4, <4>5
      <4> QED
        BY <3>2, <3>5, <4>1, <4>4, <4>6 DEF Carried, m
    <3> QED
      BY <3>2, <3>4, <3>5
  <2> QED
    BY <1>2, <2>3, <2>4, <2>5 DEF Selections
<1> QED
  BY <1>1, <1>2

\* A process that fires leaves values that fit.
LEMMA NoteRange ==
  ASSUME Running, InRange, Fitted, ElementShapes, SoundValues, SingleDrivers,
         NEW taken, Flow(taken), NEW p \in net, mid[p.name] = {}, NEW s \in Choices(p),
         Note(p, s.take, s.put), prog' = prog, pipeline' = pipeline
  PROVE  InRange'
<1>1. /\ s.take \subseteq DOMAIN p.ins /\ DOMAIN s.put \subseteq DOMAIN p.outs
      /\ \A k \in DOMAIN s.put : s.put[k] \in Nat
  BY ChoiceFacts
<1>2. /\ p.elem > 0 => \A k \in DOMAIN s.put : p.outs[k][1] \in Chan =>
           hist'[p.outs[k][1]] = Append(hist[p.outs[k][1]], s.put[k])
      /\ \A c \in Chan : (p.elem = 0 \/ \A k \in DOMAIN s.put : p.outs[k][1] # c) =>
           hist'[c] = hist[c]
  BY <1>1, NoteEffect
<1>3. p.elem = 0 \/ p.elem > 0
  BY KindFacts, ElementFacts DEF Relay, Drop, Constant, Unit, Running
<1>4. ASSUME NEW c \in Chan, NEW m \in 1 .. Len(hist'[c]) PROVE hist'[c][m] \in Carried(prog, c)
  <2>1. hist[c] \in Seq(Nat) /\ \A n \in 1 .. Len(hist[c]) : hist[c][n] \in Carried(prog, c)
    BY DEF Running, Histories, InRange
  <2>2. CASE p.elem = 0 \/ \A k \in DOMAIN s.put : p.outs[k][1] # c
    BY <1>2, <1>4, <2>1, <2>2
  <2>3. CASE p.elem > 0 /\ \E k \in DOMAIN s.put : p.outs[k][1] = c
    <3>1. PICK k \in DOMAIN s.put : p.outs[k][1] = c
      BY <2>3
    <3>2. hist'[c] = Append(hist[c], s.put[k]) /\ s.put[k] \in Carried(prog, c)
      BY <1>2, <2>3, <3>1, ChoiceRange
    <3> QED
      BY <1>4, <2>1, <3>2
  <2> QED
    BY <1>3, <2>2, <2>3
<1> QED
  BY <1>4 DEF InRange

LEMMA SupplyRange ==
  ASSUME Running, InRange, SoundValues, NEW c \in Chan, Supply(c) PROVE InRange'
<1>1. /\ UNCHANGED <<prog, pipeline>> /\ Len(hist[c]) < Len(Feed(prog, c))
      /\ hist' = [hist EXCEPT ![c] = Append(@, Feed(prog, c)[Len(@) + 1])]
  BY DEF Supply, vars
<1>2. /\ hist \in [Chan -> Seq(Nat)] /\ prog \in Programs
      /\ Feed(prog, c) \in Seq(Carried(prog, c))
  BY DEF Running, Histories, SoundValues
<1>3. Feed(prog, c)[Len(hist[c]) + 1] \in Carried(prog, c)
  BY <1>1, <1>2
<1>4. /\ hist'[c] = Append(hist[c], Feed(prog, c)[Len(hist[c]) + 1]) /\ hist[c] \in Seq(Nat)
      /\ \A d \in Chan : d # c => hist'[d] = hist[d]
  BY <1>1, <1>2
<1>5. ASSUME NEW d \in Chan, NEW m \in 1 .. Len(hist'[d]) PROVE hist'[d][m] \in Carried(prog, d)
  <2>1. \A n \in 1 .. Len(hist[d]) : hist[d][n] \in Carried(prog, d)
    BY DEF InRange
  <2>2. CASE d = c
    BY <1>3, <1>4, <1>5, <2>1, <2>2
  <2>3. CASE d # c
    BY <1>4, <1>5, <2>1, <2>3
  <2> QED
    BY <2>2, <2>3
<1> QED
  BY <1>1, <1>5 DEF InRange

LEMMA SameRange ==
  ASSUME InRange, prog' = prog, pipeline' = pipeline, hist' = hist PROVE InRange'
BY DEF InRange

\* What a mixer or arbiter of a printed circuit is.
LEMMA MixerFacts ==
  ASSUME WalkInv, phase = "done", Running, Bodies, SoundValues, WideControls,
         NEW p \in net, p.kind \in Mixers
  PROVE  LET e == prog[p.elem]
             W == Width(prog, e.out[2])
         IN  /\ W \in Nat /\ Pow2[W] \in Nat /\ Pow2[W] >= 1 /\ Len(e.in) <= Pow2[W]
             /\ DOMAIN p.ins \subseteq 1 .. Len(e.in) /\ Len(e.in) \in Nat
             /\ (\E b \in Builds(prog) : b) => Width(prog, e.out[1]) <= W
<1> DEFINE e == prog[p.elem]
<1>1. /\ Unit(p) /\ p.elem \in DOMAIN prog /\ e.t \in Mixers /\ prog \in Programs
      /\ 0 \notin DOMAIN p.ins /\ DOMAIN p.ins = CountedSlots(e) /\ e \in Element
  BY KindFacts DEF Running, Unit, Selections
<1>2. e.out[2] # NoChan
  <2>1. FreshInv /\ pos = Len(prog) + 1
    BY DEF WalkInv, HeldInv
  <2>2. p.elem \in Nat /\ p.elem < pos
    BY <1>1, <2>1, ElementFacts
  <2> QED
    BY <1>1, <2>1, <2>2 DEF FreshInv
<1>3. e.out[2] \in Chan
  BY <1>1, <1>2, ShapeFacts DEF Bodies
<1>4. Width(prog, e.out[2]) \in Nat
  BY <1>1, <1>3 DEF SoundValues, Widths
<1>5. /\ Len(e.in) <= Pow2[Width(prog, e.out[2])]
      /\ (\E b \in Builds(prog) : b) => Width(prog, e.out[1]) <= Width(prog, e.out[2])
  BY <1>1, <1>2 DEF WideControls
<1>6. DOMAIN p.ins \subseteq 1 .. Len(e.in) /\ Len(e.in) \in Nat
  <2>1. CountedSlots(e) \subseteq 0 .. Len(e.in) /\ Len(e.in) \in Nat
    BY <1>1, SlotFacts
  <2>2. ASSUME NEW k \in DOMAIN p.ins PROVE k \in 1 .. Len(e.in)
    BY <1>1, <2>1
  <2> QED
    BY <2>1, <2>2
<1>7. Pow2[Width(prog, e.out[2])] \in Nat /\ Pow2[Width(prog, e.out[2])] >= 1
  BY <1>4, Pow2Grows
<1> QED
  BY <1>4, <1>5, <1>6, <1>7

LEMMA Remainder == \A a \in Nat, b \in Nat : a < b => a % b = a
OBVIOUS

LEMMA FittedHolds ==
  ASSUME WalkInv, phase = "done", Running, Bodies, SoundValues, WideControls
  PROVE  Fitted
<1> SUFFICES ASSUME NEW p \in net, p.kind \in Mixers, NEW k \in DOMAIN p.ins
             PROVE  Narrow(p, k - 1) = k - 1
  BY DEF Fitted
<1> DEFINE m == Pow2[Width(prog, prog[p.elem].out[2])]
           n == Len(prog[p.elem].in)
<1>1. m \in Nat /\ n \in Nat /\ n <= m /\ k \in 1 .. n
  BY MixerFacts
<1> HIDE DEF m, n
<1>2. k - 1 \in Nat /\ k - 1 < m
  BY <1>1
<1>3. (k - 1) % m = k - 1
  BY <1>1, <1>2, Remainder
<1> QED
  BY <1>3 DEF Narrow, m

\* The variable a pipelined mixer or arbiter receives into holds its datum.
LEMMA WholeHeld ==
  ASSUME WalkInv, phase = "done", Running, InRange, Bodies, SoundValues, WideControls,
         NEW taken, Flow(taken), NEW p \in net, NEW k \in DOMAIN p.ins, Receive(p, k)
  PROVE  Whole(p, k)
<1>1. CASE p.kind \notin Mixers
  BY <1>1 DEF Whole, Holds
<1>2. CASE p.kind \in Mixers
  <2> DEFINE e == prog[p.elem]
             c == p.ins[k][1]
             v == wire[p.ins[k]]
             m == Pow2[Width(prog, e.out[2])]
             n == Pow2[Width(prog, e.out[1])]
  <2>1. /\ prog \in Programs /\ p.elem \in DOMAIN prog /\ e.t \in Selections
        /\ c \in Chan /\ c \in Data(e) /\ e.out[1] \in Data(e) /\ Widths
    <3>1. p.kind \in Selections /\ ElementShapes
      BY <1>2 DEF Selections, Bodies
    <3>2. k # 0
      BY <1>2, <3>1, KindFacts
    <3> QED
      BY <1>2, <3>1, <3>2, DataFacts DEF Running, SoundValues
  <2>2. Width(prog, e.out[1]) <= Width(prog, e.out[2])
    <3>1. pipeline /\ pipeline \in Builds(prog)
      BY <1>2 DEF Receive, Storing, Selections, InRange
    <3> QED
      BY <1>2, <3>1, MixerFacts
  <2>3. v \in Carried(prog, c)
    <3>1. p.ins[k] \in WiresOf(net) /\ v # Idle
      BY WiresThere DEF Receive
    <3>2. taken[p.ins[k]] \in Nat /\ hist[c] \in Seq(Nat)
      BY <2>1, <3>1 DEF Flow, Running, Histories
    <3>3. taken[p.ins[k]] + Full(v) <= Len(hist[c]) /\ v = hist[c][taken[p.ins[k]] + 1]
      BY <2>1, <3>1 DEF Flow, InOrder
    <3>4. taken[p.ins[k]] + 1 \in 1 .. Len(hist[c])
      BY <3>1, <3>2, <3>3, FullFacts
    <3> QED
      BY <2>1, <3>3, <3>4 DEF InRange
  <2>4. /\ Width(prog, e.out[1]) = Width(prog, c) /\ Width(prog, c) \in Nat
        /\ Width(prog, e.out[2]) \in Nat
    BY <1>2, <2>1, SameWidth, MixerFacts DEF Widths
  <2>5. v \in Nat /\ v < n
    BY <2>3, <2>4 DEF Carried
  <2>6. m \in Nat /\ n \in Nat /\ n <= m
    BY <2>2, <2>4, Pow2Multiple, Pow2Grows
  <2> HIDE DEF m, n, v
  <2>7. v % m = v
    BY <2>5, <2>6, Remainder
  <2> QED
    BY <1>2, <2>7 DEF Whole, Holds, Narrow, m, v
<1> QED
  BY <1>1, <1>2

\* A step of a process fires at most one element.
LEMMA WorkStep ==
  ASSUME WalkInv, CircuitInv, Bodies, SoundValues, WideControls, Work
  PROVE  CircuitInv' /\ ((\E i \in DOMAIN prog : D!Fire(i)) \/ UNCHANGED <<prog, hist, used, delivered>>)
<1>1. PICK p \in net : \/ \E k \in DOMAIN p.ins : Receive(p, k)
                       \/ Send(p) \/ Select(p) \/ Release(p)
  BY DEF Work
<1>2. /\ net # {} /\ phase = "done" /\ NothingElsewhere /\ Running /\ \E taken : Flow(taken)
      /\ SingleDrivers /\ ElementShapes /\ InRange
  BY <1>1 DEF CircuitInv, Running, WalkInv, IInv, Bodies
<1>3. PICK taken : Flow(taken)
  BY <1>2
<1> Fitted
  BY <1>2, FittedHolds
<1>4. ASSUME NEW k \in DOMAIN p.ins, Receive(p, k) PROVE CircuitInv' /\ UNCHANGED <<prog, hist, used, delivered>>
  <2>1. UNCHANGED <<prog, phase, pipeline, net, hist, used, delivered>>
    BY <1>4 DEF Receive, vars
  <2>0. Whole(p, k)
    BY <1>2, <1>3, <1>4, WholeHeld
  <2>2. Running'
    BY <1>2, <1>4, <2>0, ReceiveRounds
  <2>3. PICK u : Flow(u)'
    BY <1>2, <1>3, <1>4, <2>0, ReceiveFlow
  <2>4. NothingElsewhere'
    BY <1>2, <2>1, SameElsewhere
  <2>5. InRange'
    BY <1>2, <2>1, SameRange
  <2> QED
    BY <1>2, <2>1, <2>2, <2>3, <2>4, <2>5, WorkKeeps
<1>5. ASSUME Send(p)
      PROVE  CircuitInv' /\ ((\E i \in DOMAIN prog : D!Fire(i)) \/ UNCHANGED <<prog, hist, used, delivered>>)
  <2>1. /\ Running' /\ Flow(taken)' /\ UNCHANGED <<vars, pipeline, net, delivered>>
        /\ \E s \in Choices(p) : Note(p, s.take, s.put)
    BY <1>2, <1>3, <1>5, SendStep
  <2>2. UNCHANGED <<prog, phase, pipeline, net, delivered>>
    BY <2>1 DEF vars
  <2>3. mid[p.name] = {}
    BY <1>2, <1>5 DEF Send, Running, Rounds
  <2>4. (\E i \in DOMAIN prog : D!Fire(i)) \/ UNCHANGED <<prog, hist, used, delivered>>
    BY <1>2, <1>3, <2>1, <2>2, <2>3, ChoiceFires
  <2>5. NothingElsewhere'
    BY <1>2, <2>2, SameElsewhere
  <2>6. InRange'
    BY <1>2, <1>3, <2>1, <2>2, <2>3, NoteRange
  <2> QED
    BY <1>2, <2>1, <2>2, <2>4, <2>5, <2>6, WorkKeeps
<1>6. ASSUME Select(p)
      PROVE  CircuitInv' /\ ((\E i \in DOMAIN prog : D!Fire(i)) \/ UNCHANGED <<prog, hist, used, delivered>>)
  <2>1. /\ Running' /\ Flow(taken)' /\ UNCHANGED <<vars, pipeline, net, delivered>>
        /\ \E s \in Choices(p) : Note(p, s.take, s.put)
    BY <1>2, <1>3, <1>6, SelectStep
  <2>2. UNCHANGED <<prog, phase, pipeline, net, delivered>>
    BY <2>1 DEF vars
  <2>3. mid[p.name] = {}
    BY <1>6 DEF Select
  <2>4. (\E i \in DOMAIN prog : D!Fire(i)) \/ UNCHANGED <<prog, hist, used, delivered>>
    BY <1>2, <1>3, <2>1, <2>2, <2>3, ChoiceFires
  <2>5. NothingElsewhere'
    BY <1>2, <2>2, SameElsewhere
  <2>6. InRange'
    BY <1>2, <1>3, <2>1, <2>2, <2>3, NoteRange
  <2> QED
    BY <1>2, <2>1, <2>2, <2>4, <2>5, <2>6, WorkKeeps
<1>7. ASSUME Release(p) PROVE CircuitInv' /\ UNCHANGED <<prog, hist, used, delivered>>
  <2>1. /\ Running' /\ (\E u : Flow(u)')
        /\ UNCHANGED <<vars, pipeline, net, got, hist, used, delivered>>
    BY <1>2, <1>3, <1>7, ReleaseStep
  <2>2. UNCHANGED <<prog, phase, pipeline, net, hist, used, delivered>>
    BY <2>1 DEF vars
  <2>3. NothingElsewhere'
    BY <1>2, <2>2, SameElsewhere
  <2>4. PICK u : Flow(u)'
    BY <2>1
  <2>5. InRange'
    BY <1>2, <2>2, SameRange
  <2> QED
    BY <1>2, <2>1, <2>2, <2>3, <2>4, <2>5, WorkKeeps
<1> QED
  BY <1>1, <1>4, <1>5, <1>6, <1>7

\* A step of the environment is one of Dataflow's.
LEMMA PortStep ==
  ASSUME WalkInv, CircuitInv, Bodies, SoundValues, NEW c \in Chan, Supply(c) \/ Drain(c)
  PROVE  CircuitInv' /\ (D!Supply(c) \/ D!Deliver(c))
<1>1. net # {}
  BY DEF Supply, Drain
<1>2. /\ phase = "done" /\ NothingElsewhere /\ Running /\ \E taken : Flow(taken)
      /\ SingleDrivers /\ ElementShapes /\ InRange
  BY <1>1 DEF CircuitInv, Running, WalkInv, IInv, Bodies
<1>3. PICK taken : Flow(taken)
  BY <1>2
<1>4. ASSUME Supply(c) PROVE CircuitInv' /\ D!Supply(c)
  <2>1. /\ Running' /\ Flow(taken)' /\ UNCHANGED <<vars, pipeline, net, got, mid, used, delivered>>
    BY <1>2, <1>3, <1>4, SupplyStep
  <2>2. UNCHANGED <<prog, phase, net, used, delivered>>
    BY <2>1 DEF vars
  <2>3. NothingElsewhere'
    BY <1>2, <2>2, SameElsewhere
  <2>4. D!Supply(c)
    BY <1>4, <2>2 DEF Supply, D!Supply
  <2>5. InRange'
    BY <1>2, <1>4, SupplyRange
  <2> QED
    BY <1>1, <1>2, <2>1, <2>2, <2>3, <2>4, <2>5, WorkKeeps
<1>5. ASSUME Drain(c) PROVE CircuitInv' /\ D!Deliver(c)
  <2>1. /\ Running' /\ (\E u : Flow(u)') /\ UNCHANGED <<vars, pipeline, net, got, mid, hist, used>>
        /\ c \in OutPorts /\ Len(delivered[c]) < Len(hist[c])
        /\ delivered' = [delivered EXCEPT ![c] = Append(@, hist[c][Len(@) + 1])]
    BY <1>2, <1>3, <1>5, DrainStep
  <2>2. UNCHANGED <<prog, phase, pipeline, net, hist, used>>
    BY <2>1 DEF vars
  <2>3. NothingElsewhere'
    <3>1. OutPorts' = OutPorts
      BY <2>2 DEF OutPorts
    <3>2. \A d \in Chan \ OutPorts : delivered'[d] = delivered[d]
      BY <1>2, <2>1 DEF Running, Histories
    <3> QED
      BY <1>2, <3>1, <3>2 DEF NothingElsewhere
  <2>4. D!Deliver(c)
    BY <2>1, <2>2 DEF D!Deliver
  <2>5. PICK u : Flow(u)'
    BY <2>1
  <2>6. InRange'
    BY <1>2, <2>2, SameRange
  <2> QED
    BY <1>1, <1>2, <2>1, <2>2, <2>3, <2>4, <2>5, <2>6, WorkKeeps
<1> QED
  BY <1>4, <1>5

LEMMA SameState == CircuitInv /\ UNCHANGED circuitVars => CircuitInv'
<1> SUFFICES ASSUME CircuitInv, UNCHANGED circuitVars PROVE CircuitInv'
  OBVIOUS
<1>1. UNCHANGED <<prog, phase, pipeline, net, wire, got, mid, hist, used, delivered>>
  BY DEF circuitVars, vars, netVars
<1>2. Histories' /\ InRange' /\ NothingElsewhere' /\ Offers'
  <2>1. OutPorts' = OutPorts
    BY <1>1 DEF OutPorts
  <2> QED
    BY <1>1, <2>1 DEF CircuitInv, Histories, InRange, NothingElsewhere, Offers
<1>3. NotYet => NotYet'
  <2>1. \A c : FirstTokens(c)' = FirstTokens(c)
    BY <1>1 DEF FirstTokens
  <2> QED
    BY <1>1, <2>1 DEF NotYet
<1>4. /\ InPorts' = InPorts /\ OutPorts' = OutPorts /\ WiresOf(net)' = WiresOf(net)
      /\ \A p : (Relay(p)' <=> Relay(p)) /\ (Unit(p)' <=> Unit(p)) /\ (Storing(p)' <=> Storing(p))
      /\ Wired(net) => Wired(net)'
  BY <1>1, SameCircuit
<1>5. Signals => Signals'
  BY <1>1, <1>4 DEF Signals
<1>6. Rounds => Rounds'
  BY <1>1, <1>4 DEF Rounds, Sent
<1>7. ASSUME NEW taken, Flow(taken) PROVE Flow(taken)'
  <2>1. InOrder(taken)' /\ Relayed(taken)'
    BY <1>1, <1>4, <1>7 DEF Flow, InOrder, Relayed, Full
  <2>2. Latest(taken)' /\ Consumed(taken)'
    BY <1>1, <1>4, <1>7 DEF Flow, Latest, Consumed, Full
  <2>3. InHand(taken)' /\ Delivered(taken)'
    BY <1>1, <1>4, <1>7 DEF Flow, InHand, Delivered
  <2> QED
    BY <1>4, <1>7, <2>1, <2>2, <2>3 DEF Flow
<1>8. (\E taken : Flow(taken)) => \E taken : Flow(taken)'
  BY <1>7
<1> QED
  BY <1>1, <1>2, <1>3, <1>4, <1>5, <1>6, <1>8 DEF CircuitInv

\* Every step keeps both invariants, and is a step of Dataflow or none.
LEMMA CircuitStep ==
  ASSUME UnsharedSinks, Bodies, SoundValues, WideControls
  PROVE  WalkInv /\ CircuitInv /\ [CircuitNext]_circuitVars =>
           WalkInv' /\ CircuitInv' /\ [D!Next]_(D!vars)
<1> SUFFICES ASSUME WalkInv, CircuitInv, [CircuitNext]_circuitVars
             PROVE  WalkInv' /\ CircuitInv' /\ [D!Next]_(D!vars)
  OBVIOUS
<1>1. CASE Translate
  <2>1. [Next]_vars
    BY <1>1 DEF Translate
  <2>2. UNCHANGED D!vars
    BY <1>1, TranslateStep DEF netVars, D!vars
  <2> QED
    BY <1>1, <2>1, <2>2, TranslateStep, WalkStep
<1>2. CASE PowerUp
  <2>1. Printed /\ NothingElsewhere /\ Histories /\ InRange /\ NotYet
    BY <1>2 DEF PowerUp, Printed, CircuitInv
  <2>2. UNCHANGED vars /\ UNCHANGED <<hist, used, delivered>>
    BY <1>2 DEF PowerUp
  <2>3. UNCHANGED D!vars
    BY <2>2 DEF vars, D!vars
  <2>4. WalkInv'
    BY <2>2, WalkStep
  <2> QED
    BY <1>2, <2>1, <2>3, <2>4, PowerStep
<1>3. CASE Work
  <2>1. UNCHANGED vars
    BY <1>3 DEF Work, Receive, Send, Select, Release
  <2>2. WalkInv'
    BY <2>1, WalkStep
  <2>3. CircuitInv' /\ ((\E i \in DOMAIN prog : D!Fire(i)) \/ UNCHANGED <<prog, hist, used, delivered>>)
    BY <1>3, WorkStep
  <2> QED
    BY <2>2, <2>3 DEF D!Next, D!vars
<1>4. CASE \E c \in Chan : Supply(c) \/ Drain(c)
  <2>1. PICK c \in Chan : Supply(c) \/ Drain(c)
    BY <1>4
  <2>2. UNCHANGED vars
    BY <2>1 DEF Supply, Drain
  <2>3. WalkInv'
    BY <2>2, WalkStep
  <2>4. CircuitInv' /\ (D!Supply(c) \/ D!Deliver(c))
    BY <2>1, PortStep
  <2> QED
    BY <2>3, <2>4 DEF D!Next
<1>5. CASE UNCHANGED circuitVars
  <2>1. UNCHANGED vars /\ UNCHANGED D!vars
    BY <1>5 DEF circuitVars, vars, netVars, D!vars
  <2>2. WalkInv'
    BY <2>1, WalkStep
  <2> QED
    BY <1>5, <2>1, <2>2, SameState
<1> QED
  BY <1>1, <1>2, <1>3, <1>4, <1>5 DEF CircuitNext

\* The inductive invariant of the translation and the circuit.
LEMMA CircuitAlways ==
  ASSUME UnsharedSinks, Bodies, SoundValues, WideControls PROVE CircuitSpec => [](WalkInv /\ CircuitInv)
<1>1. CircuitInit => WalkInv /\ CircuitInv
  BY WalkInit, CircuitStart DEF CircuitInit
<1>2. WalkInv /\ CircuitInv /\ [CircuitNext]_circuitVars => WalkInv' /\ CircuitInv'
  BY CircuitStep
<1> QED
  BY <1>1, <1>2, PTL DEF CircuitSpec

LEMMA CircuitTyped == CircuitInv => CircuitTypeOK
<1> SUFFICES ASSUME CircuitInv PROVE CircuitTypeOK
  OBVIOUS
<1>1. ASSUME NEW p \in net PROVE DOMAIN got[p.name] = DOMAIN p.ins /\ mid[p.name] \subseteq DOMAIN p.ins
  BY DEF CircuitInv, Signals
<1>2. ASSUME NEW c \in Chan PROVE Len(delivered[c]) <= Len(hist[c])
  <2>1. Len(hist[c]) \in Nat
    BY DEF CircuitInv, Histories
  <2>2. CASE delivered[c] = <<>>
    BY <2>1, <2>2
  <2>3. CASE delivered[c] # <<>>
    <3>1. c \in OutPorts /\ net # {}
      BY <2>3 DEF CircuitInv, NothingElsewhere, NotYet
    <3>2. PICK taken : Flow(taken)
      BY <3>1 DEF CircuitInv
    <3> DEFINE w == <<c, -1, 0>>
    <3>3. w \in WiresOf(net) /\ w[1] = c
      BY <3>1, WiresThere
    <3>4. Len(delivered[c]) = taken[w] /\ taken[w] \in Nat
      BY <3>1, <3>2, <3>3 DEF Flow, Delivered
    <3>5. taken[w] + Full(wire[w]) <= Len(hist[c])
      BY <3>2, <3>3 DEF Flow, InOrder
    <3> QED
      BY <2>1, <3>4, <3>5, FullFacts
  <2> QED
    BY <2>2, <2>3
<1> QED
  BY <1>1, <1>2 DEF CircuitTypeOK, CircuitInv, Offers

\* A wire offers a value or nothing, a process has received and forwarded
\* inputs of its own only, and no port delivers more than its channel was sent.
THEOREM CircuitTyping ==
  ASSUME UnsharedSinks, Bodies, SoundValues, WideControls PROVE CircuitSpec => []CircuitTypeOK
<1>1. CircuitInv => CircuitTypeOK
  BY CircuitTyped
<1> QED
  BY <1>1, CircuitAlways, PTL

LEMMA DataflowStart == ASSUME Bodies PROVE CircuitInit => D!Init
<1> SUFFICES ASSUME CircuitInit PROVE D!Init
  OBVIOUS
<1>1. \A c \in Chan : Len(hist[c]) <= 1
  <2> SUFFICES ASSUME NEW c \in Chan PROVE Len(hist[c]) <= 1
    OBVIOUS
  <2>1. hist[c] = IF FirstTokens(c) = {} THEN <<>> ELSE <<CHOOSE v \in FirstTokens(c) : TRUE>>
    BY DEF CircuitInit
  <2>2. Len(<<>>) = 0 /\ \A v : Len(<<v>>) = 1
    OBVIOUS
  <2> QED
    BY <2>1, <2>2
<1> QED
  BY <1>1 DEF CircuitInit, D!Init

\* Through COPY trees, buffer chains, merges, splits, mixers and arbiters, and
\* whatever the relative speeds, every step fires at most one element on the
\* tokens it was to read next, and a port delivers its channel in order: in the
\* build without PIPELINE if every control output of a mixer or arbiter can say
\* which input it is about, in the other if it is as wide as the data besides,
\* the datum being held in a variable of its width (WideControls).
THEOREM CircuitImplementsDataflow ==
  ASSUME UnsharedSinks, Bodies, SoundValues, WideControls PROVE CircuitSpec => ImplementsDataflow
<1>1. CircuitInit => D!Init
  BY DataflowStart
<1>2. WalkInv /\ CircuitInv /\ [CircuitNext]_circuitVars => [D!Next]_(D!vars)
  BY CircuitStep
<1> QED
  BY <1>1, <1>2, CircuitAlways, PTL DEF CircuitSpec, ImplementsDataflow, D!Spec

-----------------------------------------------------------------------------
(* Every wire has its ends *)

Sender(w) == \E p \in Circuit : \E k \in DOMAIN p.outs : p.outs[k] = w
Receiver(w) == \E p \in Circuit : \E k \in DOMAIN p.ins : p.ins[k] = w

LEMMA ElementSender ==
  ASSUME Printed, Bodies, NEW i \in DOMAIN prog, NEW o \in DOMAIN prog[i].out
  PROVE  Sender(DriveWire(i, o))
<1>1. CASE o \in Literals(prog[i])
  <2> DEFINE p == Proc(<<"source", i, o, NoChan>>, "source", i, <<>>, [x \in {o} |-> DriveWire(i, o)])
  <2>1. SourceOf(p, i, o)
    BY <1>1 DEF SourceOf
  <2>2. DOMAIN p.outs = {o} /\ p.outs[o] = DriveWire(i, o)
    BY DEF Proc
  <2> HIDE DEF p
  <2>3. p \in Circuit
    BY <2>1, Pieces
  <2> QED
    BY <2>2, <2>3 DEF Sender
<1>2. CASE o \notin Literals(prog[i])
  <2> DEFINE p == Proc(<<"unit", i, 0, NoChan>>, prog[i].t, i, [k \in CountedSlots(prog[i]) |-> ReadWire(i, k)],
                       [x \in DOMAIN prog[i].out \ Literals(prog[i]) |-> DriveWire(i, x)])
  <2>1. UnitOf(p, i)
    BY <1>2 DEF UnitOf
  <2>2. o \in DOMAIN p.outs /\ p.outs[o] = DriveWire(i, o)
    BY <1>2 DEF Proc
  <2> HIDE DEF p
  <2>3. p \in Circuit
    BY <2>1, Pieces
  <2> QED
    BY <2>2, <2>3 DEF Sender
<1> QED
  BY <1>1, <1>2

LEMMA BufferEnds ==
  ASSUME Printed, Bodies, NEW i \in DOMAIN prog, NEW o \in DOMAIN prog[i].out,
         NEW j \in 1 .. Buffer(prog, i, o).n
  PROVE  /\ Receiver(<<prog[i].out[o], -2, j - 1>>)
         /\ j = Buffer(prog, i, o).n => Sender(<<prog[i].out[o], -1, 0>>)
         /\ j # Buffer(prog, i, o).n => Sender(<<prog[i].out[o], -2, j>>)
<1> DEFINE b == Buffer(prog, i, o)
           p == Proc(<<"buf", i, o, j>>, IF j = b.n /\ b.init # Idle THEN "init" ELSE "onebuf", 0,
                     [k \in {1} |-> <<prog[i].out[o], -2, j - 1>>],
                     [k \in {1} |-> IF j = b.n THEN <<prog[i].out[o], -1, 0>> ELSE <<prog[i].out[o], -2, j>>])
<1>1. BufferOf(p, i, o, j)
  BY DEF BufferOf
<1> HIDE DEF p, b
<1>2. p \in Circuit
  BY <1>1, Pieces
<1>3. /\ DOMAIN p.ins = {1} /\ DOMAIN p.outs = {1}
      /\ p.ins[1] = <<prog[i].out[o], -2, j - 1>>
      /\ j = Buffer(prog, i, o).n => p.outs[1] = <<prog[i].out[o], -1, 0>>
      /\ j # Buffer(prog, i, o).n => p.outs[1] = <<prog[i].out[o], -2, j>>
  BY <1>1, BufferFacts
<1> QED
  BY <1>2, <1>3 DEF Sender, Receiver

LEMMA LeafEnds ==
  ASSUME Printed, NEW c \in DOMAIN copies, NEW level \in 0 .. Root(copies[c])
  PROVE  /\ \A x \in Nat : x < Upper(Outputs(copies[c])[level]) =>
              IF level = Root(copies[c]) THEN Receiver(<<c, -1, 0>>) ELSE Receiver(<<c, level + 1, x>>)
         /\ \A y \in Nat : y < Outputs(copies[c])[level] => Sender(<<c, level, y>>)
<1> DEFINE n == Outputs(copies[c])[level]
<1>0. copies[c] \in Nat /\ copies[c] >= 2
  BY ReadWires
<1>1. n \in Nat /\ n >= 1 /\ Upper(n) \in Nat
  BY <1>0, TreeFacts, UpperFacts
<1>2. ASSUME NEW x \in Nat, x < Upper(n)
      PROVE  LeafOf(LeafAt(c, level, n, x), c, level, x) /\ LeafAt(c, level, n, x) \in Circuit
  <2>1. LeafOf(LeafAt(c, level, n, x), c, level, x)
    BY <1>1, <1>2 DEF LeafOf
  <2> QED
    BY <2>1, Pieces
<1>3. ASSUME NEW x \in Nat, x < Upper(n)
      PROVE  IF level = Root(copies[c]) THEN Receiver(<<c, -1, 0>>) ELSE Receiver(<<c, level + 1, x>>)
  <2>1. PICK p \in Circuit : LeafOf(p, c, level, x)
    BY <1>2, <1>3
  <2>2. /\ DOMAIN p.ins = {1}
        /\ level = Root(copies[c]) => p.ins[1] = <<c, -1, 0>>
        /\ level # Root(copies[c]) => p.ins[1] = <<c, level + 1, x>>
    BY <2>1, LeafFacts
  <2> QED
    BY <2>2 DEF Receiver
<1>4. ASSUME NEW y \in Nat, y < n PROVE Sender(<<c, level, y>>)
  <2>0. PICK x \in Nat : LeafWidth * x <= y /\ y < LeafWidth * x + LeafWidth
    BY DivFacts
  <2>1. LeafWidth * x \in Nat /\ LeafWidth * x < n
    BY <1>1, <1>4, <2>0, CircuitAssumption
  <2>2. x < Upper(n)
    BY <1>1, <2>1, UpperFacts
  <2>3. PICK p \in Circuit : LeafOf(p, c, level, x)
    BY <1>2, <2>2
  <2>4. /\ DOMAIN p.outs = LeafPorts(n, x)
        /\ \A k \in DOMAIN p.outs : p.outs[k] = <<c, level, LeafWidth * x + k - 1>>
    BY <2>3, LeafFacts
  <2> DEFINE k == y - LeafWidth * x + 1
  <2>5. k \in 1 .. LeafWidth /\ LeafWidth * x + k - 1 = y
    BY <2>0, <2>1, CircuitAssumption
  <2>6. k \in DOMAIN p.outs
    BY <1>4, <2>4, <2>5 DEF LeafPorts
  <2>7. p.outs[k] = <<c, level, y>>
    BY <2>4, <2>5, <2>6
  <2> HIDE DEF k
  <2> QED
    BY <2>6, <2>7 DEF Sender
<1> QED
  BY <1>3, <1>4

LEMMA ReadReceiver ==
  ASSUME Printed, Bodies, NEW i \in DOMAIN prog, NEW k \in CountedSlots(prog[i])
  PROVE  Receiver(ReadWire(i, k))
<1>0. prog \in Programs
  BY DEF Printed, WalkInv, IInv
<1>1. ~(prog[i].out # <<>> /\ Literals(prog[i]) = DOMAIN prog[i].out)
  <2> SUFFICES ASSUME prog[i].out # <<>>, Literals(prog[i]) = DOMAIN prog[i].out PROVE FALSE
    OBVIOUS
  <2>1. prog[i].out \in Seq(Chan \cup {NoChan})
    BY <1>0, ShapeFacts DEF Bodies
  <2>2. 1 \in DOMAIN prog[i].out
    BY <2>1
  <2>3. prog[i].t \in {"func", "cluster"}
    BY <2>2 DEF Literals, Literal
  <2>4. prog[i].in = <<>>
    BY <1>0, <2>3 DEF Bodies, ElementShapes
  <2> QED
    BY <2>3, <2>4 DEF CountedSlots, GuardSlot
<1> DEFINE p == Proc(<<"unit", i, 0, NoChan>>, prog[i].t, i, [r \in CountedSlots(prog[i]) |-> ReadWire(i, r)],
                     [x \in DOMAIN prog[i].out \ Literals(prog[i]) |-> DriveWire(i, x)])
<1>2. UnitOf(p, i)
  BY <1>1 DEF UnitOf
<1>3. k \in DOMAIN p.ins /\ p.ins[k] = ReadWire(i, k)
  BY DEF Proc
<1> HIDE DEF p
<1>4. p \in Circuit
  BY <1>2, Pieces
<1> QED
  BY <1>3, <1>4 DEF Receiver

LEMMA ChannelEnds ==
  ASSUME Printed, Bodies, NEW c
  PROVE  /\ c \in Driven(prog) => c \in Chan /\ Sender(<<c, -1, 0>>)
         /\ c \in Read(prog) => Receiver(<<c, -1, 0>>)
<1>1. ASSUME c \in Driven(prog) PROVE c \in Chan /\ Sender(<<c, -1, 0>>)
  <2>1. PICK i \in DOMAIN prog : c \in {prog[i].out[o] : o \in DOMAIN prog[i].out}
    BY <1>1 DEF Driven
  <2>2. PICK o \in DOMAIN prog[i].out : c = prog[i].out[o]
    BY <2>1
  <2>3. c # NoChan
    BY <1>1 DEF Driven
  <2>4. /\ c \in Chan \cup {NoChan} /\ Buffer(prog, i, o).n \in Nat
        /\ Buffer(prog, i, o).n = 0 => DriveWire(i, o) = <<c, -1, 0>>
    <3>1. /\ prog[i].out[o] \in Chan \cup {NoChan} /\ Buffer(prog, i, o).n \in Nat
          /\ prog[i].out[o] # NoChan =>
               DriveWire(i, o) = IF Buffer(prog, i, o).n > 0 THEN <<prog[i].out[o], -2, 0>>
                                 ELSE <<prog[i].out[o], -1, 0>>
      BY DriveFacts DEF Bodies
    <3>2. Buffer(prog, i, o).n = 0 => DriveWire(i, o) = <<prog[i].out[o], -1, 0>>
      BY <2>2, <2>3, <3>1
    <3> QED
      BY <2>2, <3>1, <3>2
  <2>5. CASE Buffer(prog, i, o).n = 0
    BY <2>3, <2>4, <2>5, ElementSender
  <2>6. CASE Buffer(prog, i, o).n > 0
    <3>1. PICK j \in 1 .. Buffer(prog, i, o).n : j = Buffer(prog, i, o).n
      BY <2>4, <2>6
    <3>2. Sender(<<prog[i].out[o], -1, 0>>)
      BY <3>1, BufferEnds
    <3>3. <<prog[i].out[o], -1, 0>> = <<c, -1, 0>>
      BY <2>2
    <3> QED
      BY <2>3, <2>4, <3>2, <3>3
  <2> QED
    BY <2>3, <2>4, <2>5, <2>6
<1>2. ASSUME c \in Read(prog) PROVE Receiver(<<c, -1, 0>>)
  <2>1. CASE c \in DOMAIN copies
    <3> DEFINE n == copies[c]
    <3>1. n \in Nat /\ n >= 2
      BY <2>1, ReadWires
    <3>2. Root(copies[c]) \in Nat /\ Upper(Outputs(copies[c])[Root(copies[c])]) = 1
      BY <2>1, <3>1, TreeFacts
    <3>3. PICK level \in 0 .. Root(copies[c]) : level = Root(copies[c])
      BY <3>2
    <3>4. \A x \in Nat : x < Upper(Outputs(copies[c])[level]) =>
            IF level = Root(copies[c]) THEN Receiver(<<c, -1, 0>>) ELSE Receiver(<<c, level + 1, x>>)
      BY <2>1, LeafEnds
    <3>5. 0 < Upper(Outputs(copies[c])[level])
      BY <3>2, <3>3
    <3> QED
      BY <3>3, <3>4, <3>5
  <2>2. CASE c \notin DOMAIN copies
    <3>1. PICK i \in DOMAIN prog : \E k \in CountedSlots(prog[i]) : ReadWire(i, k) = <<c, -1, 0>>
      BY <1>2, <2>2, ReadWires
    <3>2. PICK k \in CountedSlots(prog[i]) : ReadWire(i, k) = <<c, -1, 0>>
      BY <3>1
    <3>3. Receiver(ReadWire(i, k))
      BY ReadReceiver
    <3> QED
      BY <3>2, <3>3
  <2> QED
    BY <2>1, <2>2
<1> QED
  BY <1>1, <1>2


PortWire(cs, w) == \E c \in cs : w = <<c, -1, 0>>

\* The wire an output is attached to has a receiver, or is an output port.
LEMMA SentIsReceived ==
  ASSUME Printed, Bodies, NEW p \in Circuit, NEW k \in DOMAIN p.outs
  PROVE  Receiver(p.outs[k]) \/ PortWire(OutPorts, p.outs[k])
<1>0. prog \in Programs
  BY DEF Printed, WalkInv, IInv
<1>1. ASSUME NEW c \in Driven(prog), p.outs[k] = <<c, -1, 0>>
      PROVE  Receiver(p.outs[k]) \/ PortWire(OutPorts, p.outs[k])
  <2>1. CASE c \in Read(prog)
    <3>1. Receiver(<<c, -1, 0>>)
      BY <2>1, ChannelEnds
    <3> QED
      BY <1>1, <3>1
  <2>2. CASE c \notin Read(prog)
    BY <1>1, <2>2 DEF OutPorts, PortWire
  <2> QED
    BY <2>1, <2>2
<1>2. ASSUME NEW i \in DOMAIN prog, NEW o \in DOMAIN prog[i].out, prog[i].out[o] # NoChan
      PROVE  prog[i].out[o] \in Driven(prog)
  <2>1. prog[i].out[o] \in {prog[i].out[r] : r \in DOMAIN prog[i].out}
    OBVIOUS
  <2> QED
    BY <1>2, <2>1 DEF Driven
<1>3. ASSUME NEW i, FromElement(p, k, i) PROVE Receiver(p.outs[k]) \/ PortWire(OutPorts, p.outs[k])
  <2> DEFINE c == prog[i].out[k]
             n == Buffer(prog, i, k).n
  <2>1. /\ i \in DOMAIN prog /\ k \in DOMAIN prog[i].out /\ p.outs[k] = DriveWire(i, k)
        /\ c # NoChan => c \in Chan /\ n \in Nat
        /\ c # NoChan /\ n > 0 => p.outs[k] = <<c, -2, 0>>
        /\ c # NoChan /\ n = 0 => p.outs[k] = <<c, -1, 0>>
    BY <1>3, SentOn DEF FromElement
  <2>2. CASE c = NoChan
    <3>1. PICK f \in fresh : DriveWire(i, k) = <<NoChan, -1, f.id>>
      BY <2>1, <2>2, DriveFacts DEF Bodies
    <3> DEFINE q == Proc(<<"sink", f.id, 0, NoChan>>, "sink", 0, [x \in {1} |-> <<NoChan, -1, f.id>>], <<>>)
    <3>2. SinkOf(q, f)
      BY DEF SinkOf
    <3>3. 1 \in DOMAIN q.ins /\ q.ins[1] = <<NoChan, -1, f.id>>
      BY DEF Proc
    <3> HIDE DEF q
    <3>4. q \in Circuit
      BY <3>2, Pieces
    <3>5. q.ins[1] = p.outs[k]
      BY <2>1, <3>1, <3>3
    <3> QED
      BY <3>3, <3>4, <3>5 DEF Receiver
  <2>3. CASE c # NoChan /\ n > 0
    <3>1. PICK j \in 1 .. Buffer(prog, i, k).n : j = 1
      BY <2>1, <2>3
    <3>2. Receiver(<<prog[i].out[k], -2, j - 1>>)
      BY <2>1, <3>1, BufferEnds
    <3>3. p.outs[k] = <<prog[i].out[k], -2, j - 1>>
      BY <2>1, <2>3, <3>1
    <3> QED
      BY <3>2, <3>3
  <2>4. CASE c # NoChan /\ n = 0
    BY <1>1, <1>2, <2>1, <2>4
  <2> QED
    BY <2>1, <2>2, <2>3, <2>4
<1>4. ASSUME NEW i, NEW o, NEW j, FromBuffer(p, k, i, o, j)
      PROVE  Receiver(p.outs[k]) \/ PortWire(OutPorts, p.outs[k])
  <2> DEFINE c == prog[i].out[o]
             n == Buffer(prog, i, o).n
  <2>1. /\ i \in DOMAIN prog /\ o \in DOMAIN prog[i].out /\ c \in Chan /\ n \in Nat /\ j \in 1 .. n
        /\ j = n => p.outs[k] = <<c, -1, 0>>
        /\ j # n => p.outs[k] = <<c, -2, j>>
    BY <1>4 DEF FromBuffer
  <2>2. CASE j = n
    BY <1>1, <1>2, <2>1, <2>2, ProgramsAssumption
  <2>3. CASE j # n
    <3>1. PICK r \in 1 .. Buffer(prog, i, o).n : r = j + 1
      BY <2>1, <2>3
    <3>2. Receiver(<<prog[i].out[o], -2, r - 1>>)
      BY <2>1, <3>1, BufferEnds
    <3>3. r - 1 = j
      BY <2>1, <3>1
    <3> QED
      BY <2>1, <2>3, <3>2, <3>3
  <2> QED
    BY <2>2, <2>3
<1>5. ASSUME NEW c, NEW level, NEW x, FromLeaf(p, k, c, level, x) PROVE Receiver(p.outs[k])
  <2> DEFINE y == LeafWidth * x + k - 1
  <2>1. /\ LeafOf(p, c, level, x) /\ c \in DOMAIN copies /\ level \in Nat /\ x \in Nat
        /\ k \in 1 .. LeafWidth /\ y < Outputs(copies[c])[level] /\ p.outs[k] = <<c, level, y>>
    BY <1>5 DEF FromLeaf, LeafOf
  <2>2. /\ copies[c] \in Nat /\ copies[c] >= 2
        /\ \A z \in 0 .. copies[c] - 1 :
             \E i \in DOMAIN prog : \E r \in CountedSlots(prog[i]) : ReadWire(i, r) = <<c, 0, z>>
    BY <2>1, ReadWires
  <2>3. y \in Nat
    <3>1. LeafWidth * x \in Nat
      BY <2>1, CircuitAssumption
    <3> QED
      BY <2>1, <3>1
  <2>4. level \in 0 .. Root(copies[c]) /\ Root(copies[c]) \in Nat /\ Outputs(copies[c])[0] = copies[c]
    BY <2>1, <2>2, TreeFacts DEF LeafOf
  <2> HIDE DEF y
  <2>5. CASE level = 0
    <3>1. y \in 0 .. copies[c] - 1
      BY <2>1, <2>2, <2>3, <2>4, <2>5
    <3>2. PICK i \in DOMAIN prog : \E r \in CountedSlots(prog[i]) : ReadWire(i, r) = <<c, 0, y>>
      BY <2>2, <3>1
    <3>3. PICK r \in CountedSlots(prog[i]) : ReadWire(i, r) = <<c, 0, y>>
      BY <3>2
    <3>4. Receiver(ReadWire(i, r))
      BY ReadReceiver
    <3> QED
      BY <2>1, <2>5, <3>3, <3>4
  <2>6. CASE level # 0
    <3>1. PICK m \in 0 .. Root(copies[c]) : m = level - 1
      BY <2>1, <2>4, <2>6
    <3>2. m # Root(copies[c]) /\ m + 1 = level
      BY <2>4, <3>1
    <3>3. Outputs(copies[c])[m + 1] = Upper(Outputs(copies[c])[m])
      BY <2>1, <2>2, <3>2, TreeFacts
    <3>4. y < Upper(Outputs(copies[c])[m])
      BY <2>1, <3>2, <3>3
    <3>5. Receiver(<<c, m + 1, y>>)
      BY <2>1, <2>3, <3>2, <3>4, LeafEnds
    <3> QED
      BY <2>1, <3>2, <3>5
  <2> QED
    BY <2>5, <2>6
<1> QED
  BY <1>3, <1>4, <1>5, Senders

\* The wire an input is attached to has a sender, or is an input port.
LEMMA ReceivedIsSent ==
  ASSUME Printed, Bodies, NEW p \in Circuit, NEW k \in DOMAIN p.ins
  PROVE  Sender(p.ins[k]) \/ PortWire(InPorts, p.ins[k])
<1>0. prog \in Programs /\ FreshInv
  BY DEF Printed, WalkInv, IInv
<1>1. ASSUME NEW c \in Read(prog), p.ins[k] = <<c, -1, 0>>
      PROVE  Sender(p.ins[k]) \/ PortWire(InPorts, p.ins[k])
  <2>1. CASE c \in Driven(prog)
    <3>1. Sender(<<c, -1, 0>>)
      BY <2>1, ChannelEnds
    <3> QED
      BY <1>1, <3>1
  <2>2. CASE c \notin Driven(prog)
    BY <1>1, <2>2 DEF InPorts, PortWire
  <2> QED
    BY <2>1, <2>2
<1>2. ASSUME NEW i, ToElement(p, k, i) PROVE Sender(p.ins[k]) \/ PortWire(InPorts, p.ins[k])
  <2> DEFINE c == SlotChan(prog[i], k)
  <2>1. i \in DOMAIN prog /\ k \in CountedSlots(prog[i]) /\ p.ins[k] = ReadWire(i, k)
    BY <1>2 DEF ToElement, UnitOf
  <2>2. /\ c \in Read(prog)
        /\ c \in DOMAIN copies => \E x \in 0 .. copies[c] - 1 : ReadWire(i, k) = <<c, 0, x>>
        /\ c \notin DOMAIN copies => ReadWire(i, k) = <<c, -1, 0>>
    BY <2>1, ReadWires
  <2> HIDE DEF c
  <2>3. CASE c \notin DOMAIN copies
    BY <1>1, <2>1, <2>2, <2>3
  <2>4. CASE c \in DOMAIN copies
    <3>1. PICK x \in 0 .. copies[c] - 1 : ReadWire(i, k) = <<c, 0, x>>
      BY <2>2, <2>4
    <3>2. copies[c] \in Nat /\ copies[c] >= 2
      BY <2>4, ReadWires
    <3>3. Root(copies[c]) \in Nat /\ Outputs(copies[c])[0] = copies[c]
      BY <2>4, <3>2, TreeFacts
    <3>4. PICK level \in 0 .. Root(copies[c]) : level = 0
      BY <3>3
    <3>5. \A y \in Nat : y < Outputs(copies[c])[level] => Sender(<<c, level, y>>)
      BY <2>4, LeafEnds
    <3>6. Sender(<<c, 0, x>>)
      BY <3>2, <3>3, <3>4, <3>5
    <3> QED
      BY <2>1, <3>1, <3>6
  <2> QED
    BY <2>3, <2>4
<1>3. ASSUME NEW i, NEW o, NEW j, ToBuffer(p, k, i, o, j) PROVE Sender(p.ins[k])
  <2> DEFINE c == prog[i].out[o]
             n == Buffer(prog, i, o).n
  <2>1. /\ i \in DOMAIN prog /\ o \in DOMAIN prog[i].out /\ c \in Chan /\ n \in Nat /\ j \in 1 .. n
        /\ p.ins[k] = <<c, -2, j - 1>>
    BY <1>3, BufferFacts DEF ToBuffer
  <2>2. CASE j = 1
    <3>1. DriveWire(i, o) = <<c, -2, 0>>
      BY <2>1, DriveFacts, ProgramsAssumption DEF Bodies
    <3>2. Sender(DriveWire(i, o))
      BY <2>1, ElementSender
    <3>3. p.ins[k] = DriveWire(i, o)
      BY <2>1, <2>2, <3>1
    <3> QED
      BY <3>2, <3>3
  <2>3. CASE j # 1
    <3>1. PICK r \in 1 .. Buffer(prog, i, o).n : r = j - 1
      BY <2>1, <2>3
    <3>2. r # Buffer(prog, i, o).n
      BY <2>1, <3>1
    <3>3. Sender(<<prog[i].out[o], -2, r>>)
      BY <2>1, <3>2, BufferEnds
    <3> QED
      BY <2>1, <3>1, <3>3
  <2> QED
    BY <2>2, <2>3
<1>4. ASSUME NEW c, NEW level, NEW x, ToLeaf(p, k, c, level, x)
      PROVE  Sender(p.ins[k]) \/ PortWire(InPorts, p.ins[k])
  <2>1. /\ c \in DOMAIN copies /\ c \in Read(prog) /\ level \in Nat /\ x \in Nat
        /\ level \in 0 .. Root(copies[c]) /\ x < Upper(Outputs(copies[c])[level])
    BY <1>4, LeafFacts DEF ToLeaf
  <2>2. CASE level = Root(copies[c])
    BY <1>1, <1>4, <2>1, <2>2 DEF ToLeaf
  <2>3. CASE level # Root(copies[c])
    <3>0. copies[c] \in Nat /\ copies[c] >= 2
      BY <2>1, ReadWires
    <3>1. /\ level + 1 \in 0 .. Root(copies[c])
          /\ Outputs(copies[c])[level + 1] = Upper(Outputs(copies[c])[level])
      BY <2>1, <2>3, <3>0, TreeFacts
    <3>2. Sender(<<c, level + 1, x>>)
      BY <2>1, <3>1, LeafEnds
    <3>3. p.ins[k] = <<c, level + 1, x>>
      BY <1>4, <2>3 DEF ToLeaf
    <3> QED
      BY <3>2, <3>3
  <2> QED
    BY <2>2, <2>3
<1>5. ASSUME NEW f, ToSink(p, k, f) PROVE Sender(p.ins[k])
  <2>1. f \in fresh /\ p.ins[k] = <<NoChan, -1, f.id>>
    BY <1>5 DEF ToSink
  <2>2. /\ f.elem \in DOMAIN prog /\ f.slot \in NullOutputs(prog[f.elem])
        /\ \A g \in fresh : (g.elem = f.elem /\ g.slot = f.slot) => g = f
    BY <1>0, <2>1 DEF FreshInv
  <2>3. f.slot \in DOMAIN prog[f.elem].out /\ prog[f.elem].out[f.slot] = NoChan
    BY <2>2 DEF NullOutputs
  <2>4. \E g \in fresh : g.elem = f.elem /\ g.slot = f.slot /\ DriveWire(f.elem, f.slot) = <<NoChan, -1, g.id>>
    BY <2>2, <2>3, DriveFacts DEF Bodies
  <2>5. DriveWire(f.elem, f.slot) = <<NoChan, -1, f.id>>
    BY <2>2, <2>4
  <2>6. Sender(DriveWire(f.elem, f.slot))
    BY <2>2, <2>3, ElementSender
  <2> QED
    BY <2>1, <2>5, <2>6
<1> QED
  BY <1>2, <1>3, <1>4, <1>5, Receivers

LEMMA WiresHaveEnds ==
  ASSUME Printed, Bodies, NEW w \in WiresOf(Circuit)
  PROVE  /\ Sender(w) \/ PortWire(InPorts, w)
         /\ Receiver(w) \/ PortWire(OutPorts, w)
<1>1. \/ Sender(w) \/ Receiver(w)
      \/ PortWire(InPorts, w) \/ PortWire(OutPorts, w)
  <2>1. ASSUME NEW p \in Circuit, w \in Values(p.ins) \cup Values(p.outs) PROVE Sender(w) \/ Receiver(w)
    BY <2>1 DEF Values, Sender, Receiver
  <2>2. (\E p \in Circuit : w \in Values(p.ins) \cup Values(p.outs)) \/ \E c \in InPorts \cup OutPorts : w = <<c, -1, 0>>
    BY DEF WiresOf
  <2> QED
    BY <2>1, <2>2 DEF PortWire
<1>2. CASE Sender(w)
  BY <1>2, SentIsReceived DEF Sender
<1>3. CASE Receiver(w)
  BY <1>3, ReceivedIsSent DEF Receiver
<1>4. CASE PortWire(InPorts, w)
  <2>1. PICK c \in InPorts : w = <<c, -1, 0>>
    BY <1>4 DEF PortWire
  <2>2. Receiver(<<c, -1, 0>>)
    BY <2>1, ChannelEnds DEF InPorts
  <2> QED
    BY <1>4, <2>1, <2>2
<1>5. CASE PortWire(OutPorts, w)
  <2>1. PICK c \in OutPorts : w = <<c, -1, 0>>
    BY <1>5 DEF PortWire
  <2>2. Sender(<<c, -1, 0>>)
    BY <2>1, ChannelEnds DEF OutPorts
  <2> QED
    BY <1>5, <2>1, <2>2
<1> QED
  BY <1>1, <1>2, <1>3, <1>4, <1>5

LEMMA WellWiredHolds == ASSUME UnsharedSinks, Bodies PROVE WalkInv => WellWired
<1> SUFFICES ASSUME WalkInv, phase = "done", NEW w \in WiresOf(Circuit)
             PROVE  /\ Cardinality({p \in Circuit : w \in Values(p.outs)}) =
                         IF \E c \in InPorts : w = <<c, -1, 0>> THEN 0 ELSE 1
                    /\ Cardinality({p \in Circuit : w \in Values(p.ins)}) =
                         IF \E c \in OutPorts : w = <<c, -1, 0>> THEN 0 ELSE 1
  BY DEF WellWired
<1>1. Printed
  BY DEF Printed
<1>2. OneSender(Circuit) /\ OneReceiver(Circuit) /\ PortsFree(Circuit)
  BY <1>1, OneSenderHolds, OneReceiverHolds, PortsFreeHolds
<1>3. Cardinality({}) = 0 /\ \A p : Cardinality({p}) = 1
  BY FS_EmptySet, FS_Singleton
<1> DEFINE S == {p \in Circuit : w \in Values(p.outs)}
           R == {p \in Circuit : w \in Values(p.ins)}
<1>4. \A p \in Circuit : (w \in Values(p.outs) <=> \E k \in DOMAIN p.outs : p.outs[k] = w)
                         /\ (w \in Values(p.ins) <=> \E k \in DOMAIN p.ins : p.ins[k] = w)
  BY DEF Values
<1>5. Cardinality(S) = IF \E c \in InPorts : w = <<c, -1, 0>> THEN 0 ELSE 1
  <2>1. CASE \E c \in InPorts : w = <<c, -1, 0>>
    <3>1. S = {}
      BY <1>2, <1>4, <2>1 DEF PortsFree
    <3> QED
      BY <1>3, <2>1, <3>1
  <2>2. CASE ~\E c \in InPorts : w = <<c, -1, 0>>
    <3>1. Sender(w)
      BY <1>1, <2>2, WiresHaveEnds DEF PortWire
    <3>2. PICK p \in Circuit : \E k \in DOMAIN p.outs : p.outs[k] = w
      BY <3>1 DEF Sender
    <3>3. S = {p}
      BY <1>2, <1>4, <3>2 DEF OneSender
    <3> HIDE DEF S
    <3> QED
      BY <1>3, <2>2, <3>3
  <2> QED
    BY <2>1, <2>2
<1>6. Cardinality(R) = IF \E c \in OutPorts : w = <<c, -1, 0>> THEN 0 ELSE 1
  <2>1. CASE \E c \in OutPorts : w = <<c, -1, 0>>
    <3>1. R = {}
      BY <1>2, <1>4, <2>1 DEF PortsFree
    <3> QED
      BY <1>3, <2>1, <3>1
  <2>2. CASE ~\E c \in OutPorts : w = <<c, -1, 0>>
    <3>1. Receiver(w)
      BY <1>1, <2>2, WiresHaveEnds DEF PortWire
    <3>2. PICK p \in Circuit : \E k \in DOMAIN p.ins : p.ins[k] = w
      BY <3>1 DEF Receiver
    <3>3. R = {p}
      BY <1>2, <1>4, <3>2 DEF OneReceiver
    <3> HIDE DEF R
    <3> QED
      BY <1>3, <2>2, <3>3
  <2> QED
    BY <2>1, <2>2
<1> QED
  BY <1>5, <1>6

\* No step but those of the translation touches what the walks left.
LEMMA WalkAlways == CircuitSpec => []WalkInv
<1>1. CircuitInit => WalkInv
  BY WalkInit DEF CircuitInit
<1>2. WalkInv /\ [CircuitNext]_circuitVars => WalkInv'
  <2> SUFFICES ASSUME [CircuitNext]_circuitVars PROVE [Next]_vars
    BY WalkStep
  <2> QED
    BY DEF CircuitNext, Translate, PowerUp, Work, Receive, Send, Select, Release, Supply, Drain, circuitVars
<1> QED
  BY <1>1, <1>2, PTL DEF CircuitSpec

\* Every wire of the printed circuit has one sender and one receiver, the
\* environment being one of them at a port: of functional units, buffer
\* chains, COPY trees of any size and generated sinks alike, for every body
\* whose channels have one driver and whose sinks are the only reads of theirs.
THEOREM CircuitWired == ASSUME UnsharedSinks, Bodies PROVE CircuitSpec => []WellWired
<1>1. WalkInv => WellWired
  BY WellWiredHolds
<1> QED
  BY <1>1, WalkAlways, PTL

=============================================================================
