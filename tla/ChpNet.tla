------------------------------- MODULE ChpNet -------------------------------
(***************************************************************************)
(* The circuit a translated process describes, at work.  ProcGen runs to   *)
(* its end; the processes it has printed (functional units, buffers, COPY  *)
(* trees, merges, splits, mixers, arbiters, sources and sinks) then run    *)
(* concurrently, each the CHP program of dflow_stdlib.act or of the        *)
(* functional unit ChpLibGenerator prints.                                 *)
(*                                                                         *)
(* A wire holds the value its sender offers until its receiver takes it:   *)
(* c!v ends when c?x does, #c and the value c can be read before.  The     *)
(* sends of one comma list are offered together.  A channel has a width    *)
(* in bits, and its values fit it; the one place where the library holds a *)
(* value in a variable of another width, pipe_mixer and pipe_arbiter, cuts *)
(* it (Holds).                                                             *)
(***************************************************************************)
EXTENDS ProcGen, Bits

CONSTANTS
  Idle,              \* no value is offered on a wire, or none was received
  LeafWidth,         \* outputs of a copy_leaf: 8 in dflow_stdlib.act
  Width(_, _),       \* body, channel: its bits
  Builds(_),         \* PIPELINE of config.h: the builds a body is run in
  Compute(_, _, _, _),  \* the calculation of an element, as in Dataflow
  Buffer(_, _, _),      \* body, element, output: its buffer [n, init]
  Feed(_, _),           \* what the environment sends on an input port
  MaxTokens(_)          \* bound: tokens of a source, or taken from a port

ASSUME CircuitAssumption ==
  LeafWidth \in Nat /\ LeafWidth >= 2 /\ Idle \notin Nat

VARIABLES
  pipeline,  \* the build has pipe_merge, ... rather than unpipe_merge, ...
  net,       \* the processes: [name, kind, elem, ins, outs]
  wire,      \* wire |-> the value offered on it, or Idle
  got,       \* process |-> input |-> the value received this round, or Idle
  mid,       \* process |-> the inputs a selection has forwarded, not released
  hist,      \* channel |-> the tokens its driver has sent (history)
  used,      \* element |-> slot |-> the tokens read there (history)
  delivered  \* output port |-> the values taken from it

netVars == <<pipeline, net, wire, got, mid, hist, used, delivered>>
circuitVars == <<vars, netVars>>

Read(q) == UNION {{SlotChan(q[i], k) : k \in CountedSlots(q[i])} : i \in DOMAIN q}
Driven(q) == (UNION {{q[i].out[o] : o \in DOMAIN q[i].out} : i \in DOMAIN q}) \ {NoChan}
InPorts == Read(prog) \ Driven(prog)
OutPorts == Driven(prog) \ Read(prog)

-----------------------------------------------------------------------------
(* Wires: <<c, -1, 0>> is channel c itself, <<c, 0, k>> output k of its    *)
(* COPY, <<c, n, k>> a wire inside the COPY tree, <<c, -2, j>> the wires   *)
(* c_bufIn and c_buf(j-1), <<NoChan, -1, n>> the generated channel sink<n>. *)

Wire(at) == IF at.out = Direct THEN <<at.chan, -1, 0>> ELSE <<at.chan, 0, at.out>>
ReadWire(i, k) == Wire((CHOOSE r \in readers : r.elem = i /\ r.slot = k).at)

DriveWire(i, o) ==
  LET c == prog[i].out[o]
  IN  IF c = NoChan
      THEN <<c, -1, (CHOOSE f \in fresh : f.elem = i /\ f.slot = o).id>>
      ELSE IF Buffer(prog, i, o).n > 0 THEN <<c, -2, 0>> ELSE <<c, -1, 0>>

Proc(name, kind, elem, ins, outs) ==
  [name |-> name, kind |-> kind, elem |-> elem, ins |-> ins, outs |-> outs]

Literal(e, o) == e.t \in {"func", "cluster"} /\ e.parts[o].lhs = "int"

\* The process of an element; the literals of a func or cluster are sources.
UnitsOf(i) ==
  LET e == prog[i]
      lits == {o \in DOMAIN e.out : Literal(e, o)}
      ins == [k \in CountedSlots(e) |-> ReadWire(i, k)]
  IN  {Proc(<<"source", i, o, NoChan>>, "source", i, <<>>, [x \in {o} |-> DriveWire(i, o)])
         : o \in lits} \cup
      (IF e.out # <<>> /\ lits = DOMAIN e.out THEN {}
       ELSE {Proc(<<"unit", i, 0, NoChan>>, e.t, i, ins,
                  [o \in DOMAIN e.out \ lits |-> DriveWire(i, o)])})

BugBuffersOf(i, o) ==
  LET b == Buffer(prog, i, o)
      c == prog[i].out[o]
  IN  {Proc(<<"buf", i, o, j>>,
            IF j = 1 /\ b.init # Idle THEN "init" ELSE "onebuf", 0,
            [k \in {1} |-> <<c, -2, j - 1>>],
            [k \in {1} |-> IF j = b.n - 1 THEN <<c, -1, 0>> ELSE <<c, -2, j>>])
         : j \in 1 .. b.n - 1}

\* A chain of n processes, the last with the initial value if there is one.
BuffersOf(i, o) ==
  LET b == Buffer(prog, i, o)
      c == prog[i].out[o]
  IN  {Proc(<<"buf", i, o, j>>,
            IF j = b.n /\ b.init # Idle THEN "init" ELSE "onebuf", 0,
            [k \in {1} |-> <<c, -2, j - 1>>],
            [k \in {1} |-> IF j = b.n THEN <<c, -1, 0>> ELSE <<c, -2, j>>])
         : j \in 1 .. b.n}

Leaf(c, level, i, in, first, last) ==
  Proc(<<"copy", level, i, c>>, "copy_leaf", 0, [k \in {1} |-> in],
       [k \in 1 .. last - first + 1 |-> <<c, level, first + k - 1>>])

\* The leaves of the COPY whose outputs are the inputs of those a level below:
\* the copy that copy<W, N> instantiates is the level above.
BugLevel(c, level, n) ==
  IF n <= LeafWidth THEN {Leaf(c, level, 0, <<c, -1, 0>>, 0, n - 1)}
  ELSE {Leaf(c, level, i, <<c, level + 1, i>>, LeafWidth * i, LeafWidth * i + LeafWidth - 1)
          : i \in 0 .. n \div LeafWidth - 1}

Level(c, level, n) ==
  IF n <= LeafWidth THEN {Leaf(c, level, 0, <<c, -1, 0>>, 0, n - 1)}
  ELSE LET m == n \div LeafWidth
           f == n - m * LeafWidth
       IN  {Leaf(c, level, i, <<c, level + 1, i>>, LeafWidth * i,
                 LeafWidth * i + LeafWidth - 1) : i \in 0 .. m - 1} \cup
           (IF f > 0 THEN {Leaf(c, level, m, <<c, level + 1, m>>, m * LeafWidth, n - 1)}
            ELSE {})

\* How many outputs the copy of each level has.
Outputs(n) ==
  LET at[level \in Nat] ==
        IF level = 0 THEN n
        ELSE LET below == at[level - 1]
                 m == below \div LeafWidth
             IN  IF below - m * LeafWidth > 0 THEN m + 1 ELSE m
  IN  at

\* The level of the root, the first that is one leaf.
Root(n) ==
  CHOOSE top \in 0 .. n : /\ Outputs(n)[top] <= LeafWidth
                          /\ \A level \in 0 .. top - 1 : Outputs(n)[level] > LeafWidth

CopyTree(c, n) == UNION {Level(c, level, Outputs(n)[level]) : level \in 0 .. Root(n)}

Circuit ==
  (UNION {UnitsOf(i) : i \in DOMAIN prog}) \cup
  (UNION {UNION {BuffersOf(i, o) : o \in DOMAIN prog[i].out} : i \in DOMAIN prog}) \cup
  (UNION {CopyTree(c, copies[c]) : c \in DOMAIN copies}) \cup
  {Proc(<<"sink", f.id, 0, NoChan>>, "sink", 0, [k \in {1} |-> <<NoChan, -1, f.id>>], <<>>)
     : f \in fresh}

Values(f) == {f[x] : x \in DOMAIN f}
WiresOf(ps) ==
  (UNION {Values(p.ins) \cup Values(p.outs) : p \in ps}) \cup
  {<<c, -1, 0>> : c \in InPorts \cup OutPorts}

Mixers == {"mixer", "arbiter"}
Selections == {"split", "merge"} \cup Mixers

\* The token init<V, W> sends first.
InitialValue(p) == Buffer(prog, p.name[2], p.name[3]).init

\* What a channel starts with: the initial value of the buffer on it.
FirstTokens(c) ==
  (UNION {{Buffer(prog, i, o).init : o \in {x \in DOMAIN prog[i].out : prog[i].out[x] = c}}
            : i \in DOMAIN prog}) \ {Idle}

-----------------------------------------------------------------------------
(* What is asked of the bodies: the front end's elements have these        *)
(* shapes, and handleDFlowFunc gives no initial value without a buffer.    *)
(* Nothing in the translation checks that a channel has one driver.        *)

Literals(e) == {o \in DOMAIN e.out : Literal(e, o)}

SingleDrivers ==
  \A q \in Programs : \A i, j \in DOMAIN q :
    \A o \in DOMAIN q[i].out : \A r \in DOMAIN q[j].out :
      (q[i].out[o] = q[j].out[r] /\ q[i].out[o] # NoChan) => i = j /\ o = r

\* Every kind of element has its outputs, and literals read nothing.
ElementShapes ==
  \A q \in Programs : \A i \in DOMAIN q :
    LET e == q[i]
    IN  /\ e.t \in {"func", "cluster"} =>
             DOMAIN e.parts = DOMAIN e.out /\ (Literals(e) = DOMAIN e.out => e.in = <<>> \/ e.out = <<>>)
        /\ e.t = "split" => Len(e.in) = 1
        /\ e.t = "merge" => Len(e.out) = 1
        /\ e.t \in Mixers => Len(e.out) = 2
        /\ e.t = "sink" => e.out = <<>>
        /\ \A o \in DOMAIN e.out : e.out[o] = NoChan =>
             e.t = "split" \/ (e.t \in Mixers /\ o = 2)

\* What a channel can carry.
Carried(q, c) == {v \in Nat : v < Pow2[Width(q, c)]}

SoundBuffers ==
  \A q \in Programs : \A i \in DOMAIN q : \A o \in DOMAIN q[i].out :
    LET b == Buffer(q, i, o)
    IN  /\ b.n \in Nat /\ b.init \in Nat \cup {Idle}
        /\ b.init # Idle => b.n > 0 /\ b.init \in Carried(q, q[i].out[o])
        /\ q[i].out[o] = NoChan => b.n = 0

Bodies == SingleDrivers /\ ElementShapes /\ SoundBuffers

\* The data ports of a printed selection are of one width, int<W>.
Data(e) ==
  {e.in[k] : k \in DOMAIN e.in} \cup
  ({e.out[o] : o \in DOMAIN e.out \ (IF e.t \in Mixers THEN {2} ELSE {})} \ {NoChan})

Widths ==
  \A q \in Programs :
    /\ \A c \in Chan : Width(q, c) \in Nat
    /\ \A i \in DOMAIN q : q[i].t \in Selections =>
         \A c, d \in Data(q[i]) : Width(q, c) = Width(q, d)

\* The control of a mixer or an arbiter can say which input was taken and, in
\* the build that holds the datum in a variable of its width, hold the datum.
WideControls ==
  \A q \in Programs : \A i \in DOMAIN q :
    LET e == q[i]
    IN  (e.t \in Mixers /\ e.out[2] # NoChan) =>
          /\ Len(e.in) <= Pow2[Width(q, e.out[2])]
          /\ (\E b \in Builds(q) : b) => Width(q, e.out[1]) <= Width(q, e.out[2])

\* What the environment sends and the elements calculate fits the channels.
SoundValues ==
  /\ Widths
  /\ \A q \in Programs : \A c \in Chan : Feed(q, c) \in Seq(Carried(q, c))
  /\ \A q \in Programs : \A i \in DOMAIN q : q[i].t \notin Selections =>
       \A o \in DOMAIN q[i].out :
         /\ Compute(q, i, o, <<>>) \in Carried(q, q[i].out[o])
         /\ \A v \in [CountedSlots(q[i]) -> Nat] :
              Compute(q, i, o, v) \in Carried(q, q[i].out[o])

-----------------------------------------------------------------------------
CircuitInit ==
  /\ Init /\ pipeline \in Builds(prog)
  /\ net = {} /\ wire = <<>> /\ got = <<>> /\ mid = <<>>
  /\ hist = [c \in Chan |-> IF FirstTokens(c) = {} THEN <<>>
                            ELSE <<CHOOSE v \in FirstTokens(c) : TRUE>>]
  /\ used = [i \in DOMAIN prog |-> [k \in CountedSlots(prog[i]) |-> 0]]
  /\ delivered = [c \in Chan |-> <<>>]

Translate == Next /\ UNCHANGED netVars

\* The files are read back: every process starts, an init offers its value.
PowerUp ==
  /\ phase = "done" /\ net = {}
  /\ net' = Circuit
  /\ wire' = [w \in WiresOf(Circuit) |->
       IF \E p \in Circuit : p.kind = "init" /\ p.outs[1] = w
       THEN InitialValue(CHOOSE p \in Circuit : p.kind = "init" /\ p.outs[1] = w)
       ELSE Idle]
  /\ got' = [n \in {p.name : p \in Circuit} |->
       [k \in DOMAIN (CHOOSE p \in Circuit : p.name = n).ins |-> Idle]]
  /\ mid' = [n \in {p.name : p \in Circuit} |-> {}]
  /\ UNCHANGED <<vars, pipeline, hist, used, delivered>>

Sent(p) == \A k \in DOMAIN p.outs : wire[p.outs[k]] = Idle

\* Offer put[k] on output k.
Offered(p, put) ==
  [w \in DOMAIN wire |->
     IF \E k \in DOMAIN put : p.outs[k] = w
     THEN put[CHOOSE k \in DOMAIN put : p.outs[k] = w] ELSE wire[w]]

\* The history of an element that reads the slots of take and drives outputs.
Note(p, take, put) ==
  IF p.elem = 0 THEN UNCHANGED <<hist, used>>
  ELSE LET out == prog[p.elem].out
           To(c) == {k \in DOMAIN put : out[k] = c}
       IN  /\ hist' = [c \in Chan |-> IF To(c) = {} THEN hist[c]
                         ELSE Append(hist[c], put[CHOOSE k \in To(c) : TRUE])]
           /\ used' = [used EXCEPT ![p.elem] =
                [k \in DOMAIN @ |-> IF k \in take THEN @[k] + 1 ELSE @[k]]]

(* A storing process (onebuf, init, copy_leaf, sink, source, functional    *)
(* unit, pipe_merge, ...) receives its inputs, then sends its outputs and  *)
(* waits until all are read.  An unpipe_ selection stores nothing: it      *)
(* looks at the values offered to it, forwards one, and takes its inputs   *)
(* only after the forwarded value has been read.                           *)

Storing(p) == pipeline \/ p.kind \notin Selections

\* Is p, in its current round, at the receive of input k?
Awaits(p, k) ==
  CASE p.kind = "merge" -> k = 0 \/ got[p.name][0] = k - 1
    [] p.kind \in Mixers ->
         \A j \in DOMAIN p.ins : got[p.name][j] = Idle
    [] OTHER -> TRUE

\* A value in a variable or on a channel of the control's width.
Narrow(p, v) == v % Pow2[Width(prog, prog[p.elem].out[2])]

\* pipe_mixer and pipe_arbiter receive their datum into int<W2> x, W2 being the
\* width of the control output; every other variable has its channel's width.
Holds(p, v) == IF p.kind \in Mixers THEN Narrow(p, v) ELSE v

BugReceive(p, k) ==
  /\ Storing(p)
  /\ Sent(p) /\ Awaits(p, k)
  /\ got[p.name][k] = Idle /\ wire[p.ins[k]] # Idle
  /\ got' = [got EXCEPT ![p.name][k] = Holds(p, wire[p.ins[k]])]
  /\ UNCHANGED <<vars, pipeline, net, wire, mid, hist, used, delivered>>

Receive(p, k) ==
  /\ Storing(p)
  /\ Sent(p) /\ Awaits(p, k)
  /\ got[p.name][k] = Idle /\ wire[p.ins[k]] # Idle
  /\ got' = [got EXCEPT ![p.name][k] = Holds(p, wire[p.ins[k]])]
  /\ wire' = [wire EXCEPT ![p.ins[k]] = Idle]
  /\ UNCHANGED <<vars, pipeline, net, mid, hist, used, delivered>>

Seen(p, k) == IF Storing(p) THEN got[p.name][k] ELSE wire[p.ins[k]]

Result(p, k) ==
  IF p.elem > 0 THEN Compute(prog, p.elem, k, got[p.name]) ELSE got[p.name][1]

\* What p can send, and on the strength of which inputs.
Choices(p) ==
  LET there == {k \in DOMAIN p.ins : Seen(p, k) # Idle}
  IN  CASE p.kind = "merge" ->
             {[take |-> {0, k}, put |-> [x \in {1} |-> Seen(p, k)]] :
                k \in {j \in there \ {0} : 0 \in there /\ Seen(p, 0) = j - 1}}
        [] p.kind = "split" ->
             {[take |-> {0, 1}, put |-> [x \in {k} |-> Seen(p, 1)]] :
                k \in {j \in DOMAIN p.outs : {0, 1} \subseteq there /\ Seen(p, 0) = j - 1}}
        [] p.kind \in Mixers ->
             {[take |-> {k},
               put |-> [x \in {1, 2} |-> IF x = 1 THEN Seen(p, k) ELSE Narrow(p, k - 1)]] :
                k \in there}
        [] OTHER ->
             {[take |-> there, put |-> [k \in DOMAIN p.outs |-> Result(p, k)]] :
                x \in {y \in {there} : y = DOMAIN p.ins}}

Send(p) ==
  /\ Storing(p) /\ Sent(p)
  /\ p.kind = "source" =>
       \A k \in DOMAIN p.outs : Len(hist[prog[p.elem].out[k]]) < MaxTokens(prog)
  /\ \E s \in Choices(p) : wire' = Offered(p, s.put) /\ Note(p, s.take, s.put)
  /\ got' = [got EXCEPT ![p.name] = [k \in DOMAIN @ |-> Idle]]
  /\ UNCHANGED <<vars, pipeline, net, mid, delivered>>

Select(p) ==
  /\ ~Storing(p)
  /\ mid[p.name] = {}
  /\ \E s \in Choices(p) :
       /\ wire' = Offered(p, s.put)
       /\ mid' = [mid EXCEPT ![p.name] = s.take]
       /\ Note(p, s.take, s.put)
  /\ UNCHANGED <<vars, pipeline, net, got, delivered>>

BugRelease(p) ==
  /\ ~Storing(p)
  /\ mid[p.name] # {}
  /\ wire' = [w \in DOMAIN wire |->
                IF \E k \in mid[p.name] : p.ins[k] = w THEN Idle ELSE wire[w]]
  /\ mid' = [mid EXCEPT ![p.name] = {}]
  /\ UNCHANGED <<vars, pipeline, net, got, hist, used, delivered>>

Release(p) ==
  /\ ~Storing(p)
  /\ mid[p.name] # {} /\ Sent(p)
  /\ wire' = [w \in DOMAIN wire |->
                IF \E k \in mid[p.name] : p.ins[k] = w THEN Idle ELSE wire[w]]
  /\ mid' = [mid EXCEPT ![p.name] = {}]
  /\ UNCHANGED <<vars, pipeline, net, got, hist, used, delivered>>

(* The environment, at the ports of the process. *)

Supply(c) ==
  /\ net # {} /\ c \in InPorts
  /\ wire[<<c, -1, 0>>] = Idle /\ Len(hist[c]) < Len(Feed(prog, c))
  /\ wire' = [wire EXCEPT ![<<c, -1, 0>>] = Feed(prog, c)[Len(hist[c]) + 1]]
  /\ hist' = [hist EXCEPT ![c] = Append(@, Feed(prog, c)[Len(@) + 1])]
  /\ UNCHANGED <<vars, pipeline, net, got, mid, used, delivered>>

Drain(c) ==
  /\ net # {} /\ c \in OutPorts
  /\ wire[<<c, -1, 0>>] # Idle /\ Len(delivered[c]) < MaxTokens(prog)
  /\ delivered' = [delivered EXCEPT ![c] = Append(@, wire[<<c, -1, 0>>])]
  /\ wire' = [wire EXCEPT ![<<c, -1, 0>>] = Idle]
  /\ UNCHANGED <<vars, pipeline, net, got, mid, hist, used>>

Work ==
  \E p \in net : \/ \E k \in DOMAIN p.ins : Receive(p, k)
                 \/ Send(p) \/ Select(p) \/ Release(p)

CircuitNext ==
  \/ Translate \/ PowerUp \/ Work
  \/ \E c \in Chan : Supply(c) \/ Drain(c)

CircuitSpec == CircuitInit /\ [][CircuitNext]_circuitVars /\ WF_circuitVars(CircuitNext)
-----------------------------------------------------------------------------
CircuitTypeOK ==
  /\ \A w \in DOMAIN wire : wire[w] = Idle \/ wire[w] \in Nat
  /\ \A p \in net : /\ DOMAIN got[p.name] = DOMAIN p.ins
                    /\ mid[p.name] \subseteq DOMAIN p.ins
  /\ \A c \in Chan : Len(delivered[c]) <= Len(hist[c])

\* Every wire of the circuit about to be powered has one sender and one
\* receiver, the environment being one of them at a port.
WellWired ==
  (phase = "done" /\ net = {}) =>
    \A w \in WiresOf(Circuit) :
      /\ Cardinality({p \in Circuit : w \in Values(p.outs)}) =
           IF \E c \in InPorts : w = <<c, -1, 0>> THEN 0 ELSE 1
      /\ Cardinality({p \in Circuit : w \in Values(p.ins)}) =
           IF \E c \in OutPorts : w = <<c, -1, 0>> THEN 0 ELSE 1

\* The circuit computes what the dataflow body means: every step of it fires
\* at most one element, on the tokens that element was to read next, and what
\* comes out of a port is its channel's history in order - through every COPY
\* tree, buffer chain, merge, split, mixer and arbiter, whatever the relative
\* speeds; a mixer or arbiter as long as its control is wide enough.
D == INSTANCE Dataflow
ImplementsDataflow == D!Spec

\* Whatever the interleaving, the circuit does not lock up before every
\* output port has delivered all its tokens.
Delivers == <>(\A c \in OutPorts : Len(delivered[c]) = MaxTokens(prog))
=============================================================================
