------------------------------ MODULE Dataflow ------------------------------
(***************************************************************************)
(* What a dataflow body means, whatever circuit implements it: a channel   *)
(* is the history of the tokens put on it, every read of it has a position *)
(* of its own in that history, and an element fires in one step when the   *)
(* tokens it needs are there.  Nothing is lost, duplicated or reordered.   *)
(***************************************************************************)
EXTENDS Integers, Sequences

CONSTANTS
  Chan, NoChan,
  Compute(_, _, _, _),  \* body, element, output, slot |-> value: what it sends
  Feed(_, _)            \* body, channel: what the environment sends on it

VARIABLES
  prog,       \* the dataflow body, fixed
  hist,       \* channel |-> the tokens put on it so far
  used,       \* element |-> slot |-> the tokens read there so far
  delivered   \* channel |-> the tokens the environment has got from it

vars == <<prog, hist, used, delivered>>

ChanAt(e, k) == IF k = 0 THEN e.guard ELSE e.in[k]
Has(i, k) == used[i][k] < Len(hist[ChanAt(prog[i], k)])
Token(i, k) == hist[ChanAt(prog[i], k)][used[i][k] + 1]

Literals(e) == {o \in DOMAIN e.parts : e.parts[o].lhs = "int"}
One(c, v) == [d \in {c} \ {NoChan} |-> v]

\* The ways element i can fire: the slots it reads and what it puts where.
\* A literal of a function or cluster is sent on its own, over and over.
Firings(i) ==
  LET e == prog[i]
      all == DOMAIN used[i]
      On(os) == [c \in {e.out[o] : o \in os} |->
                   Compute(prog, i, CHOOSE o \in os : e.out[o] = c,
                           [k \in all |-> Token(i, k)])]
  IN  CASE e.t \in {"func", "cluster"} ->
             {[take |-> {}, put |-> [c \in {e.out[o]} |-> Compute(prog, i, o, <<>>)]]
                : o \in Literals(e)} \cup
             (IF \A k \in all : Has(i, k)
              THEN {[take |-> all, put |-> On(DOMAIN e.out \ Literals(e))]} ELSE {})
        [] e.t = "split" ->
             IF Has(i, 0) /\ Has(i, 1) /\ Token(i, 0) + 1 \in DOMAIN e.out
             THEN {[take |-> {0, 1}, put |-> One(e.out[Token(i, 0) + 1], Token(i, 1))]}
             ELSE {}
        [] e.t = "merge" ->
             {[take |-> {0, k}, put |-> One(e.out[1], Token(i, k))] :
                k \in {j \in DOMAIN e.in : Has(i, 0) /\ Token(i, 0) + 1 = j /\ Has(i, j)}}
        [] e.t \in {"mixer", "arbiter"} ->
             {[take |-> {k},
               put |-> [c \in {e.out[1], e.out[2]} |->
                          IF c = e.out[1] THEN Token(i, k) ELSE k - 1]] :
                k \in {j \in DOMAIN e.in : Has(i, j)}}
        [] OTHER -> {[take |-> {k}, put |-> One(NoChan, k)] :
                       k \in {j \in DOMAIN e.in : Has(i, j)}}

Fire(i) ==
  \E f \in Firings(i) :
    /\ used' = [used EXCEPT ![i] =
                  [k \in DOMAIN @ |-> IF k \in f.take THEN @[k] + 1 ELSE @[k]]]
    /\ hist' = [c \in Chan |->
                  IF c \in DOMAIN f.put THEN Append(hist[c], f.put[c]) ELSE hist[c]]
    /\ UNCHANGED <<prog, delivered>>

Supply(c) ==
  /\ Len(hist[c]) < Len(Feed(prog, c))
  /\ hist' = [hist EXCEPT ![c] = Append(@, Feed(prog, c)[Len(@) + 1])]
  /\ UNCHANGED <<prog, used, delivered>>

Deliver(c) ==
  /\ Len(delivered[c]) < Len(hist[c])
  /\ delivered' = [delivered EXCEPT ![c] = Append(@, hist[c][Len(@) + 1])]
  /\ UNCHANGED <<prog, hist, used>>

\* Only a buffer with an initial value may put a token before the start.
Init ==
  /\ \A c \in Chan : Len(hist[c]) <= 1
  /\ \A i \in DOMAIN used : \A k \in DOMAIN used[i] : used[i][k] = 0
  /\ delivered = [c \in Chan |-> <<>>]

Next ==
  \/ \E i \in DOMAIN prog : Fire(i)
  \/ \E c \in Chan : Supply(c) \/ Deliver(c)

Spec == Init /\ [][Next]_vars
=============================================================================
