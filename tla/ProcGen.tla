------------------------------ MODULE ProcGen ------------------------------
(***************************************************************************)
(* ProcGenerator::run on one process: the dataflow body is walked twice.   *)
(* The first walk (collectOpUses) counts how often every channel is read;  *)
(* createCopyProcs then puts a COPY process behind every channel that is   *)
(* read more than once; the second walk (handleNormDflowElement and        *)
(* handleDFlowCluster) asks getActIdOrCopyName, at every read, for the     *)
(* channel itself or for the next output of its COPY.  Nothing but two     *)
(* counters ties the walks together.                                       *)
(*                                                                         *)
(* An expression is abstracted to the channels its E_VAR leaves name, in   *)
(* the order both walks visit them; names to the canonical connection      *)
(* getActIdName prints; bitwidths, metrics and text are left out.          *)
(*                                                                         *)
(* An operator Bug<Name> is a faulty variant of <Name>: no part of the     *)
(* specification, it shows that a property would notice that fault.        *)
(***************************************************************************)
EXTENDS Integers, Sequences, FiniteSets

CONSTANTS
  Chan,           \* the channels of the process (act_connection)
  NoChan,         \* a null ActId: a "*" split output, an absent mixer control
  Programs,       \* the dataflow bodies considered
  LogicOptimizer  \* LOGIC_OPTIMIZER of config.h: is the optimizer built in?

Kind == {"func", "split", "merge", "mixer", "arbiter", "cluster", "sink"}

\* One function of a func or cluster element.  lhs tells the expressions the
\* walks treat apart: a literal, one that holds an E_CONCAT, any other.
Part == [t : Kind, lhs : {"int", "concat", "other"}, buf : BOOLEAN]

\* in: the channels read, an occurrence each (the guard of a split or a merge
\* is kept apart); out: the channels driven; parts: the functions inside.
Element == [t : Kind, in : Seq(Chan), guard : Chan \cup {NoChan},
            out : Seq(Chan \cup {NoChan}), parts : Seq(Part)]

ASSUME ProgramsAssumption ==
  /\ NoChan \notin Chan
  /\ LogicOptimizer \in BOOLEAN
  /\ Programs \subseteq Seq(Element)
  /\ \A q \in Programs : \A i \in DOMAIN q :
       /\ q[i].t \in {"split", "merge"} => q[i].guard \in Chan
       /\ q[i].t = "sink" => Len(q[i].in) = 1

VARIABLES
  prog,      \* the dataflow body, fixed
  phase,     \* "collect", "emit", "done" or "abort" (exit(-1))
  why,       \* the reason of the exit
  pos,       \* the element the current walk is at
  opUses,    \* channel |-> number of reads, less one
  copyUses,  \* channel |-> outputs of its COPY already handed out
  copies,    \* channel |-> number of outputs of the COPY created for it
  readers,   \* what is attached to what: [elem, slot, at]
  sinkCnt,   \* the next number for a generated sink channel
  fresh      \* the generated sink channels: [elem, slot, id]

vars == <<prog, phase, why, pos, opUses, copyUses, copies, readers, sinkCnt,
          fresh>>

Direct == -1
Endpoint == [chan : Chan, out : Int]  \* out = Direct: the channel itself

-----------------------------------------------------------------------------
(* Reads.  Slot 0 is the guard, slot k the k-th channel occurrence.        *)

SlotChan(e, k) == IF k = 0 THEN e.guard ELSE e.in[k]

\* A function names an argument once however often it occurs.
FirstOccurrence(e, k) == \A j \in 1 .. k - 1 : e.in[j] # e.in[k]

GuardSlot(e) == IF e.t \in {"split", "merge"} THEN {0} ELSE {}

BugCountedSlots(e) == DOMAIN e.in \cup GuardSlot(e)

CountedSlots(e) ==
  {k \in DOMAIN e.in : e.t \in {"func", "cluster"} => FirstOccurrence(e, k)}
    \cup GuardSlot(e)

BugRequestedSlots(e) == IF e.t = "sink" THEN {} ELSE DOMAIN e.in \cup GuardSlot(e)

RequestedSlots(e) ==
  IF e.t = "sink" THEN {}
  ELSE {k \in DOMAIN e.in : e.t \in {"func", "cluster"} => FirstOccurrence(e, k)}
         \cup GuardSlot(e)

Hits(e, slots, c) == {k \in slots : SlotChan(e, k) = c}

\* A split asks for its guard first, a merge last.
Rank(e, k) == IF k = 0 /\ e.t = "merge" THEN Len(e.in) + 1 ELSE k

AskedBefore(e, k) ==
  {j \in Hits(e, RequestedSlots(e), SlotChan(e, k)) : Rank(e, j) < Rank(e, k)}

-----------------------------------------------------------------------------
Init ==
  /\ prog \in Programs
  /\ phase = "collect" /\ why = "none" /\ pos = 1
  /\ opUses = [c \in {} |-> 0] /\ copyUses = [c \in {} |-> 0] /\ copies = [c \in {} |-> 0]
  /\ readers = {} /\ sinkCnt = 0 /\ fresh = {}

Abort(reason) ==
  /\ phase' = "abort" /\ why' = reason
  /\ UNCHANGED <<prog, pos, opUses, copyUses, copies, readers, sinkCnt, fresh>>

(* The first walk *)

At(ph) == phase = ph /\ pos \in DOMAIN prog

CollectReject(e) ==
  CASE e.t \in {"merge", "mixer", "arbiter"} /\ Len(e.in) < 2 -> "fewInputs"
    [] e.t = "cluster" /\ \E i \in DOMAIN e.parts :
         e.parts[i].t \in {"cluster", "sink"}                 -> "badCluster"
    [] e.t = "cluster" /\ \E i \in DOMAIN e.parts :
         e.parts[i].lhs = "concat"                            -> "concatInCluster"
    [] OTHER                                                  -> "none"

UsesBefore(c) == IF c \in DOMAIN opUses THEN opUses[c] ELSE -1

BugCollectElement ==
  /\ At("collect")
  /\ CollectReject(prog[pos]) = "none"
  /\ LET e == prog[pos]
         read == {SlotChan(e, k) : k \in CountedSlots(e)}
     IN  /\ opUses' = [c \in DOMAIN opUses \cup read |->
                        UsesBefore(c) + Cardinality(Hits(e, CountedSlots(e), c))]
         /\ copyUses' = [c \in DOMAIN copyUses \cup {d \in read : UsesBefore(d) >= 0} |-> 0]
  /\ pos' = pos + 1
  /\ UNCHANGED <<prog, phase, why, copies, readers, sinkCnt, fresh>>

CollectElement ==
  /\ At("collect")
  /\ CollectReject(prog[pos]) = "none"
  /\ LET e == prog[pos]
         read == {SlotChan(e, k) : k \in CountedSlots(e)}
     IN  /\ opUses' = [c \in DOMAIN opUses \cup read |->
                        UsesBefore(c) + Cardinality(Hits(e, CountedSlots(e), c))]
         /\ copyUses' = [c \in DOMAIN opUses \cup read |-> 0]
  /\ pos' = pos + 1
  /\ UNCHANGED <<prog, phase, why, copies, readers, sinkCnt, fresh>>

CollectAbort ==
  /\ At("collect")
  /\ CollectReject(prog[pos]) # "none"
  /\ Abort(CollectReject(prog[pos]))

BugCreateCopyProcs ==
  /\ phase = "collect" /\ pos \notin DOMAIN prog
  /\ copies' = [c \in {d \in DOMAIN opUses : opUses[d] > 0} |-> opUses[c]]
  /\ phase' = "emit" /\ pos' = 1
  /\ UNCHANGED <<prog, why, opUses, copyUses, readers, sinkCnt, fresh>>

CreateCopyProcs ==
  /\ phase = "collect" /\ pos \notin DOMAIN prog
  /\ copies' = [c \in {d \in DOMAIN opUses : opUses[d] > 0} |-> opUses[c] + 1]
  /\ phase' = "emit" /\ pos' = 1
  /\ UNCHANGED <<prog, why, opUses, copyUses, readers, sinkCnt, fresh>>

(* The second walk *)

BugCopyIndex(e, k) == copyUses[SlotChan(e, k)]

\* getActIdOrCopyName for slot k, the earlier slots of e already served.
CopyIndex(e, k) == copyUses[SlotChan(e, k)] + Cardinality(AskedBefore(e, k))

Allotted(e, k) ==
  [chan |-> SlotChan(e, k),
   out  |-> IF opUses[SlotChan(e, k)] > 0 THEN CopyIndex(e, k) ELSE Direct]

EmitReject(e) ==
  CASE \E k \in RequestedSlots(e) : SlotChan(e, k) \notin DOMAIN opUses
         -> "unknownUses"
    [] \E k \in RequestedSlots(e) : /\ opUses[SlotChan(e, k)] > 0
                                    /\ CopyIndex(e, k) > opUses[SlotChan(e, k)]
         -> "overused"
    [] e.t \in {"func", "cluster"} /\ \E i \in DOMAIN e.parts :
         e.parts[i].t = "func" /\ e.parts[i].lhs = "int" /\ e.parts[i].buf
         -> "constBuffer"
    [] e.t = "cluster" /\ \E i \in DOMAIN e.parts : e.parts[i].t # "func"
         -> "badCluster"
    [] e.t \in {"mixer", "arbiter"} /\ e.out[2] = NoChan
         -> "noControl"
    [] e.t \in {"mixer", "arbiter"} /\ LogicOptimizer
         -> "noMetric"
    [] OTHER -> "none"

Serve(e) ==
  /\ readers' = readers \cup
       {[elem |-> pos, slot |-> k, at |-> Allotted(e, k)] : k \in RequestedSlots(e)}
  /\ copyUses' = [c \in DOMAIN copyUses |->
       IF opUses[c] > 0
       THEN copyUses[c] + Cardinality(Hits(e, RequestedSlots(e), c))
       ELSE copyUses[c]]
  /\ pos' = pos + 1
  /\ UNCHANGED <<prog, phase, why, opUses, copies>>

Plainly(kinds) ==
  /\ At("emit")
  /\ prog[pos].t \in kinds
  /\ EmitReject(prog[pos]) = "none"
  /\ Serve(prog[pos])
  /\ UNCHANGED <<sinkCnt, fresh>>

EmitFunc == Plainly({"func"})
EmitCluster == Plainly({"cluster"})
EmitMerge == Plainly({"merge"})
EmitMixer == Plainly({"mixer", "arbiter"})

BugEmitSplit ==
  /\ At("emit")
  /\ prog[pos].t = "split"
  /\ EmitReject(prog[pos]) = "none"
  /\ LET e == prog[pos]
         null == {k \in DOMAIN e.out : e.out[k] = NoChan}
     IN  fresh' = fresh \cup
           {[elem |-> pos, slot |-> k,
             id |-> sinkCnt + Cardinality({j \in null : j < k})] : k \in null}
  /\ Serve(prog[pos])
  /\ UNCHANGED sinkCnt

EmitSplit ==
  /\ At("emit")
  /\ prog[pos].t = "split"
  /\ EmitReject(prog[pos]) = "none"
  /\ LET e == prog[pos]
         null == {k \in DOMAIN e.out : e.out[k] = NoChan}
     IN  /\ fresh' = fresh \cup
              {[elem |-> pos, slot |-> k,
                id |-> sinkCnt + Cardinality({j \in null : j < k})] : k \in null}
         /\ sinkCnt' = sinkCnt + Cardinality(null)
         /\ Serve(e)

\* The sink is attached by getActIdName: it is counted, but asks for no copy.
EmitSink ==
  /\ At("emit")
  /\ prog[pos].t = "sink"
  /\ readers' = readers \cup
       {[elem |-> pos, slot |-> k, at |-> [chan |-> prog[pos].in[k], out |-> Direct]]
          : k \in DOMAIN prog[pos].in}
  /\ pos' = pos + 1
  /\ UNCHANGED <<prog, phase, why, opUses, copyUses, copies, sinkCnt, fresh>>

EmitAbort ==
  /\ At("emit")
  /\ EmitReject(prog[pos]) # "none"
  /\ Abort(EmitReject(prog[pos]))

Finish ==
  /\ phase = "emit" /\ pos \notin DOMAIN prog
  /\ phase' = "done"
  /\ UNCHANGED <<prog, why, pos, opUses, copyUses, copies, readers, sinkCnt, fresh>>

Next ==
  \/ CollectElement \/ CollectAbort \/ CreateCopyProcs
  \/ EmitFunc \/ EmitCluster \/ EmitMerge \/ EmitMixer \/ EmitSplit \/ EmitSink
  \/ EmitAbort \/ Finish

Spec == Init /\ [][Next]_vars
-----------------------------------------------------------------------------
(* What the two walks must agree on.                                       *)

TypeOK ==
  /\ prog \in Seq(Element)
  /\ phase \in {"collect", "emit", "done", "abort"}
  /\ why \in {"none", "fewInputs", "badCluster", "concatInCluster",
              "unknownUses", "overused", "constBuffer", "noControl", "noMetric"}
  /\ pos \in 1 .. Len(prog) + 1
  /\ DOMAIN opUses \subseteq Chan /\ opUses \in [DOMAIN opUses -> Nat]
  /\ copyUses \in [DOMAIN opUses -> Nat]
  /\ DOMAIN copies \subseteq DOMAIN opUses /\ copies \in [DOMAIN copies -> Nat]
  /\ readers \subseteq [elem : Nat, slot : Nat, at : Endpoint]
  /\ sinkCnt \in Nat
  /\ fresh \subseteq [elem : Nat, slot : Nat, id : Nat]

\* The exits "We use %s more than total uses!" and "We don't know how many
\* times %s is used!" are dead code: whatever the order of the elements and
\* however often one names a channel, the second walk asks for at most as many
\* outputs as the first walk counted reads.
NeverOverused == why \notin {"overused", "unknownUses"}

SinksOf(c) == {i \in DOMAIN prog : prog[i].t = "sink" /\ \E k \in DOMAIN prog[i].in : prog[i].in[k] = c}

\* Two reads are never attached to the same end of a channel or to the same
\* output of a COPY (getCopyUses hands an output out once) and, once a COPY
\* reads a channel, nobody else does; only sinks escape this.
OneReader ==
  \A r \in readers :
    prog[r.elem].t # "sink" =>
      /\ r.at.chan \in DOMAIN copies => r.at.out # Direct
      /\ \A s \in readers : s.at = r.at => s = r

\* No read is attached to an output its COPY does not have.
EndpointExists ==
  \A r \in readers : r.at.out # Direct =>
    r.at.chan \in DOMAIN copies /\ r.at.out \in 0 .. copies[r.at.chan] - 1

\* A finished process leaves an output of a COPY unread (its COPY would wait
\* on it for ever) only for a sink of the channel, exactly one for each.
OutputsRead ==
  phase = "done" =>
    \A c \in DOMAIN copies :
      Cardinality({k \in 0 .. copies[c] - 1 :
                     \A r \in readers : r.at # [chan |-> c, out |-> k]})
        = Cardinality(SinksOf(c))

\* sinkCnt is shared by the splits of a process: every "*" output gets a
\* channel of its own, numbered without gaps.
SinksDistinct ==
  /\ \A f, g \in fresh : f.id = g.id => f = g
  /\ {f.id : f \in fresh} = 0 .. sinkCnt - 1

\* ProcGenerator.h: a channel "used for more than once" gets a COPY for its
\* uses.  So every read of a copied channel is attached to the COPY.
ReadsGoThroughCopy ==
  \A r \in readers : r.at.chan \in DOMAIN copies => r.at.out # Direct

\* README.md: the configuration file specifies the performance of each CHP
\* process.  So no process, a mixer or an arbiter with its control output
\* either, is without the metric that its entry is printed from.
EachProcessConfigured == why # "noMetric"

\* The walks implement Fanout: laying out is createCopyProcs, an end is the
\* channel itself or an output of its COPY.
AbstractStage ==
  CASE phase = "collect" -> "counting"
    [] phase = "emit"    -> "attaching"
    [] phase = "done"    -> "closed"
    [] OTHER             -> "failed"

Wanted ==
  UNION {{[elem |-> i, slot |-> k, chan |-> SlotChan(prog[i], k)] :
            k \in CountedSlots(prog[i])} : i \in DOMAIN prog}

LaidOut ==
  IF phase \in {"collect", "abort"} THEN {}
  ELSE UNION {IF c \in DOMAIN copies
              THEN {[chan |-> c, out |-> k] : k \in 0 .. copies[c] - 1}
              ELSE {[chan |-> c, out |-> Direct]} : c \in DOMAIN opUses}

F == INSTANCE Fanout WITH stage <- AbstractStage, wanted <- Wanted,
                          ends <- LaidOut, held <- readers

\* A channel that is sunk is read by nothing else: without this a sink and a
\* COPY read one channel (ReadsGoThroughCopy), and Fanout is not implemented.
UnsharedSinks ==
  \A q \in Programs : \A i, j \in DOMAIN q :
    (q[i].t = "sink" /\ i # j) =>
      q[i].in[1] \notin {SlotChan(q[j], k) : k \in CountedSlots(q[j])}

\* The walks do what Fanout promises when no sink shares its channel: every
\* read gets an end of its own, and no end is left over at the end.
FanoutSpec == F!Spec
=============================================================================
