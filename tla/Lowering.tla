------------------------------ MODULE Lowering ------------------------------
(***************************************************************************)
(* From the expressions of a func or of a cluster to the program of its    *)
(* functional unit.  printExpr walks an expression and DflowGenerator      *)
(* collects, call by call, the arguments, the statements with the widths   *)
(* of their results, and, for the logic optimizer, the same calculation as *)
(* hidden expressions.  ChpLibGenerator then prints the unit as a process, *)
(* once for each name.                                                     *)
(*                                                                         *)
(* The name of a process is its expressions with the identifiers numbered, *)
(* which is the form they have here (module Expressions).                  *)
(***************************************************************************)
EXTENDS Expressions

CONSTANTS
  Bodies,        \* sequences of units [exprs, inBW, outBW]
  MAX_PROCESSES  \* names the library remembers as printed: 500 in common.h

ASSUME BodyAssumption ==
  /\ MAX_PROCESSES \in Nat
  /\ \A b \in Bodies : b \in Seq({b[i] : i \in DOMAIN b})
  /\ \A b \in Bodies : \A i \in DOMAIN b :
       /\ b[i].exprs \in Seq(Exprs) /\ b[i].outBW \in Seq(Nat \ {0})
       /\ Len(b[i].exprs) = Len(b[i].outBW)
       /\ \A j \in DOMAIN b[i].exprs :  \* a constant comes as a literal
            UnderCasts[b[i].exprs[j]].op = "int" => b[i].exprs[j].op = "int"
       /\ b[i].inBW \in Seq(Nat \ {0})
       /\ \A j \in DOMAIN b[i].exprs : Identifiers[b[i].exprs[j]] \subseteq DOMAIN b[i].inBW

VARIABLES
  body,     \* the units of the translated process
  unit,     \* the unit being generated
  part,     \* its dataflow element being lowered
  todo,     \* the calls of printExpr to make and to return from, next first
  names,    \* the names returned to callers that still wait for another
  resBW,    \* the cells resBW and cBW in scope, the innermost last
  resSuffix,
  gen,      \* DflowGenerator: [argList, argBW, resBWList, calc, hidden]
  outs,     \* outRecord, outBWList: output |-> [res, bw], res<res> is sent on it
  processes,   \* the names remembered as printed
  chpLib,      \* the processes printed: [name, of, resBWList, calc, outs]
  instances,   \* the units printed: [name, of, gen, outs, instance]
  failed    \* the run has given up

genVars == <<resSuffix, gen>>
libVars == <<processes, chpLib, instances>>
vars == <<body, unit, part, todo, names, resBW, genVars, outs, libVars, failed>>

EmptyGen == [argList |-> <<>>, argBW |-> <<>>, resBWList |-> <<>>, calc |-> <<>>,
             hidden |-> <<>>]

Init ==
  /\ body \in Bodies
  /\ unit = 1 /\ part = 1 /\ todo = <<>> /\ names = <<>> /\ resBW = <<>>
  /\ resSuffix = -1 /\ gen = EmptyGen /\ outs = <<>>
  /\ processes = <<>> /\ chpLib = <<>> /\ instances = <<>> /\ failed = FALSE

Call(e) == [do |-> "call", e |-> e, key |-> 0]
Emit(e, key) == [do |-> "emit", e |-> e, key |-> key]
EndCondition(e) == [do |-> "end", e |-> e, key |-> 0]

Next1 == Head(todo)
At(do, ops) == /\ ~failed /\ todo # <<>>
               /\ Next1.do = do /\ Next1.e.op \in ops

Calls(q) == [i \in DOMAIN q |-> Call(q[i])]
Width == resBW[Len(resBW)]

\* The names returned by the last k calls.
Operands(k) == SubSeq(names, Len(names) - k + 1, Len(names))
Return(k, name) == names' = Append(SubSeq(names, 1, Len(names) - k), name)

\* What the optimizer is given as the operands.  For a concatenation that is a
\* list of which only the first node has been given a type, and which ends in
\* a node with nothing in it: both hold what the memory held.
Unset == <<"unset", 0>>
Untyped(name) == <<"untyped", name>>
Listed(op, operands) ==
  IF op = "concat"
  THEN [i \in 1 .. Len(operands) + 1 |->
          IF i = 1 THEN operands[1]
          ELSE IF i \in DOMAIN operands THEN Untyped(operands[i]) ELSE Unset]
  ELSE operands

BugGenerate(to, key, op, operands, w) ==
  LET told == IF op = "query" THEN <<operands[1], operands[3], operands[2]>> ELSE operands
  IN  gen' = [gen EXCEPT
        !.calc = Append(@, [to |-> to, op |-> op, args |-> operands]),
        !.resBWList = Append(@, w),
        !.hidden = [k \in DOMAIN @ \cup {key} |->
          IF k \in DOMAIN @ THEN @[k] ELSE [op |-> op, args |-> Listed(op, told), bw |-> w]]]

\* The statement res<to> := op(operands), and what the optimizer is told of
\* res<key>.
Generate(to, key, op, operands, w) ==
  gen' = [gen EXCEPT
    !.calc = Append(@, [to |-> to, op |-> op, args |-> operands]),
    !.resBWList = Append(@, w),
    !.hidden = [k \in DOMAIN @ \cup {key} |->
      IF k \in DOMAIN @ THEN @[k] ELSE [op |-> op, args |-> Listed(op, operands), bw |-> w]]]

-----------------------------------------------------------------------------
(* printExpr. *)

CallInt ==
  /\ At("call", {"int"})
  /\ Return(0, <<"int", Next1.e.n>>)
  /\ todo' = Tail(todo)
  /\ UNCHANGED <<body, unit, part, resBW, genVars, outs, libVars, failed>>

BugCallVar ==
  /\ At("call", {"var"})
  /\ gen' = [gen EXCEPT !.argList = Append(@, Next1.e.n),
                        !.argBW = Append(@, body[unit].inBW[Next1.e.n])]
  /\ Return(0, <<"x", Len(gen.argList) - 1>>)
  /\ todo' = Tail(todo)
  /\ UNCHANGED <<body, unit, part, resBW, resSuffix, outs, libVars, failed>>

\* handleEVar: an identifier becomes an argument once.
CallVar ==
  LET id == Next1.e.n
      old == {i \in DOMAIN gen.argList : gen.argList[i] = id}
  IN  /\ At("call", {"var"})
      /\ IF old = {}
         THEN /\ gen' = [gen EXCEPT !.argList = Append(@, id),
                                    !.argBW = Append(@, body[unit].inBW[id])]
              /\ Return(0, <<"x", Len(gen.argList)>>)
         ELSE /\ Return(0, <<"x", (CHOOSE i \in old : TRUE) - 1>>)
              /\ UNCHANGED gen
      /\ todo' = Tail(todo)
      /\ UNCHANGED <<body, unit, part, resBW, resSuffix, outs, libVars, failed>>

\* int(e, n): n counts only while resBW is 0, and it never is.
CallCast ==
  /\ At("call", {"cast"})
  /\ todo' = Calls(Next1.e.args) \o Tail(todo)
  /\ UNCHANGED <<body, unit, part, names, resBW, genVars, outs, libVars, failed>>

CallBool ==
  /\ At("call", {"bool"})
  /\ resBW' = [resBW EXCEPT ![Len(resBW)] = 1]
  /\ todo' = Calls(Next1.e.args) \o Tail(todo)
  /\ UNCHANGED <<body, unit, part, names, genVars, outs, libVars, failed>>

CallOperator ==
  /\ At("call", Operators)
  /\ todo' = Calls(Next1.e.args) \o <<Emit(Next1.e, 0)>> \o Tail(todo)
  /\ UNCHANGED <<body, unit, part, names, resBW, genVars, outs, libVars, failed>>

EmitOperator ==
  LET e == Next1.e
  IN  /\ At("emit", Operators)
      /\ resSuffix' = resSuffix + 1
      /\ Generate(resSuffix + 1, resSuffix + 1, e.op, Operands(Len(e.args)), Width)
      /\ Return(Len(e.args), <<"res", resSuffix + 1>>)
      /\ todo' = Tail(todo)
      /\ UNCHANGED <<body, unit, part, resBW, outs, libVars, failed>>

BugCallQuery ==
  LET e == Next1.e
  IN  /\ At("call", {"query"})
      /\ resBW' = Append(resBW, 1)
      /\ todo' = Calls(e.args) \o <<EndCondition(e), Emit(e, 0)>> \o Tail(todo)
      /\ UNCHANGED <<body, unit, part, names, genVars, outs, libVars, failed>>

\* The condition is lowered with a width cell of its own.
CallQuery ==
  LET e == Next1.e
  IN  /\ At("call", {"query"})
      /\ resBW' = Append(resBW, 1)
      /\ todo' = <<Call(e.args[1]), EndCondition(e), Call(e.args[2]), Call(e.args[3]),
                   Emit(e, 0)>> \o Tail(todo)
      /\ UNCHANGED <<body, unit, part, names, genVars, outs, libVars, failed>>

ReturnCondition ==
  /\ At("end", {"query"})
  /\ resBW' = SubSeq(resBW, 1, Len(resBW) - 1)
  /\ todo' = Tail(todo)
  /\ UNCHANGED <<body, unit, part, names, genVars, outs, libVars, failed>>

EmitQuery ==
  /\ At("emit", {"query"})
  /\ Operands(3)[2] # Operands(3)[3]
  /\ resSuffix' = resSuffix + 1
  /\ Generate(resSuffix + 1, resSuffix + 1, "query", Operands(3), Width)
  /\ Return(3, <<"res", resSuffix + 1>>)
  /\ todo' = Tail(todo)
  /\ UNCHANGED <<body, unit, part, resBW, outs, libVars, failed>>

\* "This query expr has the same true/false branch!"
RejectQuery ==
  /\ At("emit", {"query"})
  /\ Operands(3)[2] = Operands(3)[3]
  /\ failed' = TRUE
  /\ UNCHANGED <<body, unit, part, todo, names, resBW, genVars, outs, libVars>>

\* EMIT_CONCAT takes its result's name before it lowers the operands ...
CallConcat ==
  LET e == Next1.e
  IN  /\ At("call", {"concat"})
      /\ resSuffix' = resSuffix + 1
      /\ todo' = Calls(e.args) \o <<Emit(e, resSuffix + 1)>> \o Tail(todo)
      /\ UNCHANGED <<body, unit, part, names, resBW, gen, outs, libVars, failed>>

\* ... and prints the statement with the suffix they have reached.
EmitConcat ==
  LET e == Next1.e
  IN  /\ At("emit", {"concat"})
      /\ Generate(resSuffix, Next1.key, "concat", Operands(Len(e.args)), Width)
      /\ Return(Len(e.args), <<"res", Next1.key>>)
      /\ todo' = Tail(todo)
      /\ UNCHANGED <<body, unit, part, resBW, resSuffix, outs, libVars, failed>>

-----------------------------------------------------------------------------
(* handleDFlowFunc, for each element, and printDFlowFunc. *)

Root == body[unit].exprs[part]
Between == ~failed /\ unit <= Len(body) /\ todo = <<>> /\ names = <<>>

\* A literal alone becomes a source beside the functional unit.
CreateSource ==
  /\ Between /\ part <= Len(body[unit].exprs) /\ Root.op = "int"
  /\ part' = part + 1
  /\ UNCHANGED <<body, unit, todo, names, resBW, genVars, outs, libVars, failed>>

LowerPart ==
  /\ Between /\ part <= Len(body[unit].exprs) /\ Root.op # "int"
  /\ todo' = <<Call(Root)>>
  /\ resBW' = <<body[unit].outBW[part]>>
  /\ UNCHANGED <<body, unit, part, names, genVars, outs, libVars, failed>>

\* The expression under the casts is an identifier.
OnlyVar(e) == UnderCasts[e].op = "var"

BugEndPart ==
  /\ ~failed /\ todo = <<>> /\ names # <<>>
  /\ UNCHANGED genVars
  /\ outs' = Append(outs, [res |-> resSuffix, bw |-> body[unit].outBW[part]])
  /\ part' = part + 1 /\ names' = <<>> /\ resBW' = <<>>
  /\ UNCHANGED <<body, unit, todo, libVars, failed>>

\* handlePort copies a lone identifier; the output sends the last result.
EndPart ==
  /\ ~failed /\ todo = <<>> /\ names # <<>>
  /\ IF OnlyVar(Root)
     THEN /\ resSuffix' = resSuffix + 1
          /\ Generate(resSuffix + 1, resSuffix + 1, "port", names, Width)
     ELSE UNCHANGED genVars
  /\ outs' = Append(outs, [res |-> resSuffix', bw |-> body[unit].outBW[part]])
  /\ part' = part + 1 /\ names' = <<>> /\ resBW' = <<>>
  /\ UNCHANGED <<body, unit, todo, libVars, failed>>

Remembered(name) == \E i \in DOMAIN processes : processes[i] = name

BugRemember(name) ==
  processes' = IF Remembered(name) \/ Len(processes) + 1 >= MAX_PROCESSES
               THEN processes ELSE Append(processes, name)

\* checkAndUpdateProcess: a full table forgets the name.
Remember(name) ==
  processes' = IF Remembered(name) \/ Len(processes) >= MAX_PROCESSES
               THEN processes ELSE Append(processes, name)

\* func_<expressions>, the identifiers numbered as they are met.
ProcName(u) == u.exprs

BugFUName(u, argBW, q) == [proc |-> ProcName(u), args |-> <<>>, outs |-> [i \in DOMAIN q |-> q[i].bw]]

\* <process><widths of the arguments, widths of the outputs>
FUName(u, argBW, q) ==
  [proc |-> ProcName(u), args |-> argBW, outs |-> [i \in DOMAIN q |-> q[i].bw]]

\* A unit without statements prints nothing.
PrintUnit ==
  LET name == ProcName(body[unit])
  IN  /\ Between /\ part > Len(body[unit].exprs)
      /\ IF gen.calc = <<>> THEN UNCHANGED libVars
         ELSE /\ Remember(name)
              /\ chpLib' = IF Remembered(name) THEN chpLib
                   ELSE Append(chpLib, [name |-> name, resBWList |-> gen.resBWList,
                                        calc |-> gen.calc, outs |-> outs, of |-> unit])
              /\ instances' = Append(instances,
                   [name |-> name, of |-> unit, gen |-> gen, outs |-> outs,
                    instance |-> FUName(body[unit], gen.argBW, outs)])
      /\ unit' = unit + 1 /\ part' = 1
      /\ resSuffix' = -1 /\ gen' = EmptyGen /\ outs' = <<>>
      /\ UNCHANGED <<body, todo, names, resBW, failed>>

Next ==
  \/ CallInt \/ CallVar \/ CallCast \/ CallBool \/ CallOperator \/ CallQuery
  \/ CallConcat \/ EmitOperator \/ ReturnCondition \/ EmitQuery \/ RejectQuery
  \/ EmitConcat \/ CreateSource \/ LowerPart \/ EndPart \/ PrintUnit

Spec == Init /\ [][Next]_vars
-----------------------------------------------------------------------------
\* A result name has a width before it is printed, but for the results that
\* concatenations have reserved; an argument name has an argument.
Concats == {i \in DOMAIN todo : todo[i].do = "emit" /\ todo[i].e.op = "concat"}
Reserved == {todo[i].key : i \in Concats}
NameOK(name) ==
  \/ name[1] = "x" /\ name[2] \in 0 .. Len(gen.argList) - 1
  \/ name[1] = "res" /\ name[2] \in 0 .. resSuffix
  \/ name[1] = "int" /\ name[2] \in Nat

TypeOK ==
  /\ Len(gen.resBWList) + Cardinality(Reserved) = resSuffix + 1
  /\ Len(gen.calc) = Len(gen.resBWList) /\ DOMAIN gen.hidden \subseteq 0 .. resSuffix
  /\ Len(gen.argList) = Len(gen.argBW)
  /\ \A i \in DOMAIN names : NameOK(names[i])
  /\ \A i \in DOMAIN outs : outs[i].res \in 0 .. resSuffix

\* The evaluation of what was printed is due when a unit has been printed.
Printed == unit > 1 /\ part = 1 /\ todo = <<>> /\ gen = EmptyGen
Unit(u) == body[u.of]
Calculates(u) == {p \in DOMAIN Unit(u).exprs : Unit(u).exprs[p].op # "int"}
OutputOf(u, p) == Cardinality({q \in Calculates(u) : q <= p})

\* No concatenation has an operand that is itself calculated.
Straight(calc) ==
  \A k \in DOMAIN calc : calc[k].op = "concat" =>
    \A i \in DOMAIN calc[k].args : calc[k].args[i][1] # "res"

\* The statements assign their results once, and read and send those that
\* are assigned.
Sequenced(calc, sent) ==
  LET Before(k) == {calc[i].to : i \in 1 .. k - 1}
  IN  /\ \A k \in DOMAIN calc :
           /\ calc[k].to \notin Before(k)
           /\ \A i \in DOMAIN calc[k].args :
                calc[k].args[i][1] = "res" => calc[k].args[i][2] \in Before(k)
      /\ \A i \in DOMAIN sent : sent[i].res \in Before(Len(calc) + 1)

\* Every result of the printed program is assigned once, and before it is
\* read by a statement or sent (unless a concatenation has a calculated
\* operand).
SingleAssignment ==
  Printed => \A n \in DOMAIN instances :
    Straight(instances[n].gen.calc) => Sequenced(instances[n].gen.calc, instances[n].outs)

\* The values of the arguments of unit u, and those its expressions may take.
Inputs(u) ==
  LET bw == Unit(u).inBW
  IN  {x \in [DOMAIN bw -> UNION {0 .. Pow2[bw[i]] - 1 : i \in DOMAIN bw}] :
         \A i \in DOMAIN bw : x[i] < Pow2[bw[i]]}

Lookup(name, args, res) ==
  CASE name[1] = "x" -> args[name[2] + 1] [] name[1] = "res" -> res[name[2]]
    [] OTHER -> name[2]
Widths(name, argBW, bw) ==
  CASE name[1] = "x" -> argBW[name[2] + 1] [] name[1] = "res" -> bw[name[2]]
    [] OTHER -> BitsOf(name[2])

\* What the statements of process p leave in its results, for unit u.
Executed(p, u, x) ==
  LET args == [i \in DOMAIN u.gen.argList |-> x[u.gen.argList[i]]]
      bw == [k \in 0 .. Len(p.resBWList) - 1 |-> p.resBWList[k + 1]]
      res[k \in 0 .. Len(p.calc)] ==
        IF k = 0 THEN [i \in DOMAIN bw |-> 0]
        ELSE LET s == p.calc[k]
                 before == res[k - 1]
                 v == [i \in DOMAIN s.args |-> Lookup(s.args[i], args, before)]
                 w == [i \in DOMAIN s.args |-> Widths(s.args[i], u.gen.argBW, bw)]
             IN  [before EXCEPT ![s.to] = Apply(s.op, v, w) % Pow2[bw[s.to]]]
  IN  res[Len(p.calc)]

\* What the hidden expressions of unit u, which the netlist is made of, give; no
\* meaning is given to a concatenation, whose list is not all set.
Concatenates(calc) == \E k \in DOMAIN calc : calc[k].op = "concat"
Optimized(u, x) ==
  LET args == [i \in DOMAIN u.gen.argList |-> x[u.gen.argList[i]]]
      h == u.gen.hidden
      bw == [k \in DOMAIN h |-> h[k].bw]
      res[k \in DOMAIN h] ==
        Apply(h[k].op,
              [i \in DOMAIN h[k].args |->
                 IF h[k].args[i][1] = "res" THEN res[h[k].args[i][2]]
                 ELSE Lookup(h[k].args[i], args, <<>>)],
              [i \in DOMAIN h[k].args |-> Widths(h[k].args[i], u.gen.argBW, bw)]) % Pow2[bw[k]]
  IN  res

ProcessOf(u) == chpLib[CHOOSE i \in DOMAIN chpLib :
                  chpLib[i].name = u.name /\ \A j \in 1 .. i - 1 : chpLib[j].name # u.name]

\* The CHP program printed for a unit and the expressions its netlist is
\* synthesized from agree on every output for every input.  A unit with a
\* concatenation is excepted: what its netlist calculates is undefined.
NetlistAgrees ==
  Printed => \A n \in DOMAIN instances :
    LET u == instances[n]
        own == [resBWList |-> u.gen.resBWList, calc |-> u.gen.calc]
    IN  ~Concatenates(u.gen.calc) =>
          \A x \in Inputs(u) : \A i \in DOMAIN u.outs :
            Executed(own, u, x)[u.outs[i].res] = Optimized(u, x)[u.outs[i].res]

\* Units of one instance name are the same circuit, up to what the unset nodes
\* of a concatenation hold: metrics and cached netlists are looked up by that
\* name alone.
NameDeterminesNetlist ==
  \A m, n \in DOMAIN instances :
    instances[m].instance = instances[n].instance =>
      /\ instances[m].gen.hidden = instances[n].gen.hidden
      /\ instances[m].gen.argBW = instances[n].gen.argBW
      /\ instances[m].outs = instances[n].outs

\* The widths in which an output can be calculated without losing its value:
\* its own, and one bit where its expression starts with bool.
KeepsPart(e, inBW, w) ==
  \/ Keeps(inBW, w)[e]
  \/ e.op = "bool" /\ WidthOf(inBW)[e.args[1]] = 1 /\ Exact(inBW, 1)[e.args[1]]

\* An instance sends on an output what its expression means, in the bits of
\* the output, whenever the width of the output is enough for the operators
\* inside and the printed process, made for the first instance of that name,
\* is as wide.
ComputesExpression ==
  Printed => \A n \in DOMAIN instances :
    LET u == instances[n]
        p == ProcessOf(u)
    IN  \A q \in Calculates(u) :
          LET e == Unit(u).exprs[q]
              w == Unit(u).outBW[q]
              wide == body[p.of].outBW[q]
              res == p.outs[OutputOf(u, q)].res
          IN  (w <= wide /\ KeepsPart(e, Unit(u).inBW, wide)) =>
                \A x \in Inputs(u) :
                  Executed(p, u, x)[res] % Pow2[w] = ValueOf(Unit(u).inBW, x)[e] % Pow2[w]

\* What the test programs expect: every output carries the value of its
\* expression, also when a comparison of wide operands leaves in one bit.
ComputesEveryOutput ==
  Printed => \A n \in DOMAIN instances :
    LET u == instances[n]
    IN  \A q \in Calculates(u) : \A x \in Inputs(u) :
          Executed(ProcessOf(u), u, x)[u.outs[OutputOf(u, q)].res] % Pow2[Unit(u).outBW[q]] =
            ValueOf(Unit(u).inBW, x)[Unit(u).exprs[q]] % Pow2[Unit(u).outBW[q]]

\* A process is printed once, until more names are in use than are remembered.
PrintedOnce ==
  \A i, j \in DOMAIN chpLib :
    (i < j /\ chpLib[i].name = chpLib[j].name) =>
      Cardinality({chpLib[k].name : k \in DOMAIN chpLib}) > MAX_PROCESSES
=============================================================================
