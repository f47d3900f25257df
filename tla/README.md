# dflowmap: specifications, model checking and proofs

dflowmap translates the dataflow bodies of an ACT program into a circuit of CHP
processes. This directory holds TLA+ models of what is hard to get right in it,
the TLC runs that check them and TLAPS proofs. Paths are those of the
repository; `core/`, `backend/` and `common/` stand under `src/`.

## 1. Inventory

| component | state it keeps | operations | what makes it correct |
|---|---|---|---|
| Copy allocation (`core/ProcGenerator`) | `opUses`, `copyUses`, `sinkCnt` | `collectOpUses`, `createCopyProcs`, the second walk | every read of a channel gets an end of its own, no end of a COPY is left over |
| Expression lowering (`printExpr`, `core/DflowGenerator`) | arguments, result suffix, result widths, text of the calculation | `EMIT_BIN/UNI/QUERY/CONCAT`, `handleEVar` | a name is assigned before it is used, with a width that holds its value |
| Printed circuit (`backend/chp/ChpGenerator`, `ChpLibGenerator`, `dflow_std/dflow_stdlib.act`) | none while printing; at work, one CHP program per process | source, sink, onebuf, init, copy, merge, split, mixer, arbiter, functional unit | computes what the dataflow body means, at any relative speed, and does not lock up |
| Library tables (`ChpLibGenerator`) | `processes`, `instances` (500 entries) | `checkAndUpdateProcess/Instance`, `printConf` | a name is printed once, and fits all its uses |
| Metrics store (`core/Metrics`, `main.cc`) | `opMetrics`, `cachedMetrics`, the metric files and netlists of `customF` and `.dflow_cache` | reading, fetching, optimizing, recording, `-i` | a record is never without its netlist, the files never contradict each other |
| Metrics of the units, statistics (`core/Metrics`) | `opMetrics`, sums per instance | `getOrGen...Metric`, `updateStatistics`, `dump` | one instance has one metric, whatever path it came by; the report adds up |
| Names (`NameGenerator`) | none | one function per kind of unit | one name is one circuit |
| Helpers, dispatch (`Helper`, `ChpBackend`) | none | formatting, one call per backend | |
| Pass over the processes (`DflowMapPass`, `main`) | output files | one `run()` per process | |
| ACT front end, expression optimizer, netlist backend | external | | |

How they interact: `main` opens the files and the store, the pass calls
`ProcGenerator::run` on every process, which walks the body twice and calls
`ChpBackend` for each element; the backend prints an instance, once per name a
library process and a configuration entry; metrics are looked up on the way.
The translator is sequential. What is concurrent is what it prints, and the runs
of it that share a cache directory; what can fail half way is a run.

## 2. Plan

Written, in this order:

1. `ProcGen` with `Fanout` (what its two walks promise) and `ProcGenProofs`.
2. `ChpNet` (the circuit at work; it extends `ProcGen`) with `Dataflow` (what a
   body means) and `CircuitProofs`.
3. `MetricsStore` with `MetricsStoreProofs` (files and netlists across runs).
4. `Lowering` with `Expressions` (what an expression means), `LoweringProofs`,
   `NetlistProofs` and `ComputationProofs`: the program of a functional unit, what the
   optimizer is told of it, what it calculates, and the table of printed processes.
5. `UnitMetrics` with `UnitMetricsProofs`: the metric of every unit, over several runs,
   the table of configured instances and the report.

`Bits` holds the powers of two, `Recursion` what the proofs need to know about recursive
functions and these powers.

Every safety invariant and action property that a passing run checks is proved too
(section 6); `Delivers`, which is liveness, is not.

## 3. Modules

### ProcGen, Fanout

`Next` has one action per case of the two walks. `CollectElement` is
`collectOpUses` of one element, `CreateCopyProcs` what stands between the walks,
`EmitFunc`, `EmitSplit`, `EmitMerge`, `EmitMixer`, `EmitCluster` and `EmitSink`
the branches of `handleNormDflowElement` and `handleDFlowCluster`;
`CollectAbort` and `EmitAbort` are the exits, whose reason goes to `why`.
`opUses` holds the uses less one, as the code does. `getActIdOrCopyName` is
`Allotted`: `CopyIndex` is what `getCopyUses` returns for a slot once the slots
asked before it within the element have been served, `Rank` their order. An
expression is the sequence of channels its variables name. `readers` is what has
been printed: which slot of which element is attached to which end. `Fanout`
says what the walks promise together, in terms of ends and reads, with no
counters in it.

### ChpNet, Dataflow

`Translate` is `ProcGen`'s `Next`; `PowerUp` turns its result into processes and
wires (`Circuit`), and `Work` runs them. `UnitsOf`, `BuffersOf` and `CopyTree`
are the instances `printFUChp`, `printBuffChp` and the `copy` template create.
`wire[w]` holds the value a sender offers until the receiver takes it, which is
the CHP channel: `c!v` ends when `c?x` does, and a probe sees the value before
that. A process that stores (`Storing`) receives each input in a step of its own
(`Receive`) and then offers its outputs together (`Send`), which is all it may
do until they have been read. An `unpipe_` process looks at its inputs, forwards
(`Select`) and only when the value was read acknowledges them (`Release`).
`Supply` and `Drain` are the environment.

A COPY tree is written as its levels. `Level` follows `createFullCopyTree` in one
number, the leaves of a level, from `Outputs` at the bottom up to the one leaf of the
`Root`, and `CopyTree` is the union of the levels. A buffer's initial token is the
first of its channel's history (`FirstTokens`).

The front end hands over bodies of a certain shape, and the theorems about the circuit
name it: one driver of a channel (`SingleDrivers`), the ports each kind of element has
(`ElementShapes`), an initial value only with a buffer (`SoundBuffers`), together
`Bodies`; data ports of one width at a selection (`Widths`), and values that fit their
channels (`SoundValues`); and `WideControls`, below. `MCChpNet` assumes these of its own
bodies, which TLC evaluates, but for what `SoundValues` says of the calculation for all
naturals.

`Dataflow` is the abstract specification: a channel is the history of its
tokens, a read is a position in it, an element fires in one step. Refinement is
by the history variables `hist`, `used` and `delivered`, which `Note` updates
when a process sends: COPY trees, buffers, wires and widths do not exist up there.

Values have a width where the code holds one in a variable that is not of its
channel's width, and there is one such place. `pipe_mixer` and `pipe_arbiter` receive
their datum into `int<W2> x`, where `W2` is the width of the control output
(`dflow_stdlib.act:105,128`): `Receive` keeps what fits (`Holds`, `Narrow`), and the
choice is sent in the same width. Every other variable of the library and of a
functional unit has its channel's width; that the calculation of a unit gives a value of
that width is part of what is asked of `Compute`. So `ImplementsDataflow` is not true of
every body in the pipelined build: `WideControls` says that a control can tell the inputs
apart and, where a build holds the datum in its width, is as wide as the data.

### MetricsStore

A run of a workload is `Launch`, optionally `RemoveCache` and `RemoveLocal` for
`-i` (file by file), `ReadMetrics`, then for each element of the program one of
`Known` (opMetrics), `Fetch`/`Fetched` (cached, the netlist is copied),
`Optimize`, `Optimized`, `Fill`, `Filled` (the optimizer, and the copy into the
cache) or `Derive` (units computed from the standard metrics, which never look
into the cache), then `AppendLocal` and `AppendCache`. Each write of a file is a
step, and a file being written is `"torn"`. `Kill` ends a run at any step of
`MayKill`. All values of one standard metric file are the same to the
properties, so a value is the version of that file. A metric file is a set of
records, since equal lines are read as one.

### Lowering, Expressions

`Expressions` is the reference: the value and the width the ACT language gives an
expression. An expression is a tree over numbered identifiers, and its name is that
tree, which is what `genExprName` spells; `Height` says that it is a finite one.
`UnderCasts` is the expression under its casts, by which `OnlyVar` tells an identifier
alone. "plus" stands for every operator whose
low bits depend on the low bits of its operands only, "lt" for those that need all
of them.

`Lowering` is `printExpr` call by call. `todo` is its stack: calls still to make and
returns still to come, in the order the C++ makes them; `names` holds the names
returned to callers that still wait for another operand; `resBW` the variables passed
by reference as widths, a query's `cBW` on top. So `CallBool` changes the width of
everything that is lowered later in the same scope, `CallConcat` takes its name
before the operands are lowered and `EmitConcat` prints with the suffix of the
moment, as the code does. `Generate` appends the statement and adds the same
calculation to the optimizer's expressions, but for a concatenation:
`prepareConcatExprForOpt` types only the first node of the list of operands and ends the
list in a node it never sets (`DflowGenerator.cc:266-275`), which `Listed` shows as
`Untyped` and `Unset`; `EndPart` is the end of
`handleDFlowFunc` with `handlePort`; `PrintUnit` is `printDFlowFunc`, the library
process if its name is not remembered, and the instance.

What an optimizer makes of memory that was never set is undefined, so `NetlistAgrees`
is about the units without a concatenation.

Properties evaluate what was printed. `Executed` runs the statements of a process
with the widths of its results, `Optimized` the optimizer's expressions, `ValueOf`
the reference, for every value of the inputs. Powers of two are the recursive function
`Pow2`, so that the proofs can unfold them. `ComputesExpression` holds an output
to the reference whenever the width of the output suffices inside
(`KeepsPart`), and this is most of the expressions checked. What it leaves out is what
the code gets wrong: a comparison of sums wider than its output (`lowering_tests`),
`bool()` in the middle of wider arithmetic, a concatenation with a calculated operand
(`Straight`: no statement of a concatenation reads a result), and an instance wider than
the first one printed under its name. Each of these conditions is needed: without it TLC
finds a counterexample. The property says nothing about those cases.

### UnitMetrics

One action per kind of unit, in the order the second walk prints them: look the
metric up, derive it, record it, count it, configure the instance. A metric is the
name of the formula or record it comes from, how many times that is taken, and
whether it was read back (`Written`: six digits of each number). `Configure` calls
`printConf` for one instance, or for two if a chain of buffers has an initial value:
`Entered` is the table it leaves, `Configured` the file. It ends the run if the metric
is missing and the optimizer is built in. `Launch` is the next run, of the same or of a revised program, on the same
output directory or, under another name, on an empty one; both share the cache of the
source directory. Each unit is a step:
the steps within a record are in `MetricsStore`. `previous` is the history of the
runs of one program.

### Conventions

A definition `Bug<Name>` is a faulty variant of `<Name>`, used by no
specification: putting it in the place of `<Name>` must break the property
`PROJECT.json` names, which shows that the property depends on that code.
`MC<Module>` gives the constants their values. Deadlock checking is off for the
modules whose systems stop: a translation ends, and so does the supply of tokens
of a circuit (`Delivers` rules out the stops that matter). The store never
stops, so its runs check deadlock.

## 4. Runs

| run | question | bounds |
|---|---|---|
| `proc_gen` | do the walks agree (`NeverOverused`, `OneReader`, `EndpointExists`, `OutputsRead`, `SinksDistinct`)? | all bodies of up to 3 elements from a pool of all seven kinds that read two channels, up to three times in an element |
| `proc_gen_fanout` | do they implement `Fanout`? | the bodies of `proc_gen` in which a sunk channel is read by nothing else |
| `proc_gen_sink` | is every read of a copied channel on its COPY? **violated** | 2 elements |
| `proc_gen_mixer` | has every process its configuration entry when the optimizer is built in, a mixer with a control output too? **violated** | 2 elements |
| `chp` | does the circuit implement `Dataflow`, is it well wired, does it deliver? | `PIPELINE` false, as in `common/config.h`, with seven bodies and true with five, among them the loop without a buffer |
| `chp_loop` | does the loop of `tests/loop.act` deliver with `PIPELINE` false? **violated** | one pass |
| `store` | does every record keep a whole netlist, does no run give up? | two workloads with two shared units and a COPY, one upgrade, kills outside `-i` |
| `store_any_kill` | is a torn netlist ever recorded? | the same, kills anywhere |
| `store_overlap` | do overlapping runs disturb each other? | two runs at a time, no `-i`, no upgrade |
| `lowering` | does the printed program assign before it reads, calculate what the expression means and what the optimizer is told; is a process printed once; is one name one circuit? | expressions of up to two operators over two identifiers of 1 and 2 bits and a literal, outputs of 1 to 3 bits; pairs in a cluster; up to three units in a process; a table of one name |
| `lowering_tests` | does the comparison of `tests/init.act` compare the sum? **violated** | 2 bits in place of 32 |
| `unit_metrics` | do all uses of an instance agree on its metric, does no record contradict another (`NoClash`), does a repeated run find the same, does the report add up? | programs of up to three units from a pool of 19, three runs, one kill, a table of two instances |

Why the bounds are enough. A counter of the copy allocation is touched by the
reads of one channel only, and an element does so in one step, so what matters is
the number of elements that read a channel before and after an element (0, 1 or
more) and the repetitions inside one: three elements over two channels have them
all; the proofs then cover every body. In `ChpNet` the leaf width is 2 instead
of 8: a COPY with five readers is then a tree of three levels with remainder
leaves, as one of 65 or more is in the code. The bodies follow `tests/if.act` and
`tests/loop.act`; the others hold what these lack: a COPY tree read twice by one
split, a cluster with a literal, buffer chains of two and three with and without
initial value, an arbiter of two-bit data that use both bits, with a control as wide
(stored) or as narrow as the choice allows (`narrow`), a merge
whose unselected input has a token waiting. `MaxTokens` ends the supply of sources and the draining
of ports: two tokens, so that each token meets a predecessor still under way, or
one result of a loop. In the store, two workloads suffice for one to read what the
other left; a program names one unit twice because a repeated request takes another
path (see below).

Two operators suffice for the lowering because what goes wrong needs one operator
in an operand of another: a name taken early, a width changed by one operand and used
by the next. Values are small because widths of 1 and 2 already differ in whether a
sum fits. In `UnitMetrics`, widths 8 and 9 share an equivalent width, 5 outputs need
more than one standard copy, 65 has no equivalent; three units are enough for an instance, its
equivalent and the instance again.

### What the violated runs show

* `proc_gen_sink`: `collectOpUses` counts a SINK as a use, `handleNormDflowElement`
  attaches it to the channel itself. A channel both sunk and read elsewhere then
  has two receivers, and one COPY output has none, on which the COPY waits for ever.
* `proc_gen_mixer`: the metric of a mixer or arbiter is looked up and dropped, and
  `printConf` exits on the null pointer that is passed instead, although `README.md:28`
  promises an entry for each process. The mixer has its control output, as the library's
  mixers do (`dflow_stdlib.act:92-93`); one without, as in `tests/mixer.act`, ends the
  run earlier, in the look-up of the control's width (`noControl`).
* `chp_loop`: `unpipe_split` and `unpipe_merge` store nothing. In the ring of the
  running sum of `tests/loop.act` (lines 38, 47, 51) the adder's output comes back
  to the adder, still in its send: nothing moves any more. The MC body `loop` keeps
  that ring and the control of the loop and leaves out the guard around the loop.
  With a buffer in the ring (`bufloop`) or pipelined selections it delivers.
* `lowering_tests`: every intermediate result has the width of the output, and the
  width of `int(e, n)` is ignored. `int(int(x+1,32)<y) -> calc_I7_` of
  `tests/init.act` (line 46, `chan(int<1>) calc_I7_` in line 6) prints
  `res0 := x0 + 1` with `int<1> res0`, and compares that.

### What the circuit runs taught

A pipelined arbiter or mixer cuts its datum to the width of its control output, although
its output is declared as wide as its inputs (`dflow_stdlib.act:125,128`). `config.h` has
`PIPELINE` false, and the unpipelined processes forward the datum as it is, so only the
other build is affected. `chp` therefore runs the body `narrow` unpipelined; moved from
`Unstored` to `Stored` in `MCChpNet.cfg`, it gives a counterexample to
`ImplementsDataflow`. `MCControlsAssumption` says that it is the only such body.

### What the store run taught

A functional unit the program names twice is fetched from the cache twice, because
`getCachedMetric` does not enter it into `opMetrics`. The second fetch overwrites a
netlist already recorded, so a kill inside it leaves a torn netlist behind a record
the next run trusts. `LocalComplete` and `NeverTorn` hold for the units a program
names once, and except the others explicitly. With kills inside `-i` only `NeverTorn` is
checked: a record may be left there without its netlist, and a later run may give up.

## 5. Fairness

`ChpNet` assumes weak fairness of `CircuitNext` as a whole: some enabled step is
eventually taken, that is, a circuit with something to do does not stop. Nothing
is assumed about a particular process or the environment's favours. Since the
token supply is bounded, every behaviour comes to rest, and `Delivers` says it is
not before everything was delivered. The other modules state safety only and
assume no fairness.

## 6. Proofs

### The copy allocation

`ProcGenProofs` proves, for every set of channels and every set of bodies,

* `TypeCorrect`: `Spec => []TypeOK`
* `CountersAgree`: `Spec => []NeverOverused`
* `EndsExclusive`: `Spec => []OneReader`
* `EndsExist`: `Spec => []EndpointExists`

from the assumption `ProgramsAssumption` alone: bodies are sequences of elements, a
split or merge has a guard, a sink has one input. None of the four is inductive. The
invariant `IInv` adds: `CountInv` (`opUses[c] + 1` is the number of slots of the
elements walked so far that count a read of `c`), `ServeInv` (`copyUses[c]` is the
number of slots that asked for an output in the second walk), `CopiesInv` (the COPY of
`c` has as many outputs as `c` has counted slots) and `ReaderInv` (who is attached
comes from an element already passed, below the position its counter has reached).
The heart of the argument is then that a slot that asks is a slot that was
counted, for every kind of element (`SlotFacts`), so that what has been handed out
is a part of what was counted, with the asking slot outside of it (`AskedIsCounted`).
That two slots of one element get different outputs is `IndexInjective`: the number
of slots asked before is strictly monotonic in the order of asking.

It goes on from `IInv` to

* `SinksDistinctAlways`: `Spec => []SinksDistinct`
* `OutputsReadAlways`: `Spec => []OutputsRead`
* `WalksImplementFanout`: `Spec => FanoutSpec`, if a sunk channel is read by nothing
  else (`UnsharedSinks`).

`IInv` says that nobody is attached above the counter; the converse, that every
output below it has somebody attached, is `HeldInv`. It needs that the positions
handed out within one element have no gaps (`RanksExhaust`: an injective map of the
asking slots into as many positions hits them all). When the second walk ends the
counter has passed every slot that asks, and those are the counted slots less the
sinks: hence the number of unread outputs. Without `UnsharedSinks` that number is not
zero, which is what `proc_gen_sink` shows, and `Fanout` is not implemented.

### The circuit

`CircuitProofs` proves, for every body, either build, every buffer and every width of a
COPY leaf from 2 on,

* `CircuitWired`: `CircuitSpec => []WellWired`
* `CircuitTyping`: `CircuitSpec => []CircuitTypeOK`
* `CircuitImplementsDataflow`: `CircuitSpec => ImplementsDataflow`

the first if `UnsharedSinks` and `Bodies` hold, the others if `SoundValues` and
`WideControls` do too. So the order and the values of the tokens do not depend on the COPY trees, the buffers, the
`unpipe_` templates or the speed of anything: no element fires but with the next unread
token of each of its inputs. `UnsharedSinks` is the condition `proc_gen_sink` shows to
be needed. `SingleDrivers` is the program's responsibility: nothing in the translation
checks it, and two drivers would share a wire.

The first half is about what was printed. A finished pair of walks (`Printed`) has, by
`IInv`, `HeldInv` and `FreshInv` (every `*` output got its generated sink), one end for
every read and one read for every end (`ReadWires`). Each template brings its own wires
(`DriveFacts` for what an element drives through its chain of buffers, `TreeFacts` for a
COPY), and no wire is named twice as an output or twice as an input (`OneSenderHolds`,
`OneReceiverHolds`). That each wire has both ends (`WiresHaveEnds`) is the
converse, and needs the arithmetic of the tree: the leaves of a level are as many as the
outputs of the level above it. The tree is a recursion downwards in the number of
outputs; `Recursion` says that it is defined, and its least counterexample
(`SmallestOf`) takes the place of an induction.

The second half is about the circuit at work. No invariant of the values on the wires
alone is inductive: what has to be known is which token each of them is. `Flow(taken)`
says so, with one number per wire, the tokens its receiver has taken. The wire then
offers the next token of its channel's history (`InOrder`); a buffer or a leaf has taken
as many as its outputs have been given and it still holds (`Relayed`); the producer's wires
are up to date with the history (`Latest`); a reader's position is what it took, less
what it holds, with a token an `unpipe_` process has used but not acknowledged counted as
used (`Consumed`); what it holds is its latest token (`InHand`); and what a port drained
is what was taken there (`Delivered`). `CircuitInv` quantifies `taken` existentially:
each step says how it changes (`ReceiveFlow`, `FireFlow`, ...), and the power-up starts
it at zero with the initial tokens on the wires of their buffers. From `InHand` and
`Consumed` an element that sends has in hand the tokens at its read positions, so its
step is one `Dataflow` allows (`ChoiceFires`), and every other step leaves `hist`,
`used` and `delivered` alone or is the environment's.

That the invariant can say "what it holds is its latest token" of a pipelined mixer or
arbiter, which holds it in the control's width, needs to know that the token fits.
`InRange` says that every token of a channel's history fits the channel: what a unit
calculates does by `SoundValues`, and what a selection forwards does because its data
ports are of one width (`Widths`). With `WideControls` the cut then changes nothing
(`WholeHeld`), neither in the datum nor in the choice. Without the
condition the theorem is false (section 4).

### The lowering

`LoweringProofs` proves, for every set of expressions and bodies and every table size,

* `LoweringTypeOK`: `Spec => []TypeOK`
* `SingleAssignmentAlways`: `Spec => []SingleAssignment`
* `PrintedOnceAlways`: `Spec => []PrintedOnce`

from `ExprAssumption` (expressions are finite trees with the operands their operator
has) and `BodyAssumption` (bodies are sequences of units with parts; the identifiers an
expression reads are among the unit's, which have widths; what is a literal under casts
comes as a literal, because the front end folds constants).

`TypeOK` says that the names on the stack exist and that the lists of `DflowGenerator`
stay of one length, and `SingleAssignment` that a result is assigned once, before it is
read or sent. Neither is inductive, and what they need is about the whole stack of
`printExpr`. `Planned` is the plan of the stack: the number of names
that will be there when each frame is reached, so that an emit finds its operands
(`Heights`), above the names of the concatenations below it (`Within`). `Tainted` is
the fact about `EMIT_CONCAT`, which names its result first and prints with the suffix
it has last: if a name was given in between, one of the operands is calculated, and its
result is on the stack or still to come. So a concatenation whose statement reads no
result assigns the name it took (`LedgerConcat`), and otherwise `Straight` fails. `Ledger` says
that the results named so far are those assigned and those taken by waiting
concatenations, and that no other is on the stack; `Linked` that a root which leaves an
argument is an identifier under casts, which `EndPart` copies into a result before it is
sent (that is `handlePort`'s case, told apart by a recursive function).

For `PrintedOnce`, `Filling` says that the table's names are distinct
and printed, and that they are all the printed names while there is room. A second
process of one name is therefore printed only by a unit whose name a full table does
not hold, and then `MAX_PROCESSES` + 1 names are in use (`NewNamePrint`).

`NetlistProofs` builds on that invariant and proves

* `NetlistAgreesAlways`: `Spec => []NetlistAgrees`
* `NameDeterminesNetlistAlways`: `Spec => []NameDeterminesNetlist`

`Generate` writes every operation twice, as a statement and for the optimizer, but the
second under the name the caller took and, for a concatenation, with a list that is not
all set. `Aligned` says when the two lists agree statement by statement: in a unit
without a concatenation, as long as none waits below the latest name. What is left
is about two evaluations of one list, the statements in order and the optimizer's
expressions by need. Both are recursive functions: they exist (`RunExists`,
`SameResults`), a result once assigned is kept (`RunKeeps`), a statement reads earlier
results only (`ReadsBelow`, from `SingleAssignment`), and so the first result in which
the evaluations could differ has equal operands.

For the second, `Advance` is the lowering as one function of the expressions and the
output widths of a unit, on what has been made so far but for the widths of the arguments,
which are recorded and never read (`OneStep`: every action within a unit takes that
step). What a printed unit has is where the iteration of `Advance` ended, and it ends once
(`EndsOnce`). The name spells the expressions, the widths of the arguments, and those of
the outputs that are calculated, which are all the widths `Advance` asks for
(`Sized`). The nodes of a concatenation's list that are not set are the same unset nodes
here; what memory they then hold is not in the model.

`ComputationProofs` builds on both and proves

* `ComputesExpressionAlways`: `Spec => []ComputesExpression`

that what is printed computes what was written, for every set of expressions, every width
and every input. The code calculates everything under an output in the output's width and
drops the casts, so intermediate results are not what the language says they are. The
proof has four parts.

*Arithmetic.* `Keeps` says when the low bits survive a width and `Exact` when the whole
value does; they are defined by recursion over the expression, and `Held` says of a number
that it is as good as they promise. One operator on operands that are held gives a result
that is held (`StatementHeld`). It rests on sums and concatenations modulo a power of two,
and on how many bits a value has (`BoundAt`). A copied identifier is the exception: its
statement truncates it (`Right`).

*Programs.* A program is `Labelled` by `L` if statement `k` is the operator of the
expression `L[k]` on results, arguments and literals that denote its operands, in the
width `L[k]` names. The first result that is not right would have been calculated from
right ones, so all are (`ProgramRight`).

*The walk.* That the lowering labels its program is about the whole stack of `printExpr`:
the names on it, the frames that are left and the cells of `resBW`, which `bool()` and the
query change for what is lowered after them. `Leads` runs the frames on labels in place of
names, and must end in the label of the root. `Going` adds that the names denote the labels.
A call replaces its frame by frames that lead to the same (`LeadsQuery` and its like for
each operator), and an emit takes the step it stands for and adds its label
(`GoingEmit`). It is needed that `Keeps` of the root gives `Keeps` of every operand in the
width it will be lowered in (`GoodOperands`): this is where `bool()` inside an operand and
a concatenation with a calculated operand drop out.

*The library.* A process is printed for the first unit of its name and used by all. Its
label is about that unit's arguments, in the order the walk met them. That order is the
same for both: the frames, names and argument lists do not depend on the widths of the
outputs (`Control`, `SameArguments`), though the widths of the results do, which is why the
property asks for a process that is wide enough.

`LibInv` is the invariant: a label exists for what is being generated, for every unit
printed and for every process. `ComputesExpression` says nothing of the first.

`Recursion` proves, from the well-foundedness of the subset order of finite sets, that
an equation in which a function depends on itself only below some height has exactly one
solution (`RecursionDefines`, `RecursionUnique`). The library states its induction
theorems about an operator; stated about sets of counterexamples and step functions
they need none.

### The metrics

`MetricsStoreProofs` proves, for every set of workloads with their programs, from
`StoreAssumption` (programs are sequences of units, a functional unit is not a COPY),

| theorem | regime |
|---|---|
| `StoreTyped`: `StoreTypeOK` | any |
| `NeverTornAlways`: `NeverTorn`; `OptimizedOnceAlways`: `OptimizedOnce` | runs do not overlap (`OneRun`), killed anywhere |
| `LocalCompleteAlways`: `LocalComplete`; `CacheCompleteAlways`: `CacheComplete`; `NoFaultAlone`: `NoFault` | runs do not overlap and are not killed inside `-i` (`RemovalSafe`) |
| `RecordedPresentAlways`: `RecordedPresent`; `NoFaultOverlapping`: `NoFault` | no `-i`, any number of runs at a time, killed anywhere |

The regimes are those of the runs, as hypotheses on the constants; nothing bounds the
number of workloads, units, runs or kills. `PlaceInv` ties the step of a run to the
unit it works on. `SoloInv` adds what a run alone relies on: its memory covers both
files (`MemoryCovers`), and the netlist it writes is not recorded yet
(`NetlistFirst`). `CompleteInv` adds that whatever is recorded is whole, but for the
unit that is being written. `GrowingInv` is the one for overlapping runs: files only
grow, and a record is appended after its netlist.

`UnitMetricsProofs` proves, for every set of programs and revisions, every standard
file and any number of runs and kills,

* `NoClashAlways`: `Spec => []NoClash`

from `ProgramAssumption` (programs are sequences of elements, a revision is a
program, a copy has two outputs or more, latch, source and sink are standard, the null
pointer is no metric). `NoClash` is not inductive: the invariant `MetricsInv` says which
metric every record must hold (`Canon`, a function of the instance alone), that no record
is of a standard instance or of a split whose equivalent width is standard, and that the
copies every recorded copy was derived from are standard ones. The last is what makes a
copy's metric independent of history: the copies of two outputs it starts from cannot be
derived themselves, since their width is its own equivalent (`CopyBase`). A merge keeps to
`Canon` because one served by its equivalent width is not recorded (`GetMergeInv`): with
that guard dropped the proof fails there, and TLC finds the run that gives up.

It goes on with what a unit is given:

* `MetricsTypeOK`: `Spec => []TypeOK`
* `ConfAgreesAlways`: `Spec => []ConfAgrees`
* `ConfOnceAlways`: `Spec => []ConfOnce`
* `RerunSameAlways`: `Spec => []RerunSame`
* `SharedByWidthAlways`: `Spec => []SharedByWidth`, if the standard file has copies of
  two outputs and copies and splits of the equivalent widths only (`StandardPairs`).
* `ReportAgreesAlways`: `Spec => []ReportAgrees`, if the areas are integers
  (`AreaIsNumber`; `Area` is a parameter, and the program's are doubles, whose rounding is
  not modelled).

An instance is `Settled` when the tables decide its metric, and `Exact` is the metric
they decide. A step of the translator only adds to the tables, and only what was not
settled (`EnterOne`, `NewSettled`), so `Exact` of a settled instance never changes in a
run (`LookupStays`). What was given is `Exact` now (`Agrees`), to the last digit; what an
earlier run gave is `Exact` as written (`AgreesWritten`), because a run starts from the
records (`TableFrom`). The first gives `ConfAgrees`, both together `RerunSame`: an
element finds its instance settled by what the earlier run left, wherever that was
killed. `Filling` is the table's counterpart of the one in `LoweringProofs`. The
hypothesis of `SharedByWidthAlways` is needed: a standard file with a copy of width 9
serves that one by itself and the copy of width 8 by its derivation. It is
what `getOrGenCopyMetric` and `getOrGenSplitMetric` take for granted, which round the
width before they look for a standard unit; the file comes with the refined library and
is not part of the repository.

For the report, `Report` says that the total is the sum of the areas, that a name's count
is the number of elements counted under it, and that its area is the count times `Exact`
of the name, which later look-ups cannot change. An element that is not counted never has
the name of one that is (`Countable`): otherwise the count would fall behind the uses. The
sum is `Tally`, a recursion that takes the entries in an arbitrary order; `SumsExist`
shows that there is such a function, `SumAny` that the order does not matter, and
`TallyWith` that an entry raised by `v` raises the sum by `v`.

### Only model-checked

Of the circuit, `Delivers`: liveness under fairness is out of TLAPS's reach. The four runs
that expect a violation show one state each and prove nothing in general.

## 7. Not modelled

`PROJECT.json` lists the hazards left open, with the reason. Left out are

* the text that is printed and its buffers, the spelling of names
  (`act_expr_to_string` is the front end's) and their collisions;
* folding: the front end hands over `int()` of a literal and constant expressions as
  literals, and numbers identifiers in the order they occur;
* the arithmetic of a metric formula, which is a name here; leakage power, which is
  summed like area;
* a mixer or arbiter gets its instance configured with no metric: `UnitMetrics` counts
  its lookup and goes on, or ends with the optimizer (`proc_gen_mixer`);
* the entry of `onebuf` in the configuration carries the area of the first chain of
  its width, whatever its length; `ConfAgrees` excepts buffers;
* what a concatenation's netlist calculates, whose expressions are not all set;
* the `-m` option; memory lifetimes;
* the ACT front end, the logic optimizer itself (it writes a netlist or is killed)
  and the netlist backend;
* `DflowMapPass` (a traversal that calls the generator once per process) and option
  parsing and file opening in `main`.
