---------------------------- MODULE UnitMetrics ----------------------------
(***************************************************************************)
(* The performance metric of every printed unit, over several runs of the  *)
(* translator on one output directory.  Metrics finds it in the standard   *)
(* file, in the records of earlier runs or among those computed in this    *)
(* run, or derives it: a copy from copies of two outputs, a split from the *)
(* split of two outputs, a merge from its parts, a functional unit by the  *)
(* logic optimizer.  ChpLibGenerator configures the unit with it, once for *)
(* each instance name; the statistics add it up.                           *)
(*                                                                         *)
(* An element is one unit of the circuit, in the order printed (the sinks  *)
(* of a split before it, the buffers of a unit after it); n of a func is   *)
(* the unit, n of a buffer the length of the chain.                        *)
(*                                                                         *)
(* A metric is [of, times, six]: the formula or standard record of name    *)
(* `of', taken `times' times; six when it was read back from a record,     *)
(* which keeps six digits of each number.                                  *)
(***************************************************************************)
EXTENDS Integers, Sequences, FiniteSets

CONSTANTS
  Programs,       \* sequences of elements [kind, bw, n, ctrl, init]
  Revisions(_),   \* what the next run on the directory may translate
  Standard,       \* the instances of dflow_stdlib_refine.metrics
  Area(_),        \* the area of the formula or record of a name
  MAX_PROCESSES,  \* instances the library remembers: 500 in common.h
  MaxRuns, MaxKills,    \* bounds
  NoMetric        \* the null pointer

Kinds == {"copy", "split", "merge", "mixer", "arbiter", "func", "buffer", "source", "sink"}
ElementSet == [kind : Kinds, bw : Nat, n : Nat, ctrl : Nat, init : BOOLEAN]

Formulas == {"splitOf", "mergeOf", "optimized"} \X Nat \X Nat \X Nat
Metric == [of : Standard \cup Formulas, times : Nat, six : BOOLEAN]

ASSUME ProgramAssumption ==
  /\ Programs \subseteq Seq(ElementSet)
  /\ \A p \in Programs : \A i \in DOMAIN p : p[i].kind = "copy" => p[i].n >= 2
  /\ \A p \in Programs : Revisions(p) \subseteq Programs
  /\ {<<"latch1", 0, 0, 1>>, <<"source1", 0, 0, 1>>, <<"sink_1_", 0, 0, 1>>} \subseteq Standard
  /\ NoMetric \notin Metric
  /\ MAX_PROCESSES \in Nat /\ MaxRuns \in Nat /\ MaxKills \in Nat

VARIABLES
  optimizer,   \* LOGIC_OPTIMIZER of config.h
  haveMetrics, \* _have_metrics: the standard file could be read
  prog, next,  \* the elements to translate, and which is next
  opMetrics,   \* instance |-> metric, of this run
  cached,      \* the records of the cache, as read when the run started
  localFile,   \* the records of the output directory, in order
  cacheFile,   \* those of the cache
  configured,  \* the instances remembered as configured
  conf,        \* the entries of the configuration file: [inst, metric]
  given,       \* element |-> [inst, metric], what it was given in this run
  previous,    \* the same in earlier runs of this program (history)
  stats,       \* [total, merge, split, area, cnt] of the report
  runs, kills, \* bounded
  status       \* "running", "ended" or the reason for giving up

bounded == <<runs, kills>>
outputs == <<configured, conf, given>>
vars == <<optimizer, haveMetrics, prog, next, opMetrics, cached, localFile, cacheFile,
          outputs, previous, stats, bounded, status>>

Record(inst, m) == [inst |-> inst, metric |-> m]
Std(inst) == [of |-> inst, times |-> 1, six |-> FALSE]
Written(m) == [of |-> m.of, times |-> m.times, six |-> TRUE]
With(f, k, v) == [x \in DOMAIN f \cup {k} |-> IF x = k THEN v ELSE f[x]]
ReadBack(file) ==
  [i \in {file[k].inst : k \in DOMAIN file} |->
     file[CHOOSE k \in DOMAIN file : file[k].inst = i].metric]

NoStats == [total |-> 0, merge |-> 0, split |-> 0, area |-> <<>>, cnt |-> <<>>]

\* readMetricsFile, standard file first: an instance recorded twice must have
\* one metric.
Clashes(file, std) ==
  \E i, j \in DOMAIN file :
    \/ file[i].inst = file[j].inst /\ file[i].metric # file[j].metric
    \/ file[i].inst \in std /\ file[i].metric.of # file[i].inst
Start(p, local, cache) ==
  /\ prog' = p /\ next' = 1
  /\ opMetrics' = [i \in Standard \cup DOMAIN ReadBack(local) |->
                     IF i \in Standard THEN Std(i) ELSE ReadBack(local)[i]]
  /\ cached' = ReadBack(cache)
  /\ configured' = <<>> /\ conf' = <<>> /\ given' = <<>> /\ stats' = NoStats
  /\ status' = IF Clashes(local, Standard) \/ Clashes(cache, {}) THEN "clash" ELSE "running"

Init ==
  /\ optimizer \in BOOLEAN /\ haveMetrics \in BOOLEAN
  /\ prog \in Programs /\ next = 1
  /\ opMetrics = [i \in Standard |-> Std(i)] /\ cached = <<>>
  /\ localFile = <<>> /\ cacheFile = <<>>
  /\ configured = <<>> /\ conf = <<>> /\ given = <<>> /\ previous = <<>>
  /\ stats = NoStats /\ runs = 1 /\ kills = 0 /\ status = "running"

-----------------------------------------------------------------------------
(* Names and formulas. *)

CopyInst(bw, n) == <<"copy", n, 0, bw>>
SplitInst(ctrl, bw, n) == <<"split", n, ctrl, bw>>
MergeInst(ctrl, bw, n) == <<"merge", n, ctrl, bw>>
NondetInst(kind, ctrl, bw, n) == <<kind, n, ctrl, bw>>
FUInst(id) == <<"func", id, 0, 0>>
OneBuf(bw) == <<"onebuf", 0, 0, bw>>
InitBuf(bw) == <<"init", 0, 0, bw>>
SourceInst(bw) == <<"source", 0, 0, bw>>
SinkInst(bw) == <<"sink", 0, 0, bw>>
Latch == <<"latch1", 0, 0, 1>>
Source == <<"source1", 0, 0, 1>>
Sink == <<"sink_1_", 0, 0, 1>>

InvalidBW(bw) == bw > 64
EquivalentBW(bw) == IF bw < 4 THEN 1 ELSE IF bw < 12 THEN 8 ELSE IF bw < 24 THEN 16
                    ELSE IF bw < 48 THEN 32 ELSE 64

\* ceil(log2(n)), the number of powers of two below n.
Levels(n) == Cardinality({k \in 0 .. n : 2^k < n})

Known(inst) == inst \in DOMAIN opMetrics

BugNewRecord(inst, m) ==
  /\ opMetrics' = With(opMetrics, inst, m)
  /\ localFile' = Append(localFile, Record(inst, Written(m)))
  /\ UNCHANGED cacheFile

\* updateMetrics, writeLocalMetricFile, writeCachedMetricFile
NewRecord(inst, m) ==
  /\ opMetrics' = With(opMetrics, inst, m)
  /\ localFile' = Append(localFile, Record(inst, Written(m)))
  /\ cacheFile' = Append(cacheFile, Record(inst, Written(m)))
NoRecord == UNCHANGED <<opMetrics, localFile, cacheFile>>

AreaOf(m) == m.times * Area(m.of)

BugCounted(inst, m, kind) ==
  stats' =
    [total |-> stats.total + AreaOf(m),
     merge |-> stats.merge + (IF kind = "merge" THEN AreaOf(m) ELSE 0),
     split |-> stats.split + (IF kind = "split" THEN AreaOf(m) ELSE 0),
     area |-> With(stats.area, inst, AreaOf(m)),
     cnt |-> With(stats.cnt, inst,
                  1 + IF inst \in DOMAIN stats.cnt THEN stats.cnt[inst] ELSE 0)]

\* updateStatistics, with updateMergeMetrics or updateSplitMetrics.
Counted(inst, m, kind) ==
  stats' =
    [total |-> stats.total + AreaOf(m),
     merge |-> stats.merge + (IF kind = "merge" THEN AreaOf(m) ELSE 0),
     split |-> stats.split + (IF kind = "split" THEN AreaOf(m) ELSE 0),
     area |-> With(stats.area, inst,
                   AreaOf(m) + IF inst \in DOMAIN stats.area THEN stats.area[inst] ELSE 0),
     cnt |-> With(stats.cnt, inst,
                  1 + IF inst \in DOMAIN stats.cnt THEN stats.cnt[inst] ELSE 0)]

BugRemembered(table, inst) == \E i \in DOMAIN table : table[i][1] = inst[1]

BugForgotten(table, inst) == table # <<>> /\ table[Len(table)] = inst

\* checkAndUpdateInstance: a full table forgets the name.
Remembered(table, inst) == \E i \in DOMAIN table : table[i] = inst
Entered(table, inst) ==
  IF Remembered(table, inst) \/ Len(table) >= MAX_PROCESSES THEN table ELSE Append(table, inst)

\* printConf, with the table it found.
Configured(file, table, inst, m) ==
  IF Remembered(table, inst) THEN file ELSE Append(file, Record(inst, m))

\* printConf of one instance or two with one metric, after which the element
\* is done.  With the optimizer a missing metric ends the run.
Configure(insts, m) ==
  /\ given' = Append(given, Record(insts[1], m))
  /\ IF m = NoMetric
     THEN /\ status' = IF optimizer THEN "missing" ELSE status
          /\ next' = IF optimizer THEN next ELSE next + 1
          /\ UNCHANGED <<configured, conf>>
     ELSE LET table == Entered(configured, insts[1])
              file == Configured(conf, configured, insts[1], m)
          IN  /\ configured' = IF Len(insts) = 1 THEN table ELSE Entered(table, insts[2])
              /\ conf' = IF Len(insts) = 1 THEN file
                         ELSE Configured(file, table, insts[2], m)
              /\ next' = next + 1 /\ UNCHANGED status

Element == prog[next]
Translating(kinds) ==
  /\ status = "running" /\ next <= Len(prog) /\ Element.kind \in kinds
  /\ UNCHANGED <<optimizer, haveMetrics, prog, cached, previous, bounded>>

GiveUp(reason) ==
  /\ status' = reason
  /\ NoRecord /\ UNCHANGED <<next, outputs, stats>>

\* No metric, a known one, a new one.
Unmetered(insts) == Configure(insts, NoMetric) /\ NoRecord /\ UNCHANGED stats
Served(inst, kind) ==
  NoRecord /\ Counted(inst, opMetrics[inst], kind) /\ Configure(<<inst>>, opMetrics[inst])
Derived(inst, m, kind) ==
  NewRecord(inst, m) /\ Counted(inst, m, kind) /\ Configure(<<inst>>, m)

-----------------------------------------------------------------------------
(* The elements. *)

CopyMetric(bw, n) ==
  LET base == opMetrics[CopyInst(EquivalentBW(bw), 2)]
      k == Levels(n) - 1
  IN  [of |-> base.of, times |-> base.times * (IF k < 1 THEN 1 ELSE k), six |-> base.six]

CreateCopy ==
  LET inst == CopyInst(Element.bw, Element.n)
      derivable == ~InvalidBW(Element.bw) /\ Known(CopyInst(EquivalentBW(Element.bw), 2))
  IN  /\ Translating({"copy"})
      /\ \/ ~haveMetrics /\ Unmetered(<<inst>>)
         \/ haveMetrics /\ Known(inst) /\ Served(inst, "copy")
         \/ haveMetrics /\ ~Known(inst) /\ ~derivable /\ GiveUp("width")
         \/ /\ haveMetrics /\ ~Known(inst) /\ derivable
            /\ Derived(inst, CopyMetric(Element.bw, Element.n), "copy")

BugSplitMetric(e) ==
  [of |-> <<"splitOf", e.n, 0, e.bw>>, times |-> 1, six |-> FALSE]

\* From the split of two outputs and equivalent width, a decoder, and an
\* inverter for every other output.
SplitMetric(e) ==
  [of |-> <<"splitOf", (e.n + 1) \div 2, 0, EquivalentBW(e.bw)>>, times |-> 1, six |-> FALSE]

CreateSplit ==
  LET e == Element
      inst == SplitInst(e.ctrl, e.bw, e.n)
      equiv == SplitInst(e.ctrl, EquivalentBW(e.bw), e.n)
      derivable == ~InvalidBW(e.bw) /\ Known(SplitInst(1, EquivalentBW(e.bw), 2))
  IN  /\ Translating({"split"})
      /\ \/ ~haveMetrics /\ Unmetered(<<inst>>)
         \/ haveMetrics /\ Known(inst) /\ Served(inst, "split")
         \/ /\ haveMetrics /\ ~Known(inst)
            /\ InvalidBW(e.bw) \/ ~(Known(equiv) \/ derivable)
            /\ GiveUp("width")
         \/ /\ haveMetrics /\ ~Known(inst) /\ ~InvalidBW(e.bw) /\ Known(equiv)
            /\ NoRecord /\ Counted(inst, opMetrics[equiv], "split")
            /\ Configure(<<inst>>, opMetrics[equiv])
         \/ /\ haveMetrics /\ ~Known(inst) /\ derivable /\ ~Known(equiv)
            /\ Derived(inst, SplitMetric(e), "split")

MergeMetric(ctrl, bw, n) == [of |-> <<"mergeOf", n, ctrl, bw>>, times |-> 1, six |-> FALSE]

BugMergeFor(e) ==
  LET inst == MergeInst(e.ctrl, e.bw, e.n)
      equiv == MergeInst(e.ctrl, EquivalentBW(e.bw), e.n)
  IN  IF Known(equiv) THEN opMetrics[equiv]
      ELSE IF Known(inst) THEN opMetrics[inst] ELSE MergeMetric(e.ctrl, e.bw, e.n)

\* The metric of the equivalent width is used when it happens to be known.
MergeFor(e) ==
  LET inst == MergeInst(e.ctrl, e.bw, e.n)
      equiv == MergeInst(e.ctrl, EquivalentBW(e.bw), e.n)
  IN  IF Known(inst) THEN opMetrics[inst]
      ELSE IF Known(equiv) THEN opMetrics[equiv] ELSE MergeMetric(e.ctrl, e.bw, e.n)

BugGetMerge(e) ==
  LET inst == MergeInst(e.ctrl, e.bw, e.n)
  IN  /\ IF Known(inst) THEN NoRecord ELSE NewRecord(inst, MergeFor(e))
      /\ Counted(inst, MergeFor(e), "merge")

\* ... and is then not recorded for this one.
GetMerge(e) ==
  LET inst == MergeInst(e.ctrl, e.bw, e.n)
  IN  /\ IF Known(inst) \/ Known(MergeInst(e.ctrl, EquivalentBW(e.bw), e.n))
         THEN NoRecord ELSE NewRecord(inst, MergeFor(e))
      /\ Counted(inst, MergeFor(e), "merge")

CreateMerge ==
  LET e == Element
      inst == MergeInst(e.ctrl, e.bw, e.n)
  IN  /\ Translating({"merge"})
      /\ \/ ~haveMetrics /\ Unmetered(<<inst>>)
         \/ haveMetrics /\ InvalidBW(e.bw) /\ GiveUp("width")
         \/ haveMetrics /\ ~InvalidBW(e.bw) /\ GetMerge(e) /\ Configure(<<inst>>, MergeFor(e))

\* A mixer and an arbiter look their metric up as a merge, count it, and are
\* then configured with none.
CreateNondeterministic ==
  LET e == Element
      inst == NondetInst(e.kind, e.ctrl, e.bw, e.n)
  IN  /\ Translating({"mixer", "arbiter"})
      /\ \/ ~haveMetrics /\ Unmetered(<<inst>>)
         \/ haveMetrics /\ InvalidBW(e.bw) /\ GiveUp("width")
         \/ haveMetrics /\ ~InvalidBW(e.bw) /\ GetMerge(e) /\ Configure(<<inst>>, NoMetric)

\* A metric found in the cache is recorded in the output directory at every
\* use; an optimized one is recorded in both.
CreateFU ==
  LET inst == FUInst(Element.n)
      opt == [of |-> <<"optimized", Element.n, 0, 0>>, times |-> 1, six |-> FALSE]
      new == ~Known(inst) /\ inst \notin DOMAIN cached
  IN  /\ Translating({"func"})
      /\ \/ (~haveMetrics \/ (new /\ ~optimizer)) /\ Unmetered(<<inst>>)
         \/ haveMetrics /\ Known(inst) /\ Served(inst, "func")
         \/ haveMetrics /\ new /\ optimizer /\ Derived(inst, opt, "func")
         \/ /\ haveMetrics /\ ~Known(inst) /\ inst \in DOMAIN cached
            /\ localFile' = Append(localFile, Record(inst, Written(cached[inst])))
            /\ UNCHANGED <<opMetrics, cacheFile>>
            /\ Counted(inst, cached[inst], "func")
            /\ Configure(<<inst>>, cached[inst])

\* A chain of n buffers, counted as latch1 with n times its area.
CreateBuffer ==
  LET e == Element
      insts == IF ~e.init THEN <<OneBuf(e.bw)>>
               ELSE IF e.n > 1 THEN <<OneBuf(e.bw), InitBuf(e.bw)>> ELSE <<InitBuf(e.bw)>>
      latch == opMetrics[Latch]
      m == [of |-> latch.of, times |-> e.n * latch.times, six |-> latch.six]
  IN  /\ Translating({"buffer"})
      /\ \/ ~haveMetrics /\ Unmetered(insts)
         \/ haveMetrics /\ NoRecord /\ Counted(Latch, m, "buffer") /\ Configure(insts, m)

CreateSource ==
  /\ Translating({"source"})
  /\ NoRecord /\ UNCHANGED stats
  /\ Configure(<<SourceInst(Element.bw)>>, IF haveMetrics THEN opMetrics[Source] ELSE NoMetric)

CreateSink ==
  /\ Translating({"sink"})
  /\ NoRecord /\ UNCHANGED stats
  /\ Configure(<<SinkInst(Element.bw)>>, IF haveMetrics THEN opMetrics[Sink] ELSE NoMetric)

-----------------------------------------------------------------------------
End ==
  /\ status = "running" /\ next > Len(prog)
  /\ status' = "ended"
  /\ UNCHANGED <<optimizer, haveMetrics, prog, next, opMetrics, cached, localFile, cacheFile,
                 outputs, previous, stats, bounded>>

Kill ==
  /\ status = "running" /\ kills < MaxKills
  /\ status' = "ended" /\ kills' = kills + 1
  /\ UNCHANGED <<optimizer, haveMetrics, prog, next, opMetrics, cached, localFile, cacheFile,
                 outputs, previous, stats, runs>>

Longer(q, r) == IF Len(q) < Len(r) THEN r ELSE q

\* Another run, of this program or of a revision, on this output directory or,
\* under another name, on an empty one; the cache is that of the source
\* directory.
Launch(p, fresh) ==
  /\ status # "running" /\ runs < MaxRuns
  /\ localFile' = IF fresh THEN <<>> ELSE localFile
  /\ Start(p, localFile', cacheFile)
  /\ previous' = IF p = prog /\ ~fresh THEN Longer(given, previous) ELSE <<>>
  /\ runs' = runs + 1
  /\ UNCHANGED <<optimizer, haveMetrics, cacheFile, kills>>

Next ==
  \/ CreateCopy \/ CreateSplit \/ CreateMerge \/ CreateNondeterministic \/ CreateFU
  \/ CreateBuffer \/ CreateSource \/ CreateSink
  \/ End \/ Kill \/ \E p \in Revisions(prog), fresh \in BOOLEAN : Launch(p, fresh)

Spec == Init /\ [][Next]_vars
-----------------------------------------------------------------------------
\* Every element has been given its metric in turn; what is configured or
\* counted is known by its own or an equivalent name; every record of this
\* directory is one a run may read.
TypeOK ==
  /\ next \in 1 .. Len(prog) + 1
  /\ Len(given) = IF status = "missing" THEN next ELSE next - 1
  /\ \A i \in DOMAIN given : given[i].metric # NoMetric => haveMetrics
  /\ Standard \subseteq DOMAIN opMetrics
  /\ Len(configured) <= MAX_PROCESSES
  /\ {localFile[k].inst : k \in DOMAIN localFile} \subseteq
       {cacheFile[k].inst : k \in DOMAIN cacheFile}

\* An instance is configured with the metric that every element of that name
\* was given, however often the name occurs and wherever the metric came from
\* each time; buffers aside, whose entry is that of the first chain.
ConfAgrees ==
  \A i \in DOMAIN given :
    (given[i].metric # NoMetric /\ prog[i].kind # "buffer") =>
      /\ \E k \in DOMAIN conf : conf[k] = given[i]
      /\ \A k \in DOMAIN conf : conf[k].inst = given[i].inst => conf[k] = given[i]

\* There is one entry for an instance, unless more are in use than the
\* library remembers.
ConfOnce ==
  \A i, j \in DOMAIN conf :
    (i < j /\ conf[i].inst = conf[j].inst) =>
      Cardinality({conf[k].inst : k \in DOMAIN conf}) > MAX_PROCESSES

Same(m1, m2) ==
  \/ m1 = NoMetric /\ m2 = NoMetric
  \/ m1 # NoMetric /\ m2 # NoMetric /\ Written(m1) = Written(m2)

\* No run ever finds two different metrics recorded for an instance, or one
\* that differs from the standard, whatever earlier runs derived, in which
\* order and in which directory.
NoClash == status # "clash"

\* A run repeated on its directory, after an end or a kill, gives every element
\* the metric it had before, to the six digits a record keeps.
RerunSame ==
  \A i \in DOMAIN given \cap DOMAIN previous :
    /\ given[i].inst = previous[i].inst
    /\ Same(given[i].metric, previous[i].metric)

\* Copies, and splits, that differ only within one equivalent width have one
\* metric, whichever came first and whatever earlier runs recorded.  (Merges
\* do not: see MergeFor.)
SharedByWidth ==
  \A i, j \in DOMAIN given :
    (/\ prog[i].kind \in {"copy", "split"} /\ prog[i].kind = prog[j].kind
     /\ prog[i].n = prog[j].n /\ prog[i].ctrl = prog[j].ctrl
     /\ EquivalentBW(prog[i].bw) = EquivalentBW(prog[j].bw))
      => Same(given[i].metric, given[j].metric)

\* The name an element is counted under; sources and sinks are not counted.
CountName(e) ==
  CASE e.kind = "copy" -> CopyInst(e.bw, e.n)
    [] e.kind = "split" -> SplitInst(e.ctrl, e.bw, e.n)
    [] e.kind \in {"merge", "mixer", "arbiter"} -> MergeInst(e.ctrl, e.bw, e.n)
    [] e.kind = "func" -> FUInst(e.n)
    [] OTHER -> Latch
Tally(S) == LET sum[T \in SUBSET DOMAIN S] ==
                  IF T = {} THEN 0 ELSE LET x == CHOOSE y \in T : TRUE IN S[x] + sum[T \ {x}]
            IN  sum[DOMAIN S]

\* The report adds up: the total is that of the instances, every instance
\* has as many uses as the program and the area of each of them.
ReportAgrees ==
  /\ stats.total = Tally(stats.area)
  /\ \A inst \in DOMAIN stats.cnt :
       LET uses == {i \in DOMAIN given : /\ prog[i].kind \notin {"source", "sink"}
                                         /\ CountName(prog[i]) = inst}
       IN  /\ stats.cnt[inst] = Cardinality(uses)
           /\ \A i \in uses : (given[i].metric # NoMetric /\ inst # Latch) =>
                stats.area[inst] = stats.cnt[inst] * AreaOf(given[i].metric)
=============================================================================
