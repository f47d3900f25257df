------------------------- MODULE UnitMetricsProofs -------------------------
(***************************************************************************)
(* No run ever gives up because a metric is recorded in two versions: for  *)
(* every program and revision, every standard file and any number of runs  *)
(* and kills.                                                              *)
(*                                                                         *)
(* Whatever the order in which units are translated, a record of an        *)
(* instance can only be the one metric Canon gives it, because nothing is  *)
(* ever derived from a derived metric: copies start from a standard copy,  *)
(* and a split or a merge served by its equivalent width is not recorded.  *)
(***************************************************************************)
EXTENDS UnitMetrics, Recursion, FiniteSetTheorems, TLAPS

Copies(i) == CopyInst(EquivalentBW(i[4]), 2)

\* What a record of instance i says.
Canon(i) ==
  IF i[1] = "copy"
  THEN [of |-> Copies(i),
        times |-> 1 * (IF Levels(i[2]) - 1 < 1 THEN 1 ELSE Levels(i[2]) - 1), six |-> TRUE]
  ELSE [of |-> IF i[1] = "split"
               THEN <<"splitOf", (i[2] + 1) \div 2, 0, EquivalentBW(i[4])>>
               ELSE IF i[1] = "merge" THEN <<"mergeOf", i[2], i[3], i[4]>>
               ELSE <<"optimized", i[2], 0, 0>>,
        times |-> 1, six |-> TRUE]

\* The instance of equivalent width that serves a split or a merge.
Equivalent(i) == <<i[1], i[2], i[3], EquivalentBW(i[4])>>

\* An instance that may be derived.
Sound(i) ==
  /\ i \notin Standard
  /\ i[1] = "copy" => Copies(i) \in Standard
  /\ i[1] = "split" => Equivalent(i) \notin Standard

FileOK(file) ==
  /\ \E S : file \in Seq(S)
  /\ \A k \in DOMAIN file : Sound(file[k].inst) /\ file[k].metric = Canon(file[k].inst)
TableOK ==
  /\ Standard \subseteq DOMAIN opMetrics
  /\ \A i \in Standard : opMetrics[i] = Std(i)
  /\ \A i \in DOMAIN opMetrics \ Standard : Sound(i) /\ Written(opMetrics[i]) = Canon(i)
CachedOK == \A i \in DOMAIN cached : Sound(i) /\ cached[i] = Canon(i)

MetricsInv == FileOK(localFile) /\ FileOK(cacheFile) /\ TableOK /\ CachedOK /\ NoClash

-----------------------------------------------------------------------------
(* Names and formulas. *)

LEMMA EquivalentTwice ==
  ASSUME NEW bw \in Nat
  PROVE  EquivalentBW(EquivalentBW(bw)) = EquivalentBW(bw)
BY DEF EquivalentBW

LEMMA WrittenFacts ==
  ASSUME NEW a, NEW b, NEW c
  PROVE  Written([of |-> a, times |-> b, six |-> c]) = [of |-> a, times |-> b, six |-> TRUE]
BY DEF Written

LEMMA CanonWritten ==
  ASSUME NEW i
  PROVE  Written(Canon(i)) = Canon(i)
<1>1. CASE i[1] = "copy"
  BY <1>1, WrittenFacts DEF Canon
<1>2. CASE i[1] # "copy"
  BY <1>2, WrittenFacts DEF Canon
<1> QED
  BY <1>1, <1>2

\* The copies a copy is derived from are standard ones.
LEMMA CopyBase ==
  ASSUME TableOK, NEW bw \in Nat, NEW n, Known(CopyInst(EquivalentBW(bw), 2))
  PROVE  /\ CopyInst(EquivalentBW(bw), 2) \in Standard
         /\ Copies(CopyInst(bw, n)) \in Standard
         /\ Written(CopyMetric(bw, n)) = Canon(CopyInst(bw, n))
<1> DEFINE base == CopyInst(EquivalentBW(bw), 2)
<1>1. base[1] = "copy" /\ base[4] = EquivalentBW(bw)
  BY DEF CopyInst
<1>2. Copies(base) = base
  BY <1>1, EquivalentTwice DEF Copies
<1>3. base \in Standard
  BY <1>1, <1>2 DEF TableOK, Known, Sound
<1>4. CopyInst(bw, n)[1] = "copy" /\ CopyInst(bw, n)[2] = n /\ CopyInst(bw, n)[4] = bw
  BY DEF CopyInst
<1>5. Copies(CopyInst(bw, n)) = base
  BY <1>4 DEF Copies
<1>6. opMetrics[base] = [of |-> base, times |-> 1, six |-> FALSE]
  BY <1>3 DEF TableOK, Std
<1>7. Written(CopyMetric(bw, n)) =
        [of |-> base, times |-> 1 * (IF Levels(n) - 1 < 1 THEN 1 ELSE Levels(n) - 1), six |-> TRUE]
  <2> DEFINE k == IF Levels(n) - 1 < 1 THEN 1 ELSE Levels(n) - 1
  <2>1. CopyMetric(bw, n) =
         [of |-> opMetrics[base].of, times |-> opMetrics[base].times * k,
          six |-> opMetrics[base].six]
    BY DEF CopyMetric
  <2> HIDE DEF base, k
  <2>2. CopyMetric(bw, n) = [of |-> base, times |-> 1 * k, six |-> FALSE]
    BY <1>6, <2>1
  <2>3. Written(CopyMetric(bw, n)) = [of |-> base, times |-> 1 * k, six |-> TRUE]
    BY <2>2, WrittenFacts
  <2> QED
    BY <2>3 DEF k
<1>8. Canon(CopyInst(bw, n)) =
        [of |-> base, times |-> 1 * (IF Levels(n) - 1 < 1 THEN 1 ELSE Levels(n) - 1), six |-> TRUE]
  BY <1>4, <1>5 DEF Canon
<1> QED
  BY <1>3, <1>5, <1>7, <1>8

LEMMA SplitCanon ==
  ASSUME NEW e
  PROVE  Written(SplitMetric(e)) = Canon(SplitInst(e.ctrl, e.bw, e.n))
<1> DEFINE f == <<"splitOf", (e.n + 1) \div 2, 0, EquivalentBW(e.bw)>>
<1>1. Written(SplitMetric(e)) = [of |-> f, times |-> 1, six |-> TRUE]
  BY WrittenFacts DEF SplitMetric
<1>2. SplitInst(e.ctrl, e.bw, e.n)[1] = "split" /\ "split" # "copy"
  BY DEF SplitInst
<1>3. SplitInst(e.ctrl, e.bw, e.n)[2] = e.n /\ SplitInst(e.ctrl, e.bw, e.n)[4] = e.bw
  BY DEF SplitInst
<1> QED
  BY <1>1, <1>2, <1>3 DEF Canon

LEMMA MergeCanon ==
  ASSUME NEW c, NEW bw, NEW n
  PROVE  Written(MergeMetric(c, bw, n)) = Canon(MergeInst(c, bw, n))
<1>1. Written(MergeMetric(c, bw, n)) = [of |-> <<"mergeOf", n, c, bw>>, times |-> 1, six |-> TRUE]
  BY WrittenFacts DEF MergeMetric
<1>2. /\ MergeInst(c, bw, n)[1] = "merge" /\ MergeInst(c, bw, n)[2] = n
      /\ MergeInst(c, bw, n)[3] = c /\ MergeInst(c, bw, n)[4] = bw
  BY DEF MergeInst
<1> QED
  BY <1>1, <1>2 DEF Canon

-----------------------------------------------------------------------------
(* Records. *)

LEMMA AppendRecord ==
  ASSUME NEW file, FileOK(file), NEW i, NEW m, Sound(i), m = Canon(i)
  PROVE  FileOK(Append(file, Record(i, m)))
<1> DEFINE r == Record(i, m)
<1>1. PICK S : file \in Seq(S)
  BY DEF FileOK
<1>2. file \in Seq(S \cup {r}) /\ r \in S \cup {r}
  BY <1>1
<1>3. Append(file, r) \in Seq(S \cup {r})
  BY <1>2
<1>4. /\ DOMAIN Append(file, r) = 1 .. Len(file) + 1
      /\ DOMAIN file = 1 .. Len(file) /\ Len(file) \in Nat
      /\ Append(file, r)[Len(file) + 1] = r
      /\ \A k \in 1 .. Len(file) : Append(file, r)[k] = file[k]
  BY <1>2
<1>5. r.inst = i /\ r.metric = m
  BY DEF Record
<1>6. ASSUME NEW k \in DOMAIN Append(file, r)
      PROVE  /\ Sound(Append(file, r)[k].inst)
             /\ Append(file, r)[k].metric = Canon(Append(file, r)[k].inst)
  <2>1. CASE k = Len(file) + 1
    BY <1>4, <1>5, <2>1
  <2>2. CASE k \in DOMAIN file
    BY <1>4, <2>2 DEF FileOK
  <2> QED
    BY <1>4, <2>1, <2>2
<1> QED
  BY <1>3, <1>6 DEF FileOK

\* Sound files do not clash, and are read back as they are.
LEMMA ReadSound ==
  ASSUME NEW file, FileOK(file)
  PROVE  /\ ~Clashes(file, Standard) /\ ~Clashes(file, {})
         /\ \A i \in DOMAIN ReadBack(file) : Sound(i) /\ ReadBack(file)[i] = Canon(i)
<1>1. ~Clashes(file, Standard) /\ ~Clashes(file, {})
  BY DEF Clashes, FileOK, Sound
<1>2. ASSUME NEW i \in DOMAIN ReadBack(file)
      PROVE  Sound(i) /\ ReadBack(file)[i] = Canon(i)
  <2>1. i \in {file[k].inst : k \in DOMAIN file}
    BY <1>2 DEF ReadBack
  <2>2. PICK j \in DOMAIN file : file[j].inst = i
    BY <2>1
  <2> DEFINE c == CHOOSE k \in DOMAIN file : file[k].inst = i
  <2>3. c \in DOMAIN file /\ file[c].inst = i
    BY <2>2
  <2>4. ReadBack(file)[i] = file[c].metric
    BY <2>1 DEF ReadBack
  <2> QED
    BY <2>3, <2>4 DEF FileOK
<1> QED
  BY <1>1, <1>2

-----------------------------------------------------------------------------
(* What a step may do to the records and the table. *)

LEMMA NoRecordInv ==
  ASSUME MetricsInv, NoRecord, UNCHANGED cached, status' # "clash"
  PROVE  MetricsInv'
<1>1. localFile' = localFile /\ cacheFile' = cacheFile /\ opMetrics' = opMetrics /\ cached' = cached
  BY DEF NoRecord
<1>2. FileOK(localFile)' /\ FileOK(cacheFile)'
  BY <1>1 DEF MetricsInv, FileOK
<1> QED
  BY <1>1, <1>2 DEF MetricsInv, TableOK, CachedOK, NoClash

LEMMA NewRecordInv ==
  ASSUME MetricsInv, NEW STATE i, NEW STATE m, ~Known(i), Sound(i), Written(m) = Canon(i),
         NewRecord(i, m), UNCHANGED cached, status' # "clash"
  PROVE  MetricsInv'
<1>1. FileOK(localFile') /\ FileOK(cacheFile')
  BY AppendRecord DEF NewRecord, MetricsInv
<1>2. /\ DOMAIN opMetrics' = DOMAIN opMetrics \cup {i}
      /\ opMetrics'[i] = m
      /\ \A j \in DOMAIN opMetrics : j # i => opMetrics'[j] = opMetrics[j]
  BY DEF NewRecord, With
<1>3. TableOK'
  <2>1. Standard \subseteq DOMAIN opMetrics' /\ i \notin Standard
    BY <1>2 DEF MetricsInv, TableOK, Sound
  <2>2. \A j \in Standard : opMetrics'[j] = Std(j)
    BY <1>2, <2>1 DEF MetricsInv, TableOK
  <2>3. \A j \in DOMAIN opMetrics' \ Standard : Sound(j) /\ Written(opMetrics'[j]) = Canon(j)
    BY <1>2 DEF MetricsInv, TableOK
  <2> QED
    BY <2>1, <2>2, <2>3 DEF TableOK
<1>4. CachedOK' /\ NoClash'
  BY DEF MetricsInv, CachedOK, NoClash
<1> QED
  BY <1>1, <1>3, <1>4 DEF MetricsInv

LEMMA ConfigureStatus ==
  ASSUME NoClash, NEW STATE insts, NEW STATE m, Configure(insts, m)
  PROVE  status' # "clash"
BY DEF Configure, NoClash

-----------------------------------------------------------------------------
(* The elements. *)

Place == prog \in Programs /\ next \in Nat \ {0}
IInv == MetricsInv /\ Place

LEMMA ElementFacts ==
  ASSUME Place, NEW STATE kinds, Translating(kinds)
  PROVE  /\ Element \in ElementSet /\ Element.bw \in Nat
         /\ cached' = cached /\ prog' = prog
<1>1. prog \in Seq(ElementSet)
  BY ProgramAssumption DEF Place
<1>2. next \in 1 .. Len(prog)
  BY <1>1 DEF Place, Translating
<1>3. Element \in ElementSet
  BY <1>1, <1>2 DEF Element
<1> QED
  BY <1>3 DEF ElementSet, Translating

LEMMA ConfigurePlace ==
  ASSUME Place, NEW STATE insts, NEW STATE m, Configure(insts, m), prog' = prog
  PROVE  Place'
<1>1. next' = next \/ next' = next + 1
  BY DEF Configure
<1> QED
  BY <1>1 DEF Place

\* A unit that gets no metric, or a known one, leaves the records alone.
LEMMA UnmeteredInv ==
  ASSUME IInv, NEW STATE insts, Unmetered(insts), cached' = cached, prog' = prog
  PROVE  IInv'
BY NoRecordInv, ConfigureStatus, ConfigurePlace DEF IInv, Unmetered, MetricsInv

LEMMA ServedInv ==
  ASSUME IInv, NEW STATE i, NEW STATE kind, Served(i, kind), cached' = cached, prog' = prog
  PROVE  IInv'
BY NoRecordInv, ConfigureStatus, ConfigurePlace DEF IInv, Served, MetricsInv

LEMMA GiveUpInv ==
  ASSUME IInv, GiveUp("width"), cached' = cached, prog' = prog
  PROVE  IInv'
<1>1. status' # "clash" /\ next' = next
  BY DEF GiveUp
<1> QED
  BY <1>1, NoRecordInv DEF IInv, GiveUp, Place

LEMMA DerivedInv ==
  ASSUME IInv, NEW STATE i, NEW STATE m, NEW STATE kind, Derived(i, m, kind), ~Known(i),
         Sound(i), Written(m) = Canon(i), cached' = cached, prog' = prog
  PROVE  IInv'
BY NewRecordInv, ConfigureStatus, ConfigurePlace DEF IInv, Derived, MetricsInv

\* What is not known is not standard.
LEMMA UnknownSound ==
  ASSUME TableOK, NEW i, ~Known(i), i[1] \notin {"copy", "split"}
  PROVE  Sound(i)
BY DEF TableOK, Known, Sound

LEMMA CopyStep ==
  ASSUME IInv, CreateCopy
  PROVE  IInv'
<1> DEFINE inst == CopyInst(Element.bw, Element.n)
<1>1. Element.bw \in Nat /\ cached' = cached /\ prog' = prog
  BY ElementFacts DEF IInv, CreateCopy
<1>2. CASE Unmetered(<<inst>>)
  BY <1>1, <1>2, UnmeteredInv
<1>3. CASE Served(inst, "copy")
  BY <1>1, <1>3, ServedInv
<1>4. CASE GiveUp("width")
  BY <1>1, <1>4, GiveUpInv
<1>5. CASE /\ ~Known(inst) /\ Known(CopyInst(EquivalentBW(Element.bw), 2))
           /\ Derived(inst, CopyMetric(Element.bw, Element.n), "copy")
  <2>1. /\ Copies(inst) \in Standard
        /\ Written(CopyMetric(Element.bw, Element.n)) = Canon(inst)
    BY <1>1, <1>5, CopyBase DEF IInv, MetricsInv
  <2>2. Sound(inst)
    <3>1. inst[1] = "copy"
      BY DEF CopyInst
    <3> QED
      BY <1>5, <2>1, <3>1 DEF Sound, Known, IInv, MetricsInv, TableOK
  <2> QED
    BY <1>1, <1>5, <2>1, <2>2, DerivedInv
<1> QED
  BY <1>2, <1>3, <1>4, <1>5 DEF CreateCopy

LEMMA SplitStep ==
  ASSUME IInv, CreateSplit
  PROVE  IInv'
<1> DEFINE inst == SplitInst(Element.ctrl, Element.bw, Element.n)
           equiv == SplitInst(Element.ctrl, EquivalentBW(Element.bw), Element.n)
<1>1. cached' = cached /\ prog' = prog
  BY ElementFacts DEF IInv, CreateSplit
<1>2. CASE Unmetered(<<inst>>)
  BY <1>1, <1>2, UnmeteredInv
<1>3. CASE Served(inst, "split")
  BY <1>1, <1>3, ServedInv
<1>4. CASE GiveUp("width")
  BY <1>1, <1>4, GiveUpInv
<1>5. CASE NoRecord /\ Configure(<<inst>>, opMetrics[equiv])
  BY <1>1, <1>5, NoRecordInv, ConfigureStatus, ConfigurePlace DEF IInv, MetricsInv
<1>6. CASE ~Known(inst) /\ ~Known(equiv) /\ Derived(inst, SplitMetric(Element), "split")
  <2>1. inst[1] = "split" /\ Equivalent(inst) = equiv
    BY DEF SplitInst, Equivalent
  <2>2. Sound(inst)
    BY <1>6, <2>1 DEF Sound, Known, IInv, MetricsInv, TableOK
  <2> QED
    BY <1>1, <1>6, <2>2, SplitCanon, DerivedInv
<1> QED
  BY <1>2, <1>3, <1>4, <1>5, <1>6 DEF CreateSplit

\* A merge is recorded only with the formula of its own width.
LEMMA GetMergeInv ==
  ASSUME IInv, NEW STATE insts, NEW STATE m, GetMerge(Element), Configure(insts, m),
         cached' = cached, prog' = prog
  PROVE  IInv'
<1> DEFINE inst == MergeInst(Element.ctrl, Element.bw, Element.n)
           formula == MergeMetric(Element.ctrl, Element.bw, Element.n)
<1>1. status' # "clash" /\ Place'
  BY ConfigureStatus, ConfigurePlace DEF IInv, MetricsInv
<1>2. CASE NoRecord
  BY <1>1, <1>2, NoRecordInv DEF IInv
<1>3. CASE ~Known(inst) /\ NewRecord(inst, formula)
  <2>1. inst[1] \notin {"copy", "split"}
    BY DEF MergeInst
  <2>2. Sound(inst)
    BY <1>3, <2>1, UnknownSound DEF IInv, MetricsInv
  <2> QED
    BY <1>1, <1>3, <2>2, MergeCanon, NewRecordInv DEF IInv
<1>4. NoRecord \/ (~Known(inst) /\ NewRecord(inst, formula))
  BY DEF GetMerge, MergeFor
<1> QED
  BY <1>2, <1>3, <1>4

LEMMA MergeStep ==
  ASSUME IInv, CreateMerge \/ CreateNondeterministic
  PROVE  IInv'
<1>1. cached' = cached /\ prog' = prog
  BY ElementFacts DEF IInv, CreateMerge, CreateNondeterministic
<1>2. CASE CreateMerge
  BY <1>1, <1>2, UnmeteredInv, GiveUpInv, GetMergeInv DEF CreateMerge
<1>3. CASE CreateNondeterministic
  BY <1>1, <1>3, UnmeteredInv, GiveUpInv, GetMergeInv DEF CreateNondeterministic
<1> QED
  BY <1>2, <1>3

LEMMA FUStep ==
  ASSUME IInv, CreateFU
  PROVE  IInv'
<1> DEFINE inst == FUInst(Element.n)
           opt == [of |-> <<"optimized", Element.n, 0, 0>>, times |-> 1, six |-> FALSE]
<1>1. cached' = cached /\ prog' = prog
  BY ElementFacts DEF IInv, CreateFU
<1>2. CASE Unmetered(<<inst>>)
  BY <1>1, <1>2, UnmeteredInv
<1>3. CASE Served(inst, "func")
  BY <1>1, <1>3, ServedInv
<1>4. inst[1] = "func" /\ inst[2] = Element.n
  BY DEF FUInst
<1>5. CASE ~Known(inst) /\ Derived(inst, opt, "func")
  <2>1. Written(opt) = Canon(inst)
    BY <1>4, WrittenFacts DEF Canon
  <2>2. Sound(inst)
    BY <1>4, <1>5, UnknownSound DEF IInv, MetricsInv
  <2> QED
    BY <1>1, <1>5, <2>1, <2>2, DerivedInv
<1>6. CASE /\ inst \in DOMAIN cached
           /\ localFile' = Append(localFile, Record(inst, Written(cached[inst])))
           /\ UNCHANGED <<opMetrics, cacheFile>>
           /\ Configure(<<inst>>, cached[inst])
  <2>1. Sound(inst) /\ Written(cached[inst]) = Canon(inst)
    BY <1>6, CanonWritten DEF IInv, MetricsInv, CachedOK
  <2>2. FileOK(localFile')
    BY <1>6, <2>1, AppendRecord DEF IInv, MetricsInv
  <2>3. status' # "clash" /\ Place'
    BY <1>1, <1>6, ConfigureStatus, ConfigurePlace DEF IInv, MetricsInv
  <2> QED
    BY <1>1, <1>6, <2>2, <2>3 DEF IInv, MetricsInv, TableOK, CachedOK, FileOK, NoClash
<1> QED
  BY <1>2, <1>3, <1>5, <1>6 DEF CreateFU

LEMMA PlainStep ==
  ASSUME IInv, CreateBuffer \/ CreateSource \/ CreateSink
  PROVE  IInv'
<1>1. cached' = cached /\ prog' = prog
  BY ElementFacts DEF IInv, CreateBuffer, CreateSource, CreateSink
<1>2. ASSUME NEW STATE insts, NEW STATE m, NoRecord, Configure(insts, m)
      PROVE  IInv'
  BY <1>1, <1>2, NoRecordInv, ConfigureStatus, ConfigurePlace DEF IInv, MetricsInv
<1>3. CASE CreateBuffer
  BY <1>2, <1>3 DEF CreateBuffer, Unmetered
<1>4. CASE CreateSource
  BY <1>2, <1>4 DEF CreateSource
<1>5. CASE CreateSink
  BY <1>2, <1>5 DEF CreateSink
<1> QED
  BY <1>3, <1>4, <1>5

-----------------------------------------------------------------------------
LEMMA InitMetrics == Init => IInv
<1> SUFFICES ASSUME Init PROVE IInv
  OBVIOUS
<1>1. localFile = <<>> /\ cacheFile = <<>> /\ <<>> \in Seq({}) /\ DOMAIN <<>> = {}
  BY DEF Init
<1>2. FileOK(localFile) /\ FileOK(cacheFile)
  BY <1>1 DEF FileOK
<1>3. TableOK
  BY DEF Init, TableOK
<1>4. CachedOK /\ NoClash /\ Place
  BY <1>1 DEF Init, CachedOK, NoClash, Place
<1> QED
  BY <1>2, <1>3, <1>4 DEF IInv, MetricsInv

\* The files of a sound run make a sound table in the next.
LEMMA LaunchStep ==
  ASSUME IInv, NEW p \in Revisions(prog), NEW fresh \in BOOLEAN, Launch(p, fresh)
  PROVE  IInv'
<1>1. FileOK(localFile') /\ FileOK(cacheFile')
  <2>1. FileOK(<<>>)
    <3>1. <<>> \in Seq({}) /\ DOMAIN <<>> = {}
      OBVIOUS
    <3> QED
      BY <3>1 DEF FileOK
  <2>2. localFile' = <<>> \/ localFile' = localFile
    BY DEF Launch
  <2> QED
    BY <2>1, <2>2 DEF Launch, IInv, MetricsInv
<1>2. Start(p, localFile', cacheFile) /\ cacheFile' = cacheFile
  BY DEF Launch
<1>3. ~Clashes(localFile', Standard) /\ ~Clashes(cacheFile, {})
  BY <1>1, <1>2, ReadSound
<1>4. NoClash'
  BY <1>2, <1>3 DEF Start, NoClash
<1>5. CachedOK'
  BY <1>1, <1>2, ReadSound DEF Start, CachedOK
<1>6. TableOK'
  <2>1. \A i \in DOMAIN ReadBack(localFile') :
          Sound(i) /\ ReadBack(localFile')[i] = Canon(i)
    BY <1>1, ReadSound
  <2>2. opMetrics' = [i \in Standard \cup DOMAIN ReadBack(localFile') |->
                        IF i \in Standard THEN Std(i) ELSE ReadBack(localFile')[i]]
    BY <1>2 DEF Start
  <2> HIDE DEF Start
  <2>3. \A i \in DOMAIN opMetrics' \ Standard : Sound(i) /\ opMetrics'[i] = Canon(i)
    BY <2>1, <2>2
  <2>4. \A i \in DOMAIN opMetrics' \ Standard : Written(opMetrics'[i]) = Canon(i)
    BY <2>3, CanonWritten
  <2> QED
    BY <2>2, <2>3, <2>4 DEF TableOK
<1>7. Place'
  BY <1>2, ProgramAssumption DEF Start, Place, IInv
<1> QED
  BY <1>1, <1>4, <1>5, <1>6, <1>7 DEF IInv, MetricsInv

LEMMA QuietStep ==
  ASSUME IInv, UNCHANGED <<prog, next, opMetrics, cached, localFile, cacheFile>>,
         status' # "clash"
  PROVE  IInv'
<1>1. NoRecord
  BY DEF NoRecord
<1> QED
  BY <1>1, NoRecordInv DEF IInv, Place

LEMMA NextMetrics == IInv /\ [Next]_vars => IInv'
<1> SUFFICES ASSUME IInv, [Next]_vars PROVE IInv'
  OBVIOUS
<1>1. CASE CreateCopy
  BY <1>1, CopyStep
<1>2. CASE CreateSplit
  BY <1>2, SplitStep
<1>3. CASE CreateMerge \/ CreateNondeterministic
  BY <1>3, MergeStep
<1>4. CASE CreateFU
  BY <1>4, FUStep
<1>5. CASE CreateBuffer \/ CreateSource \/ CreateSink
  BY <1>5, PlainStep
<1>6. CASE End \/ Kill
  BY <1>6, QuietStep DEF End, Kill
<1>7. CASE \E p \in Revisions(prog), fresh \in BOOLEAN : Launch(p, fresh)
  BY <1>7, LaunchStep
<1>8. CASE UNCHANGED vars
  BY <1>8, QuietStep DEF vars, IInv, MetricsInv, NoClash
<1> QED
  BY <1>1, <1>2, <1>3, <1>4, <1>5, <1>6, <1>7, <1>8 DEF Next

\* No run ever finds two metrics recorded for an instance or one that differs
\* from the standard: what Metrics derives does not depend on the order of
\* the units, on earlier runs or on where they stopped.
THEOREM NoClashAlways == Spec => []NoClash
<1>1. IInv => NoClash
  BY DEF IInv, MetricsInv
<1> QED
  BY InitMetrics, NextMetrics, <1>1, PTL DEF Spec

-----------------------------------------------------------------------------
(***************************************************************************)
(* What a unit is given and how its instance is configured: every use of   *)
(* an instance has one metric, the configuration file one entry for it,    *)
(* and a run repeated on its directory gives every element what it had.    *)
(*                                                                         *)
(* The table a unit is looked up in only grows, and what it gains is never *)
(* an instance that could already be looked up.  Exact, the metric an      *)
(* instance is found to have, therefore stays what it is once it is        *)
(* settled: within a run to the digit, from one run to the next to the six *)
(* digits of a record.                                                     *)
(***************************************************************************)
\* The look-up of an instance in the table t of the run and the records c of
\* the cache.
Settled(t, c, i) ==
  \/ i[1] \in {"source", "sink"}
  \/ i \in DOMAIN t
  \/ i[1] \in {"split", "merge"} /\ Equivalent(i) \in DOMAIN t
  \/ i[1] = "func" /\ i \in DOMAIN c
Exact(t, c, i) ==
  IF i[1] = "source" THEN t[Source]
  ELSE IF i[1] = "sink" THEN t[Sink]
  ELSE IF i \in DOMAIN t THEN t[i]
  ELSE IF i[1] = "func" THEN c[i]
  ELSE t[Equivalent(i)]

\* The first instance printed for an element.
Chain(e) == IF e.n > 1 \/ ~e.init THEN OneBuf(e.bw) ELSE InitBuf(e.bw)
InstOf(e) ==
  CASE e.kind = "copy" -> CopyInst(e.bw, e.n)
    [] e.kind = "split" -> SplitInst(e.ctrl, e.bw, e.n)
    [] e.kind = "merge" -> MergeInst(e.ctrl, e.bw, e.n)
    [] e.kind \in {"mixer", "arbiter"} -> NondetInst(e.kind, e.ctrl, e.bw, e.n)
    [] e.kind = "func" -> FUInst(e.n)
    [] e.kind = "source" -> SourceInst(e.bw)
    [] e.kind = "sink" -> SinkInst(e.bw)
    [] OTHER -> Chain(e)
Buffers == {"onebuf", "init"}
ChainMetric(e) == [of |-> Latch, times |-> e.n, six |-> FALSE]

\* Whether an element is given a metric at all.
Metered(have, opt, e) ==
  /\ have /\ e.kind \notin {"mixer", "arbiter"}
  /\ (e.kind = "func" /\ ~opt) => FUInst(e.n) \in Standard

Entries(q) == {q[k] : k \in DOMAIN q}
InstsOf(q) == {q[k].inst : k \in DOMAIN q}

-----------------------------------------------------------------------------
(* The invariant, in parts. *)

\* Every metric is one.
MetricsTyped ==
  /\ \A i \in DOMAIN opMetrics : opMetrics[i] \in Metric
  /\ \A i \in DOMAIN cached : cached[i] \in Metric
  /\ \A k \in DOMAIN localFile : localFile[k].metric \in Metric
  /\ \A k \in DOMAIN cacheFile : cacheFile[k].metric \in Metric

\* Where the table comes from: the standard file and the output directory,
\* whose records the cache has too.
TableFrom ==
  /\ DOMAIN opMetrics \subseteq Standard \cup InstsOf(localFile)
  /\ \A i \in InstsOf(localFile) : i[1] \in {"split", "merge"} => i \in DOMAIN opMetrics
  /\ InstsOf(localFile) \subseteq InstsOf(cacheFile)
  /\ DOMAIN cached \subseteq InstsOf(cacheFile)
  /\ ~optimizer => \A i \in InstsOf(cacheFile) : i[1] # "func"

\* What the elements of p were given, one after the other.
GivenTo(p, q, have, opt) ==
  /\ \E S : q \in Seq(S)
  /\ Len(q) <= Len(p)
  /\ \A i \in DOMAIN q :
       /\ q[i] = Record(InstOf(p[i]), q[i].metric)
       /\ q[i].metric # NoMetric <=> Metered(have, opt, p[i])
       /\ (p[i].kind = "buffer" /\ q[i].metric # NoMetric) => q[i].metric = ChainMetric(p[i])

\* The records of R are what a look-up gives.
Agrees(R, t, c) ==
  \A r \in R : (r.metric # NoMetric /\ r.inst[1] \notin Buffers) =>
    Settled(t, c, r.inst) /\ r.metric = Exact(t, c, r.inst)
\* ... to six digits.
AgreesWritten(R, t, c) ==
  \A r \in R : (r.metric # NoMetric /\ r.inst[1] \notin Buffers) =>
    Settled(t, c, r.inst) /\ Written(r.metric) = Written(Exact(t, c, r.inst))

\* The table of instances against the configuration file.  While it has room
\* it holds exactly the instances configured.
Filling(table, file) ==
  /\ \E S : table \in Seq(S)
  /\ \E S : file \in Seq(S)
  /\ IsFiniteSet(Entries(table)) /\ Cardinality(Entries(table)) = Len(table)
  /\ IsFiniteSet(InstsOf(file))
  /\ Entries(table) \subseteq InstsOf(file)
  /\ Len(table) <= MAX_PROCESSES
  /\ Len(table) < MAX_PROCESSES => InstsOf(file) = Entries(table)
  /\ \A k \in DOMAIN file :
       file[k] = Record(file[k].inst, file[k].metric) /\ file[k].metric # NoMetric
  /\ \A i, j \in DOMAIN file :
       (i < j /\ file[i].inst = file[j].inst) => Cardinality(InstsOf(file)) > MAX_PROCESSES

Progress ==
  /\ next <= Len(prog) + 1
  /\ Len(given) = IF status = "missing" THEN next ELSE next - 1

RunInv ==
  /\ IInv /\ MetricsTyped /\ TableFrom /\ Progress
  /\ GivenTo(prog, given, haveMetrics, optimizer)
  /\ GivenTo(prog, previous, haveMetrics, optimizer)
  /\ Agrees(Entries(given), opMetrics, cached)
  /\ AgreesWritten(Entries(previous), opMetrics, cached)
  /\ Agrees(Entries(conf), opMetrics, cached)
  /\ Filling(configured, conf)
  /\ \A k \in DOMAIN given : given[k].metric # NoMetric => given[k].inst \in InstsOf(conf)

-----------------------------------------------------------------------------
(* Sequences of records. *)

LEMMA AppendFacts ==
  ASSUME NEW S, NEW q \in Seq(S), NEW x
  PROVE  /\ Append(q, x) \in Seq(S \cup {x})
         /\ Len(Append(q, x)) = Len(q) + 1
         /\ DOMAIN Append(q, x) = 1 .. Len(q) + 1
         /\ Append(q, x)[Len(q) + 1] = x
         /\ \A i \in 1 .. Len(q) : Append(q, x)[i] = q[i]
         /\ DOMAIN q = 1 .. Len(q) /\ Len(q) \in Nat
<1>1. q \in Seq(S \cup {x}) /\ x \in S \cup {x}
  OBVIOUS
<1> QED
  BY <1>1

LEMMA AppendSets ==
  ASSUME NEW S, NEW q \in Seq(S), NEW x
  PROVE  /\ Entries(Append(q, x)) = Entries(q) \cup {x}
         /\ InstsOf(Append(q, x)) = InstsOf(q) \cup {x.inst}
<1>1. \A i \in DOMAIN Append(q, x) : i \in 1 .. Len(q) \/ i = Len(q) + 1
  BY AppendFacts
<1>2. Len(q) + 1 \in DOMAIN Append(q, x) /\ 1 .. Len(q) \subseteq DOMAIN Append(q, x)
  BY AppendFacts
<1>3. Entries(Append(q, x)) = Entries(q) \cup {x}
  BY <1>1, <1>2, AppendFacts DEF Entries
<1>4. InstsOf(Append(q, x)) = InstsOf(q) \cup {x.inst}
  BY <1>1, <1>2, AppendFacts DEF InstsOf
<1> QED
  BY <1>3, <1>4

LEMMA RecordFacts ==
  ASSUME NEW i, NEW m
  PROVE  Record(i, m).inst = i /\ Record(i, m).metric = m
BY DEF Record

-----------------------------------------------------------------------------
(* printConf. *)

\* One instance enters the configuration file at most once while the table
\* has room, and is in it afterwards.
LEMMA EnterOne ==
  ASSUME NEW table, NEW file, Filling(table, file), NEW i, NEW m, m # NoMetric
  PROVE  /\ Filling(Entered(table, i), Configured(file, table, i, m))
         /\ InstsOf(Configured(file, table, i, m)) = InstsOf(file) \cup {i}
         /\ Entries(Configured(file, table, i, m)) \subseteq Entries(file) \cup {Record(i, m)}
<1> DEFINE r == Record(i, m)
<1>1. PICK S : table \in Seq(S)
  BY DEF Filling
<1>2. PICK T : file \in Seq(T)
  BY DEF Filling
<1>3. Remembered(table, i) <=> i \in Entries(table)
  BY DEF Remembered, Entries
<1>4. r.inst = i /\ r = Record(r.inst, r.metric) /\ r.metric # NoMetric
  BY RecordFacts
<1>5. CASE i \in Entries(table)
  <2>1. Entered(table, i) = table /\ Configured(file, table, i, m) = file
    BY <1>3, <1>5 DEF Entered, Configured
  <2>2. i \in InstsOf(file)
    BY <1>5 DEF Filling
  <2> QED
    BY <2>1, <2>2, Zenon
<1>6. CASE i \notin Entries(table)
  <2> HIDE DEF r
  <2> DEFINE new == Append(file, r)
  <2>1. Configured(file, table, i, m) = new
    BY <1>3, <1>6 DEF Configured, r
  <2>2. Entries(new) = Entries(file) \cup {r} /\ InstsOf(new) = InstsOf(file) \cup {i}
    BY <1>2, <1>4, AppendSets
  <2>3. new \in Seq(T \cup {r})
    BY <1>2, AppendFacts
  <2>4. IsFiniteSet(InstsOf(new))
    <3>1. IsFiniteSet(InstsOf(file))
      BY DEF Filling
    <3>2. IsFiniteSet(InstsOf(file) \cup {i})
      BY <3>1, FS_AddElement
    <3> QED
      BY <2>2, <3>2
  <2>5. /\ DOMAIN file = 1 .. Len(file) /\ Len(file) \in Nat
        /\ DOMAIN new = 1 .. Len(file) + 1
        /\ new[Len(file) + 1] = r
        /\ \A k \in 1 .. Len(file) : new[k] = file[k]
    BY <1>2, AppendFacts
  <2>6. \A k \in DOMAIN new :
          new[k] = Record(new[k].inst, new[k].metric) /\ new[k].metric # NoMetric
    <3> SUFFICES ASSUME NEW k \in DOMAIN new
                 PROVE  new[k] = Record(new[k].inst, new[k].metric) /\ new[k].metric # NoMetric
      OBVIOUS
    <3>1. CASE k = Len(file) + 1
      BY <1>4, <2>5, <3>1
    <3>2. CASE k \in 1 .. Len(file)
      BY <2>5, <3>2 DEF Filling
    <3> QED
      BY <2>5, <3>1, <3>2
  <2>7. /\ IsFiniteSet(Entries(table) \cup {i})
        /\ Cardinality(Entries(table) \cup {i}) = Len(table) + 1
        /\ Len(table) \in Nat
    <3>1. IsFiniteSet(Entries(table)) /\ Cardinality(Entries(table)) = Len(table)
      BY DEF Filling
    <3>2. /\ IsFiniteSet(Entries(table) \cup {i})
          /\ Cardinality(Entries(table) \cup {i}) = Cardinality(Entries(table)) + 1
      BY <1>6, <3>1, FS_AddElement, Zenon
    <3> QED
      BY <1>1, <3>1, <3>2
  <2> HIDE DEF new
  <2>8. Len(table) <= MAX_PROCESSES /\ MAX_PROCESSES \in Nat
    BY ProgramAssumption DEF Filling
  <2>9. CASE Len(table) = MAX_PROCESSES
    <3>1. Entered(table, i) = table
      BY <2>9, <2>8 DEF Entered
    <3>2. Entries(table) \cup {i} \subseteq InstsOf(new)
      BY <2>2 DEF Filling
    <3>3. Cardinality(Entries(table) \cup {i}) <= Cardinality(InstsOf(new))
      BY <2>4, <3>2, FS_Subset
    <3>4. Cardinality(InstsOf(new)) \in Nat
      BY <2>4, FS_CardinalityType
    <3>5. Cardinality(InstsOf(new)) > MAX_PROCESSES
      BY <2>7, <2>9, <3>3, <3>4
    <3>6. ~(Len(table) < MAX_PROCESSES)
      BY <2>8, <2>9
    <3>7. /\ \E X : table \in Seq(X)
          /\ \E X : new \in Seq(X)
          /\ Entries(table) \subseteq InstsOf(new)
      BY <1>1, <2>3, <3>2
    <3>8. Filling(table, new)
      BY <2>4, <2>6, <3>5, <3>6, <3>7 DEF Filling
    <3> QED
      BY <2>1, <2>2, <3>1, <3>8 DEF r
  <2>10. CASE Len(table) < MAX_PROCESSES
    <3> DEFINE grown == Append(table, i)
    <3>1. Entered(table, i) = grown
      BY <1>3, <1>6, <2>7, <2>10, <2>8 DEF Entered
    <3>2. /\ grown \in Seq(S \cup {i}) /\ Len(grown) = Len(table) + 1
          /\ Entries(grown) = Entries(table) \cup {i}
      BY <1>1, AppendFacts, AppendSets
    <3> HIDE DEF grown
    <3>3. InstsOf(file) = Entries(table)
      BY <2>10 DEF Filling
    <3>4. InstsOf(new) = Entries(grown)
      BY <2>2, <3>2, <3>3
    <3>5. Len(grown) <= MAX_PROCESSES
      BY <2>7, <2>8, <2>10, <3>2
    <3>6. ASSUME NEW k \in DOMAIN new, NEW l \in DOMAIN new, k < l, new[k].inst = new[l].inst
          PROVE  Cardinality(InstsOf(new)) > MAX_PROCESSES
      <4>1. k \in 1 .. Len(file) /\ new[k] = file[k]
        BY <2>5, <3>6
      <4>2. new[k].inst \in InstsOf(file)
        BY <2>5, <4>1 DEF InstsOf
      <4>3. l # Len(file) + 1
        BY <1>4, <1>6, <2>5, <3>3, <3>6, <4>2
      <4>4. l \in 1 .. Len(file) /\ new[l] = file[l]
        BY <2>5, <4>3
      <4>5. Cardinality(InstsOf(file)) > MAX_PROCESSES
        BY <2>5, <3>6, <4>1, <4>4 DEF Filling
      <4>6. Cardinality(InstsOf(file)) = Len(table)
        BY <3>3 DEF Filling
      <4> QED
        BY <2>7, <2>8, <2>10, <4>5, <4>6
    <3>7. /\ \E X : grown \in Seq(X)
          /\ \E X : new \in Seq(X)
          /\ IsFiniteSet(Entries(grown)) /\ Cardinality(Entries(grown)) = Len(grown)
      BY <2>3, <2>7, <3>2
    <3>8. Filling(grown, new)
      BY <2>4, <2>6, <3>4, <3>5, <3>6, <3>7 DEF Filling
    <3> QED
      BY <2>1, <2>2, <3>1, <3>8 DEF r
  <2> QED
    BY <2>7, <2>8, <2>9, <2>10
<1> QED
  BY <1>5, <1>6
\* printConf of an element's one or two instances.
LEMMA ConfigureFacts ==
  ASSUME NEW STATE insts, NEW STATE m, Configure(insts, m), m # NoMetric,
         Filling(configured, conf)
  PROVE  /\ Filling(configured', conf')
         /\ InstsOf(conf) \subseteq InstsOf(conf') /\ insts[1] \in InstsOf(conf')
         /\ Entries(conf') \subseteq Entries(conf) \cup {Record(insts[1], m), Record(insts[2], m)}
         /\ Len(insts) = 1 => Entries(conf') \subseteq Entries(conf) \cup {Record(insts[1], m)}
<1> DEFINE table == Entered(configured, insts[1])
           file == Configured(conf, configured, insts[1], m)
           table2 == Entered(table, insts[2])
           file2 == Configured(file, table, insts[2], m)
<1>1. /\ Filling(table, file)
      /\ InstsOf(file) = InstsOf(conf) \cup {insts[1]}
      /\ Entries(file) \subseteq Entries(conf) \cup {Record(insts[1], m)}
  BY EnterOne
<1>2. /\ configured' = IF Len(insts) = 1 THEN table ELSE table2
      /\ conf' = IF Len(insts) = 1 THEN file ELSE file2
  BY DEF Configure
<1> HIDE DEF table, file
<1>3. /\ Filling(table2, file2)
      /\ InstsOf(file2) = InstsOf(file) \cup {insts[2]}
      /\ Entries(file2) \subseteq Entries(file) \cup {Record(insts[2], m)}
  BY <1>1, EnterOne
<1> HIDE DEF table2, file2
<1> QED
  BY <1>1, <1>2, <1>3

-----------------------------------------------------------------------------
(* The look-up. *)

\* The table t2 has what t has, and nothing that could be looked up in t.
Extended(t, t2, c) ==
  /\ DOMAIN t \subseteq DOMAIN t2
  /\ \A j \in DOMAIN t : t2[j] = t[j]
  /\ \A j \in DOMAIN t2 : j \in DOMAIN t \/ ~Settled(t, c, j)

LEMMA LookupStays ==
  ASSUME NEW t, NEW t2, NEW c, Extended(t, t2, c), Standard \subseteq DOMAIN t,
         NEW i, Settled(t, c, i)
  PROVE  Settled(t2, c, i) /\ Exact(t2, c, i) = Exact(t, c, i)
<1>1. Source \in DOMAIN t /\ Sink \in DOMAIN t
  BY ProgramAssumption DEF Source, Sink
<1>2. t2[Source] = t[Source] /\ t2[Sink] = t[Sink]
  BY <1>1 DEF Extended
<1>3. CASE i[1] \in {"source", "sink"}
  BY <1>2, <1>3 DEF Settled, Exact
<1>4. CASE i[1] \notin {"source", "sink"} /\ i \in DOMAIN t
  BY <1>4 DEF Settled, Exact, Extended
<1>5. CASE i[1] \notin {"source", "sink"} /\ i \notin DOMAIN t
  <2>1. i \notin DOMAIN t2
    BY <1>5 DEF Extended
  <2>2. CASE i[1] \in {"split", "merge"} /\ Equivalent(i) \in DOMAIN t
    <3>1. Equivalent(i) \in DOMAIN t2 /\ t2[Equivalent(i)] = t[Equivalent(i)]
      BY <2>2 DEF Extended
    <3>2. i[1] # "func"
      BY <2>2
    <3> QED
      BY <1>5, <2>1, <2>2, <3>1, <3>2 DEF Settled, Exact
  <2>3. CASE i[1] = "func" /\ i \in DOMAIN c
    BY <1>5, <2>1, <2>3 DEF Settled, Exact
  <2> QED
    BY <1>5, <2>2, <2>3 DEF Settled
<1> QED
  BY <1>3, <1>4, <1>5

LEMMA AgreesStays ==
  ASSUME NEW t, NEW t2, NEW c, Extended(t, t2, c), Standard \subseteq DOMAIN t, NEW R
  PROVE  /\ Agrees(R, t, c) => Agrees(R, t2, c)
         /\ AgreesWritten(R, t, c) => AgreesWritten(R, t2, c)
BY LookupStays DEF Agrees, AgreesWritten

LEMMA SameTable ==
  ASSUME NEW t, NEW c
  PROVE  Extended(t, t, c)
BY DEF Extended

\* What was not settled and is entered is looked up from then on.
LEMMA NewSettled ==
  ASSUME NEW t, NEW c, NEW i, NEW m, ~Settled(t, c, i)
  PROVE  /\ Extended(t, With(t, i, m), c)
         /\ Settled(With(t, i, m), c, i) /\ Exact(With(t, i, m), c, i) = m
<1> DEFINE t2 == With(t, i, m)
<1>1. i \notin DOMAIN t /\ i[1] \notin {"source", "sink"}
  BY DEF Settled
<1>2. /\ DOMAIN t2 = DOMAIN t \cup {i} /\ t2[i] = m
      /\ \A j \in DOMAIN t : t2[j] = t[j]
  BY <1>1 DEF With
<1> HIDE DEF t2
<1>3. Extended(t, t2, c)
  BY <1>2 DEF Extended
<1>4. Settled(t2, c, i)
  BY <1>2 DEF Settled
<1>5. Exact(t2, c, i) = m
  BY <1>1, <1>2 DEF Exact
<1> QED
  BY <1>3, <1>4, <1>5 DEF t2
-----------------------------------------------------------------------------
(* What a step may do to the records and the table. *)

LEMMA AppendMetric ==
  ASSUME NEW file, FileOK(file), NEW i, NEW m \in Metric,
         \A k \in DOMAIN file : file[k].metric \in Metric
  PROVE  /\ InstsOf(Append(file, Record(i, m))) = InstsOf(file) \cup {i}
         /\ \A k \in DOMAIN Append(file, Record(i, m)) :
              Append(file, Record(i, m))[k].metric \in Metric
<1> DEFINE r == Record(i, m)
<1>1. PICK S : file \in Seq(S)
  BY DEF FileOK
<1>2. r.inst = i /\ r.metric = m
  BY RecordFacts
<1> HIDE DEF r
<1>3. InstsOf(Append(file, r)) = InstsOf(file) \cup {i}
  BY <1>1, <1>2, AppendSets
<1>4. \A k \in DOMAIN Append(file, r) : Append(file, r)[k].metric \in Metric
  <2>1. \A k \in DOMAIN Append(file, r) : k \in 1 .. Len(file) \/ k = Len(file) + 1
    BY <1>1, AppendFacts
  <2> QED
    BY <1>1, <1>2, <2>1, AppendFacts
<1> QED
  BY <1>3, <1>4 DEF r

LEMMA WrittenMetric ==
  ASSUME NEW m \in Metric
  PROVE  Written(m) \in Metric
BY DEF Written, Metric

LEMMA NoRecordFrom ==
  ASSUME MetricsTyped, TableFrom, NoRecord, UNCHANGED <<cached, optimizer>>
  PROVE  MetricsTyped' /\ TableFrom'
BY DEF MetricsTyped, TableFrom, NoRecord

LEMMA NewRecordFrom ==
  ASSUME IInv, MetricsTyped, TableFrom, NEW STATE i, NEW STATE m, m \in Metric, NewRecord(i, m),
         i[1] = "func" => optimizer, UNCHANGED <<cached, optimizer>>
  PROVE  MetricsTyped' /\ TableFrom'
<1>1. Written(m) \in Metric
  BY WrittenMetric
<1>2. /\ InstsOf(localFile') = InstsOf(localFile) \cup {i}
      /\ \A k \in DOMAIN localFile' : localFile'[k].metric \in Metric
  BY <1>1, AppendMetric DEF NewRecord, IInv, MetricsInv, MetricsTyped
<1>3. /\ InstsOf(cacheFile') = InstsOf(cacheFile) \cup {i}
      /\ \A k \in DOMAIN cacheFile' : cacheFile'[k].metric \in Metric
  BY <1>1, AppendMetric DEF NewRecord, IInv, MetricsInv, MetricsTyped
<1>4. /\ DOMAIN opMetrics' = DOMAIN opMetrics \cup {i}
      /\ \A j \in DOMAIN opMetrics' : opMetrics'[j] \in Metric
  BY DEF NewRecord, With, MetricsTyped
<1>5. MetricsTyped'
  BY <1>2, <1>3, <1>4 DEF MetricsTyped
<1>6. TableFrom'
  BY <1>2, <1>3, <1>4 DEF TableFrom
<1> QED
  BY <1>5, <1>6

\* A record of the cache is copied to the output directory.
LEMMA CachedFrom ==
  ASSUME IInv, MetricsTyped, TableFrom, NEW STATE i, i \in DOMAIN cached, i[1] = "func",
         localFile' = Append(localFile, Record(i, Written(cached[i]))),
         UNCHANGED <<opMetrics, cacheFile, cached, optimizer>>
  PROVE  MetricsTyped' /\ TableFrom'
<1>1. Written(cached[i]) \in Metric
  BY WrittenMetric DEF MetricsTyped
<1>2. /\ InstsOf(localFile') = InstsOf(localFile) \cup {i}
      /\ \A k \in DOMAIN localFile' : localFile'[k].metric \in Metric
  BY <1>1, AppendMetric DEF IInv, MetricsInv, MetricsTyped
<1>3. MetricsTyped'
  BY <1>2 DEF MetricsTyped
<1>4. TableFrom'
  BY <1>2 DEF TableFrom
<1> QED
  BY <1>3, <1>4

-----------------------------------------------------------------------------
(* One element. *)

LEMMA ElementPlace ==
  ASSUME RunInv, NEW STATE kinds, Translating(kinds)
  PROVE  /\ Element \in ElementSet /\ Element.kind \in kinds /\ Element = prog[next]
         /\ next \in 1 .. Len(prog) /\ Len(prog) \in Nat /\ DOMAIN prog = 1 .. Len(prog)
         /\ Len(given) = next - 1 /\ status = "running"
         /\ UNCHANGED <<optimizer, haveMetrics, prog, cached, previous>>
<1>1. prog \in Seq(ElementSet)
  BY ProgramAssumption DEF RunInv, IInv, Place
<1>2. next \in 1 .. Len(prog)
  BY <1>1 DEF RunInv, IInv, Place, Translating
<1>3. Element \in ElementSet
  BY <1>1, <1>2 DEF Element
<1>4. status = "running" /\ Len(given) = next - 1
  BY DEF Translating, RunInv, Progress
<1> QED
  BY <1>1, <1>2, <1>3, <1>4 DEF Element, Translating

LEMMA GivenAppend ==
  ASSUME NEW p, NEW q, NEW have, NEW opt, GivenTo(p, q, have, opt), Len(q) < Len(p),
         NEW e, e = p[Len(q) + 1], NEW r, r = Record(InstOf(e), r.metric),
         r.metric # NoMetric <=> Metered(have, opt, e),
         (e.kind = "buffer" /\ r.metric # NoMetric) => r.metric = ChainMetric(e)
  PROVE  /\ GivenTo(p, Append(q, r), have, opt)
         /\ Entries(Append(q, r)) = Entries(q) \cup {r}
         /\ Len(Append(q, r)) = Len(q) + 1
<1> DEFINE new == Append(q, r)
<1>1. PICK S : q \in Seq(S)
  BY DEF GivenTo
<1>3. /\ new \in Seq(S \cup {r}) /\ Len(new) = Len(q) + 1
      /\ DOMAIN new = 1 .. Len(q) + 1 /\ new[Len(q) + 1] = r
      /\ \A i \in 1 .. Len(q) : new[i] = q[i]
      /\ DOMAIN q = 1 .. Len(q) /\ Len(q) \in Nat
  BY <1>1, AppendFacts
<1>4. Entries(new) = Entries(q) \cup {r}
  BY <1>1, AppendSets
<1> HIDE DEF new
<1>5. ASSUME NEW i \in DOMAIN new
      PROVE  /\ new[i] = Record(InstOf(p[i]), new[i].metric)
             /\ new[i].metric # NoMetric <=> Metered(have, opt, p[i])
             /\ (p[i].kind = "buffer" /\ new[i].metric # NoMetric) =>
                  new[i].metric = ChainMetric(p[i])
  <2>1. CASE i = Len(q) + 1
    BY <1>3, <2>1
  <2>2. CASE i \in 1 .. Len(q)
    BY <1>3, <2>2 DEF GivenTo
  <2> QED
    BY <1>3, <2>1, <2>2
<1>6. GivenTo(p, new, have, opt)
  BY <1>3, <1>5 DEF GivenTo
<1> QED
  BY <1>3, <1>4, <1>6 DEF new
\* An element is given a metric that is looked up from now on, or that of its
\* chain of buffers, or none; its instance is configured with it.
LEMMA ElementInv ==
  ASSUME RunInv, NEW STATE kinds, Translating(kinds), NEW STATE insts, NEW STATE m,
         Configure(insts, m), IInv', MetricsTyped', TableFrom',
         Extended(opMetrics, opMetrics', cached),
         insts[1] = InstOf(Element),
         m # NoMetric <=> Metered(haveMetrics, optimizer, Element),
         m # NoMetric =>
           \/ /\ Element.kind # "buffer" /\ Len(insts) = 1
              /\ Settled(opMetrics', cached, insts[1])
              /\ m = Exact(opMetrics', cached, insts[1])
           \/ /\ Element.kind = "buffer" /\ m = ChainMetric(Element)
              /\ insts[1][1] \in Buffers /\ (Len(insts) # 1 => insts[2][1] \in Buffers)
  PROVE  RunInv'
<1> DEFINE r == Record(insts[1], m)
<1>1. /\ next \in 1 .. Len(prog) /\ Len(prog) \in Nat
      /\ Len(given) = next - 1 /\ status = "running" /\ Element = prog[next]
      /\ UNCHANGED <<optimizer, haveMetrics, prog, cached, previous>>
  BY ElementPlace
<1>2. Len(given) + 1 = next /\ Len(given) + 1 <= Len(prog)
  BY <1>1
<1>3. r.inst = insts[1] /\ r.metric = m
  BY RecordFacts
<1>4. given' = Append(given, r)
  BY DEF Configure
<1> HIDE DEF r
<1>5. /\ GivenTo(prog, given', haveMetrics, optimizer)
      /\ Entries(given') = Entries(given) \cup {r} /\ Len(given') = next
  <2>1. GivenTo(prog, given, haveMetrics, optimizer)
    BY DEF RunInv
  <2>2. Element = prog[Len(given) + 1]
    BY <1>1, <1>2
  <2>3. Element.kind = "buffer" /\ m # NoMetric => m = ChainMetric(Element)
    OBVIOUS
  <2>4. r = Record(InstOf(Element), r.metric) /\ Len(given) < Len(prog)
    BY <1>1, <1>3 DEF r
  <2>5. /\ r.metric # NoMetric <=> Metered(haveMetrics, optimizer, Element)
        /\ (Element.kind = "buffer" /\ r.metric # NoMetric) => r.metric = ChainMetric(Element)
    BY <1>3, <2>3
  <2>6. /\ GivenTo(prog, Append(given, r), haveMetrics, optimizer)
        /\ Entries(Append(given, r)) = Entries(given) \cup {r}
        /\ Len(Append(given, r)) = Len(given) + 1
    <3>1. GivenTo(prog, Append(given, r), haveMetrics, optimizer)
      BY <2>1, <2>2, <2>4, <2>5, GivenAppend
    <3>2. Entries(Append(given, r)) = Entries(given) \cup {r}
      BY <2>1, <2>2, <2>4, <2>5, GivenAppend
    <3>3. Len(Append(given, r)) = Len(given) + 1
      BY <2>1, <2>2, <2>4, <2>5, GivenAppend
    <3> QED
      BY <3>1, <3>2, <3>3
  <2> QED
    BY <1>2, <1>4, <2>6
<1>6. Standard \subseteq DOMAIN opMetrics
  BY DEF RunInv, IInv, MetricsInv, TableOK
<1>7. /\ Agrees(Entries(given), opMetrics', cached)
      /\ Agrees(Entries(conf), opMetrics', cached)
      /\ AgreesWritten(Entries(previous), opMetrics', cached)
  BY <1>6, AgreesStays DEF RunInv
<1>8. Agrees(Entries(given'), opMetrics', cached)
  BY <1>3, <1>5, <1>7 DEF Agrees
<1>9. /\ Filling(configured', conf') /\ Agrees(Entries(conf'), opMetrics', cached)
      /\ InstsOf(conf) \subseteq InstsOf(conf')
      /\ m # NoMetric => insts[1] \in InstsOf(conf')
  <2>1. CASE m = NoMetric
    <3>1. UNCHANGED <<configured, conf>>
      BY <2>1 DEF Configure
    <3> QED
      BY <1>7, <2>1, <3>1 DEF RunInv
  <2>2. CASE m # NoMetric
    <3> DEFINE r2 == Record(insts[2], m)
    <3>1. Filling(configured, conf)
      BY DEF RunInv
    <3>2. /\ Filling(configured', conf')
          /\ InstsOf(conf) \subseteq InstsOf(conf') /\ insts[1] \in InstsOf(conf')
          /\ Entries(conf') \subseteq Entries(conf) \cup {r, r2}
          /\ Len(insts) = 1 => Entries(conf') \subseteq Entries(conf) \cup {r}
      BY <2>2, <3>1, ConfigureFacts DEF r
    <3>3. r2.inst = insts[2]
      BY RecordFacts
    <3> HIDE DEF r2
    <3>4. Agrees(Entries(conf'), opMetrics', cached)
      BY <1>3, <1>7, <2>2, <3>2, <3>3 DEF Agrees
    <3> QED
      BY <3>2, <3>4
  <2> QED
    BY <2>1, <2>2
<1>10. \A k \in DOMAIN given' : given'[k].metric # NoMetric => given'[k].inst \in InstsOf(conf')
  <2>1. \A x \in Entries(given) : x.metric # NoMetric => x.inst \in InstsOf(conf)
    BY DEF Entries, RunInv
  <2>2. \A x \in Entries(given') : x.metric # NoMetric => x.inst \in InstsOf(conf')
    BY <1>3, <1>5, <1>9, <2>1
  <2> QED
    BY <2>2 DEF Entries
<1>11. Progress'
  <2>1. \/ next' = next /\ status' = "missing"
        \/ next' = next + 1 /\ status' = status
    BY <1>1 DEF Configure
  <2>2. next' <= Len(prog) + 1 /\ Len(given') = IF status' = "missing" THEN next' ELSE next' - 1
    BY <1>1, <1>5, <2>1
  <2> QED
    BY <1>1, <2>2 DEF Progress
<1>12. GivenTo(prog, previous, haveMetrics, optimizer)
  BY DEF RunInv
<1> QED
  BY <1>1, <1>5, <1>7, <1>8, <1>9, <1>10, <1>11, <1>12 DEF RunInv

\* Nothing is given.
LEMMA QuietInv ==
  ASSUME RunInv, IInv', status = "running", status' # "missing",
         UNCHANGED <<optimizer, haveMetrics, prog, next, opMetrics, cached, localFile, cacheFile,
                     configured, conf, given, previous>>
  PROVE  RunInv'
<1>1. Progress'
  BY DEF RunInv, Progress
<1>2. MetricsTyped' /\ TableFrom'
  BY DEF RunInv, MetricsTyped, TableFrom
<1> QED
  BY <1>1, <1>2 DEF RunInv

LEMMA GiveUpRun ==
  ASSUME RunInv, IInv', NEW STATE kinds, Translating(kinds), GiveUp("width")
  PROVE  RunInv'
<1>1. /\ status = "running" /\ status' = "width"
      /\ UNCHANGED <<optimizer, haveMetrics, prog, next, opMetrics, cached, localFile, cacheFile,
                     configured, conf, given, previous>>
  BY ElementPlace DEF GiveUp, NoRecord, outputs
<1> QED
  BY <1>1, QuietInv
-----------------------------------------------------------------------------
(* Metrics and instances of the elements. *)

LEMMA MetricExists ==
  ASSUME NEW m \in Metric
  PROVE  m # NoMetric
BY ProgramAssumption

LEMMA ExactMetric ==
  ASSUME RunInv, NEW STATE i, Settled(opMetrics, cached, i)
  PROVE  Exact(opMetrics, cached, i) \in Metric
<1>1. Source \in DOMAIN opMetrics /\ Sink \in DOMAIN opMetrics
  BY ProgramAssumption DEF Source, Sink, RunInv, IInv, MetricsInv, TableOK
<1>2. /\ \A j \in DOMAIN opMetrics : opMetrics[j] \in Metric
      /\ \A j \in DOMAIN cached : cached[j] \in Metric
  BY DEF RunInv, MetricsTyped
<1> QED
  BY <1>1, <1>2 DEF Settled, Exact

LEMMA LevelsNat ==
  ASSUME NEW n \in Nat
  PROVE  Levels(n) \in Nat
<1> DEFINE S == {k \in 0 .. n : 2^k < n}
<1>1. IsFiniteSet(0 .. n)
  <2>1. 0 \in Int /\ n \in Int
    OBVIOUS
  <2> QED
    BY <2>1, FS_Interval
<1>2. S \subseteq 0 .. n
  OBVIOUS
<1> HIDE DEF S
<1>3. IsFiniteSet(S)
  BY <1>1, <1>2, FS_Subset
<1>4. Cardinality(S) \in Nat
  BY <1>3, FS_CardinalityType
<1> QED
  BY <1>4 DEF Levels, S

LEMMA CopyMetricTyped ==
  ASSUME RunInv, NEW STATE bw, NEW STATE n, n \in Nat, Known(CopyInst(EquivalentBW(bw), 2))
  PROVE  CopyMetric(bw, n) \in Metric
<1> DEFINE base == opMetrics[CopyInst(EquivalentBW(bw), 2)]
           k == IF Levels(n) - 1 < 1 THEN 1 ELSE Levels(n) - 1
<1>1. base \in Metric
  BY DEF RunInv, MetricsTyped, Known
<1>2. k \in Nat
  BY LevelsNat
<1>3. CopyMetric(bw, n) = [of |-> base.of, times |-> base.times * k, six |-> base.six]
  BY DEF CopyMetric
<1> HIDE DEF base, k
<1>4. base.of \in Standard \cup Formulas /\ base.times \in Nat /\ base.six \in BOOLEAN
  BY <1>1 DEF Metric
<1>5. base.times * k \in Nat
  BY <1>2, <1>4
<1> QED
  BY <1>3, <1>4, <1>5 DEF Metric

LEMMA FormulaTyped ==
  ASSUME NEW a \in {"splitOf", "mergeOf", "optimized"}, NEW b \in Nat, NEW c \in Nat, NEW d \in Nat
  PROVE  [of |-> <<a, b, c, d>>, times |-> 1, six |-> FALSE] \in Metric
BY DEF Metric, Formulas

LEMMA KindFacts ==
  ASSUME NEW e \in ElementSet
  PROVE  /\ e.kind \in Kinds /\ e.bw \in Nat /\ e.n \in Nat /\ e.ctrl \in Nat
         /\ EquivalentBW(e.bw) \in Nat
         /\ e.kind = "copy" => InstOf(e) = CopyInst(e.bw, e.n)
         /\ e.kind = "split" => InstOf(e) = SplitInst(e.ctrl, e.bw, e.n)
         /\ e.kind = "merge" => InstOf(e) = MergeInst(e.ctrl, e.bw, e.n)
         /\ e.kind \in {"mixer", "arbiter"} => InstOf(e) = NondetInst(e.kind, e.ctrl, e.bw, e.n)
         /\ e.kind = "func" => InstOf(e) = FUInst(e.n)
         /\ e.kind = "source" => InstOf(e) = SourceInst(e.bw)
         /\ e.kind = "sink" => InstOf(e) = SinkInst(e.bw)
         /\ e.kind = "buffer" => InstOf(e) = Chain(e)
<1>1. e.kind \in Kinds /\ e.bw \in Nat /\ e.n \in Nat /\ e.ctrl \in Nat
  BY DEF ElementSet
<1>2. EquivalentBW(e.bw) \in Nat
  BY <1>1 DEF EquivalentBW
<1> QED
  BY <1>1, <1>2 DEF InstOf

\* The first component of a name, and the name of equivalent width.
LEMMA NameFacts ==
  ASSUME NEW a, NEW bw, NEW n, NEW k
  PROVE  /\ CopyInst(bw, n)[1] = "copy" /\ SplitInst(a, bw, n)[1] = "split"
         /\ MergeInst(a, bw, n)[1] = "merge" /\ NondetInst(k, a, bw, n)[1] = k
         /\ FUInst(n)[1] = "func" /\ SourceInst(bw)[1] = "source" /\ SinkInst(bw)[1] = "sink"
         /\ OneBuf(bw)[1] \in Buffers /\ InitBuf(bw)[1] \in Buffers
         /\ Equivalent(SplitInst(a, bw, n)) = SplitInst(a, EquivalentBW(bw), n)
         /\ Equivalent(MergeInst(a, bw, n)) = MergeInst(a, EquivalentBW(bw), n)
BY DEF CopyInst, SplitInst, MergeInst, NondetInst, FUInst, SourceInst, SinkInst, OneBuf, InitBuf,
       Buffers, Equivalent

-----------------------------------------------------------------------------
(* The ways an element gets its metric. *)

LEMMA UnmeteredRun ==
  ASSUME RunInv, IInv', NEW STATE kinds, Translating(kinds), NEW STATE insts, Unmetered(insts),
         insts[1] = InstOf(Element), ~Metered(haveMetrics, optimizer, Element)
  PROVE  RunInv'
<1>1. Configure(insts, NoMetric) /\ NoRecord
  BY DEF Unmetered
<1>2. UNCHANGED <<cached, optimizer>> /\ opMetrics' = opMetrics
  BY <1>1, ElementPlace DEF NoRecord
<1>3. MetricsTyped' /\ TableFrom'
  BY <1>1, <1>2, NoRecordFrom DEF RunInv
<1>4. Extended(opMetrics, opMetrics', cached)
  BY <1>2, SameTable
<1> DEFINE m == NoMetric
<1>5. /\ m = NoMetric /\ Configure(insts, m)
      /\ m # NoMetric <=> Metered(haveMetrics, optimizer, Element)
  BY <1>1
<1> HIDE DEF m
<1> QED
  BY <1>3, <1>4, <1>5, ElementInv

\* From the table, by its own or an equivalent name, or from the cache.
LEMMA FoundRun ==
  ASSUME RunInv, IInv', NEW STATE kinds, Translating(kinds), NEW STATE m,
         MetricsTyped', TableFrom', opMetrics' = opMetrics,
         Configure(<<InstOf(Element)>>, m), Element.kind # "buffer",
         Metered(haveMetrics, optimizer, Element),
         Settled(opMetrics, cached, InstOf(Element)),
         m = Exact(opMetrics, cached, InstOf(Element))
  PROVE  RunInv'
<1> DEFINE insts == <<InstOf(Element)>>
<1>1. insts[1] = InstOf(Element) /\ Len(insts) = 1 /\ Configure(insts, m)
  OBVIOUS
<1>2. Extended(opMetrics, opMetrics', cached)
  BY SameTable
<1>3. m # NoMetric
  BY ExactMetric, MetricExists
<1> HIDE DEF insts
<1>4. /\ Settled(opMetrics', cached, insts[1])
      /\ m = Exact(opMetrics', cached, insts[1])
  BY <1>1
<1> QED
  BY <1>1, <1>2, <1>3, <1>4, ElementInv

LEMMA DerivedRun ==
  ASSUME RunInv, IInv', NEW STATE kinds, Translating(kinds), NEW STATE m, m \in Metric,
         NewRecord(InstOf(Element), m), Configure(<<InstOf(Element)>>, m),
         Element.kind # "buffer", Metered(haveMetrics, optimizer, Element),
         ~Settled(opMetrics, cached, InstOf(Element)),
         InstOf(Element)[1] = "func" => optimizer
  PROVE  RunInv'
<1> DEFINE insts == <<InstOf(Element)>>
<1>1. insts[1] = InstOf(Element) /\ Len(insts) = 1 /\ Configure(insts, m)
  OBVIOUS
<1>2. UNCHANGED <<cached, optimizer>>
  BY ElementPlace
<1>3. MetricsTyped' /\ TableFrom'
  BY <1>2, NewRecordFrom DEF RunInv
<1>4. opMetrics' = With(opMetrics, InstOf(Element), m)
  BY DEF NewRecord
<1>5. /\ Extended(opMetrics, opMetrics', cached)
      /\ Settled(opMetrics', cached, InstOf(Element))
      /\ m = Exact(opMetrics', cached, InstOf(Element))
  BY <1>4, NewSettled
<1>6. m # NoMetric
  BY MetricExists
<1> HIDE DEF insts
<1> QED
  BY <1>1, <1>3, <1>5, <1>6, ElementInv
-----------------------------------------------------------------------------
(* The elements. *)

LEMMA CopyRun ==
  ASSUME RunInv, CreateCopy
  PROVE  RunInv'
<1> DEFINE inst == CopyInst(Element.bw, Element.n)
           m == CopyMetric(Element.bw, Element.n)
<1>1. IInv' /\ Translating({"copy"})
  BY CopyStep DEF RunInv, CreateCopy
<1>2. /\ Element \in ElementSet /\ Element.kind = "copy"
      /\ UNCHANGED <<cached, optimizer>>
  BY <1>1, ElementPlace
<1>3. InstOf(Element) = inst /\ inst[1] = "copy" /\ Element.n \in Nat
  BY <1>2, KindFacts, NameFacts
<1>4. Metered(haveMetrics, optimizer, Element) <=> haveMetrics
  BY <1>2 DEF Metered
<1>5. CASE ~haveMetrics /\ Unmetered(<<inst>>)
  <2> DEFINE insts == <<inst>>
  <2>1. insts[1] = InstOf(Element)
    BY <1>3
  <2> QED
    BY <1>1, <1>4, <1>5, <2>1, UnmeteredRun
<1>6. CASE haveMetrics /\ Known(inst) /\ Served(inst, "copy")
  <2>1. /\ NoRecord /\ Configure(<<InstOf(Element)>>, opMetrics[inst])
        /\ opMetrics' = opMetrics
    BY <1>3, <1>6 DEF Served, NoRecord
  <2>2. MetricsTyped' /\ TableFrom'
    BY <1>2, <2>1, NoRecordFrom DEF RunInv
  <2>3. /\ Settled(opMetrics, cached, InstOf(Element))
        /\ opMetrics[inst] = Exact(opMetrics, cached, InstOf(Element))
    BY <1>3, <1>6 DEF Settled, Exact, Known
  <2> QED
    BY <1>1, <1>2, <1>4, <1>6, <2>1, <2>2, <2>3, FoundRun
<1>7. CASE GiveUp("width")
  BY <1>1, <1>7, GiveUpRun
<1>8. CASE /\ haveMetrics /\ ~Known(inst) /\ Known(CopyInst(EquivalentBW(Element.bw), 2))
           /\ Derived(inst, m, "copy")
  <2>1. NewRecord(InstOf(Element), m) /\ Configure(<<InstOf(Element)>>, m)
    BY <1>3, <1>8 DEF Derived
  <2>2. m \in Metric
    BY <1>3, <1>8, CopyMetricTyped
  <2>3. ~Settled(opMetrics, cached, InstOf(Element))
    BY <1>3, <1>8 DEF Settled, Known
  <2>4. InstOf(Element)[1] # "func" /\ Element.kind # "buffer"
    BY <1>2, <1>3
  <2> HIDE DEF m, inst
  <2> QED
    BY <1>1, <1>4, <1>8, <2>1, <2>2, <2>3, <2>4, DerivedRun
<1> QED
  BY <1>5, <1>6, <1>7, <1>8 DEF CreateCopy

LEMMA SplitRun ==
  ASSUME RunInv, CreateSplit
  PROVE  RunInv'
<1> DEFINE e == Element
           inst == SplitInst(e.ctrl, e.bw, e.n)
           equiv == SplitInst(e.ctrl, EquivalentBW(e.bw), e.n)
           m == SplitMetric(e)
<1>1. IInv' /\ Translating({"split"})
  BY SplitStep DEF RunInv, CreateSplit
<1>2. /\ e \in ElementSet /\ e.kind = "split"
      /\ UNCHANGED <<cached, optimizer>>
  BY <1>1, ElementPlace
<1>3. /\ InstOf(e) = inst /\ inst[1] = "split" /\ Equivalent(inst) = equiv
      /\ e.n \in Nat /\ EquivalentBW(e.bw) \in Nat
  BY <1>2, KindFacts, NameFacts
<1>4. Metered(haveMetrics, optimizer, e) <=> haveMetrics
  BY <1>2 DEF Metered
<1>5. CASE ~haveMetrics /\ Unmetered(<<inst>>)
  <2> DEFINE insts == <<inst>>
  <2>1. insts[1] = InstOf(e)
    BY <1>3
  <2> QED
    BY <1>1, <1>4, <1>5, <2>1, UnmeteredRun
<1>6. ASSUME haveMetrics, NoRecord, NEW STATE k, Configure(<<inst>>, k),
             Settled(opMetrics, cached, inst), k = Exact(opMetrics, cached, inst)
      PROVE  RunInv'
  <2>1. Configure(<<InstOf(e)>>, k) /\ opMetrics' = opMetrics
    BY <1>3, <1>6 DEF NoRecord
  <2>2. MetricsTyped' /\ TableFrom'
    BY <1>2, <1>6, NoRecordFrom DEF RunInv
  <2> QED
    BY <1>1, <1>2, <1>3, <1>4, <1>6, <2>1, <2>2, FoundRun
<1>7. CASE haveMetrics /\ Known(inst) /\ Served(inst, "split")
  <2>1. Settled(opMetrics, cached, inst) /\ opMetrics[inst] = Exact(opMetrics, cached, inst)
    BY <1>3, <1>7 DEF Settled, Exact, Known
  <2> QED
    BY <1>6, <1>7, <2>1 DEF Served
<1>8. CASE GiveUp("width")
  BY <1>1, <1>8, GiveUpRun
<1>9. CASE /\ haveMetrics /\ ~Known(inst) /\ Known(equiv) /\ NoRecord
           /\ Configure(<<inst>>, opMetrics[equiv])
  <2>1. Settled(opMetrics, cached, inst) /\ opMetrics[equiv] = Exact(opMetrics, cached, inst)
    BY <1>3, <1>9 DEF Settled, Exact, Known
  <2> QED
    BY <1>6, <1>9, <2>1
<1>10. CASE haveMetrics /\ ~Known(inst) /\ ~Known(equiv) /\ Derived(inst, m, "split")
  <2>1. NewRecord(InstOf(e), m) /\ Configure(<<InstOf(e)>>, m)
    BY <1>3, <1>10 DEF Derived
  <2>2. m \in Metric
    <3>1. (e.n + 1) \div 2 \in Nat
      BY <1>3
    <3> QED
      BY <1>3, <3>1, FormulaTyped DEF SplitMetric
  <2>3. ~Settled(opMetrics, cached, InstOf(e))
    BY <1>3, <1>10 DEF Settled, Known
  <2>4. InstOf(e)[1] # "func" /\ e.kind # "buffer"
    BY <1>2, <1>3
  <2> HIDE DEF m, inst, equiv
  <2> QED
    BY <1>1, <1>4, <1>10, <2>1, <2>2, <2>3, <2>4, DerivedRun
<1> QED
  BY <1>5, <1>7, <1>8, <1>9, <1>10 DEF CreateSplit

\* A merge is settled after its look-up.
LEMMA GetMergeRun ==
  ASSUME RunInv, Element \in ElementSet, GetMerge(Element), UNCHANGED <<cached, optimizer>>
  PROVE  LET inst == MergeInst(Element.ctrl, Element.bw, Element.n)
         IN  /\ MetricsTyped' /\ TableFrom'
             /\ Extended(opMetrics, opMetrics', cached)
             /\ Settled(opMetrics', cached, inst)
             /\ MergeFor(Element) = Exact(opMetrics', cached, inst)
             /\ MergeFor(Element) \in Metric
<1> DEFINE e == Element
           inst == MergeInst(e.ctrl, e.bw, e.n)
           equiv == MergeInst(e.ctrl, EquivalentBW(e.bw), e.n)
           m == MergeMetric(e.ctrl, e.bw, e.n)
<1>1. /\ inst[1] = "merge" /\ Equivalent(inst) = equiv
      /\ e.n \in Nat /\ e.ctrl \in Nat /\ e.bw \in Nat
  BY KindFacts, NameFacts
<1>2. CASE Known(inst) \/ Known(equiv)
  <2>1. NoRecord /\ opMetrics' = opMetrics
    BY <1>2 DEF GetMerge, NoRecord
  <2>2. MetricsTyped' /\ TableFrom'
    BY <2>1, NoRecordFrom DEF RunInv
  <2>3. /\ Settled(opMetrics, cached, inst)
        /\ MergeFor(e) = Exact(opMetrics, cached, inst)
    BY <1>1, <1>2 DEF Settled, Exact, Known, MergeFor
  <2>4. MergeFor(e) \in Metric
    BY <2>3, ExactMetric
  <2>5. Extended(opMetrics, opMetrics', cached)
    BY <2>1, SameTable
  <2> QED
    BY <2>1, <2>2, <2>3, <2>4, <2>5
<1>3. CASE ~Known(inst) /\ ~Known(equiv)
  <2>1. MergeFor(e) = m /\ NewRecord(inst, m)
    BY <1>3 DEF GetMerge, MergeFor
  <2>2. m \in Metric
    BY <1>1, FormulaTyped DEF MergeMetric
  <2>3. ~Settled(opMetrics, cached, inst)
    BY <1>1, <1>3 DEF Settled, Known
  <2> HIDE DEF m, inst
  <2>4. MetricsTyped' /\ TableFrom'
    BY <1>1, <2>1, <2>2, NewRecordFrom DEF RunInv
  <2>5. opMetrics' = With(opMetrics, inst, m)
    BY <2>1 DEF NewRecord
  <2>6. /\ Extended(opMetrics, opMetrics', cached)
        /\ Settled(opMetrics', cached, inst)
        /\ m = Exact(opMetrics', cached, inst)
    BY <2>3, <2>5, NewSettled
  <2> QED
    BY <2>1, <2>2, <2>4, <2>6 DEF inst
<1> QED
  BY <1>2, <1>3

LEMMA MergeRun ==
  ASSUME RunInv, CreateMerge
  PROVE  RunInv'
<1> DEFINE inst == MergeInst(Element.ctrl, Element.bw, Element.n)
<1>1. IInv' /\ Translating({"merge"})
  BY MergeStep DEF RunInv, CreateMerge
<1>2. /\ Element \in ElementSet /\ Element.kind = "merge"
      /\ UNCHANGED <<cached, optimizer>>
  BY <1>1, ElementPlace
<1>3. InstOf(Element) = inst
  BY <1>2, KindFacts
<1>4. Metered(haveMetrics, optimizer, Element) <=> haveMetrics
  BY <1>2 DEF Metered
<1>5. CASE ~haveMetrics /\ Unmetered(<<inst>>)
  <2> DEFINE insts == <<inst>>
  <2>1. insts[1] = InstOf(Element)
    BY <1>3
  <2> QED
    BY <1>1, <1>4, <1>5, <2>1, UnmeteredRun
<1>6. CASE GiveUp("width")
  BY <1>1, <1>6, GiveUpRun
<1>7. CASE haveMetrics /\ GetMerge(Element) /\ Configure(<<inst>>, MergeFor(Element))
  <2> DEFINE insts == <<inst>>
  <2>1. /\ MetricsTyped' /\ TableFrom'
        /\ Extended(opMetrics, opMetrics', cached)
        /\ Settled(opMetrics', cached, inst)
        /\ MergeFor(Element) = Exact(opMetrics', cached, inst)
        /\ MergeFor(Element) \in Metric
    BY <1>2, <1>7, GetMergeRun
  <2>2. MergeFor(Element) # NoMetric
    BY <2>1, MetricExists
  <2>3. insts[1] = inst /\ Len(insts) = 1 /\ Configure(insts, MergeFor(Element))
    BY <1>7
  <2> HIDE DEF insts, inst
  <2> QED
    BY <1>1, <1>2, <1>3, <1>4, <1>7, <2>1, <2>2, <2>3, ElementInv
<1> QED
  BY <1>5, <1>6, <1>7 DEF CreateMerge

\* A mixer and an arbiter leave what a merge leaves, and are given nothing.
LEMMA NondeterministicRun ==
  ASSUME RunInv, CreateNondeterministic
  PROVE  RunInv'
<1> DEFINE inst == NondetInst(Element.kind, Element.ctrl, Element.bw, Element.n)
           insts == <<inst>>
<1>1. IInv' /\ Translating({"mixer", "arbiter"})
  BY MergeStep DEF RunInv, CreateNondeterministic
<1>2. /\ Element \in ElementSet /\ Element.kind \in {"mixer", "arbiter"}
      /\ UNCHANGED <<cached, optimizer>>
  BY <1>1, ElementPlace
<1>3. InstOf(Element) = inst /\ insts[1] = inst
  BY <1>2, KindFacts
<1>4. ~Metered(haveMetrics, optimizer, Element)
  BY <1>2 DEF Metered
<1>5. CASE Unmetered(<<inst>>)
  BY <1>1, <1>3, <1>4, <1>5, UnmeteredRun
<1>6. CASE GiveUp("width")
  BY <1>1, <1>6, GiveUpRun
<1>7. CASE GetMerge(Element) /\ Configure(insts, NoMetric)
  <2>1. /\ MetricsTyped' /\ TableFrom'
        /\ Extended(opMetrics, opMetrics', cached)
    BY <1>2, <1>7, GetMergeRun
  <2> DEFINE m == NoMetric
  <2>2. /\ m = NoMetric /\ Configure(insts, m)
        /\ m # NoMetric <=> Metered(haveMetrics, optimizer, Element)
    BY <1>4, <1>7
  <2> HIDE DEF insts, inst, m
  <2> QED
    BY <1>1, <1>3, <2>1, <2>2, ElementInv
<1> QED
  BY <1>5, <1>6, <1>7 DEF CreateNondeterministic
\* Without the optimizer only a unit of the standard file has a metric.
LEMMA FURecorded ==
  ASSUME RunInv, NEW STATE i, i[1] = "func", i \in DOMAIN opMetrics \/ i \in DOMAIN cached
  PROVE  optimizer \/ i \in Standard
BY DEF RunInv, TableFrom

LEMMA FURun ==
  ASSUME RunInv, CreateFU
  PROVE  RunInv'
<1> DEFINE inst == FUInst(Element.n)
           m == [of |-> <<"optimized", Element.n, 0, 0>>, times |-> 1, six |-> FALSE]
           new == ~Known(inst) /\ inst \notin DOMAIN cached
<1>1. IInv' /\ Translating({"func"})
  BY FUStep DEF RunInv, CreateFU
<1>2. /\ Element \in ElementSet /\ Element.kind = "func" /\ Element.kind # "buffer"
      /\ UNCHANGED <<cached, optimizer>>
  BY <1>1, ElementPlace
<1>3. InstOf(Element) = inst /\ inst[1] = "func" /\ Element.n \in Nat
  BY <1>2, KindFacts, NameFacts
<1>4. Metered(haveMetrics, optimizer, Element) <=> (haveMetrics /\ (optimizer \/ inst \in Standard))
  BY <1>2 DEF Metered
<1>5. Standard \subseteq DOMAIN opMetrics
  BY DEF RunInv, IInv, MetricsInv, TableOK
<1>6. CASE (~haveMetrics \/ (new /\ ~optimizer)) /\ Unmetered(<<inst>>)
  <2> DEFINE insts == <<inst>>
  <2>1. insts[1] = InstOf(Element) /\ Unmetered(insts)
    BY <1>3, <1>6
  <2>2. ~Metered(haveMetrics, optimizer, Element)
    BY <1>4, <1>5, <1>6 DEF Known
  <2> HIDE DEF insts, inst
  <2> QED
    BY <1>1, <2>1, <2>2, UnmeteredRun
<1>7. CASE haveMetrics /\ Known(inst) /\ Served(inst, "func")
  <2>1. /\ NoRecord /\ Configure(<<InstOf(Element)>>, opMetrics[inst])
        /\ opMetrics' = opMetrics
    BY <1>3, <1>7 DEF Served, NoRecord
  <2>2. MetricsTyped' /\ TableFrom'
    BY <1>2, <2>1, NoRecordFrom DEF RunInv
  <2>3. /\ Settled(opMetrics, cached, InstOf(Element))
        /\ opMetrics[inst] = Exact(opMetrics, cached, InstOf(Element))
    BY <1>3, <1>7 DEF Settled, Exact, Known
  <2>4. Metered(haveMetrics, optimizer, Element)
    BY <1>3, <1>4, <1>7, FURecorded DEF Known
  <2> QED
    BY <1>1, <1>2, <2>1, <2>2, <2>3, <2>4, FoundRun
<1>8. CASE haveMetrics /\ new /\ optimizer /\ Derived(inst, m, "func")
  <2>1. NewRecord(InstOf(Element), m) /\ Configure(<<InstOf(Element)>>, m)
    BY <1>3, <1>8 DEF Derived
  <2>2. m \in Metric
    BY <1>3, FormulaTyped
  <2>3. ~Settled(opMetrics, cached, InstOf(Element))
    BY <1>3, <1>8 DEF Settled, Known
  <2> HIDE DEF m, inst
  <2> QED
    BY <1>1, <1>2, <1>4, <1>8, <2>1, <2>2, <2>3, DerivedRun
<1>9. CASE /\ haveMetrics /\ ~Known(inst) /\ inst \in DOMAIN cached
           /\ localFile' = Append(localFile, Record(inst, Written(cached[inst])))
           /\ UNCHANGED <<opMetrics, cacheFile>>
           /\ Configure(<<inst>>, cached[inst])
  <2>1. MetricsTyped' /\ TableFrom' /\ opMetrics' = opMetrics
    BY <1>2, <1>3, <1>9, CachedFrom DEF RunInv
  <2>2. /\ Settled(opMetrics, cached, InstOf(Element))
        /\ cached[inst] = Exact(opMetrics, cached, InstOf(Element))
    BY <1>3, <1>9 DEF Settled, Exact, Known
  <2>3. Metered(haveMetrics, optimizer, Element)
    BY <1>3, <1>4, <1>9, FURecorded
  <2>4. Configure(<<InstOf(Element)>>, cached[inst])
    BY <1>3, <1>9
  <2> HIDE DEF inst
  <2> QED
    BY <1>1, <1>2, <2>1, <2>2, <2>3, <2>4, FoundRun
<1> QED
  BY <1>6, <1>7, <1>8, <1>9 DEF CreateFU

LEMMA LatchFacts ==
  ASSUME RunInv
  PROVE  Latch \in Standard /\ opMetrics[Latch] = [of |-> Latch, times |-> 1, six |-> FALSE]
<1>1. Latch \in Standard
  BY ProgramAssumption DEF Latch
<1> QED
  BY <1>1 DEF RunInv, IInv, MetricsInv, TableOK, Std

LEMMA BufferRun ==
  ASSUME RunInv, CreateBuffer
  PROVE  RunInv'
<1> DEFINE e == Element
           one == OneBuf(e.bw)
           ini == InitBuf(e.bw)
           insts == IF ~e.init THEN <<one>> ELSE IF e.n > 1 THEN <<one, ini>> ELSE <<ini>>
           latch == opMetrics[Latch]
           m == [of |-> latch.of, times |-> e.n * latch.times, six |-> latch.six]
<1>1. IInv' /\ Translating({"buffer"})
  BY PlainStep DEF RunInv, CreateBuffer
<1>2. /\ e \in ElementSet /\ e.kind = "buffer" /\ e.n \in Nat
      /\ UNCHANGED <<cached, optimizer>>
  BY <1>1, ElementPlace, KindFacts
<1>3. InstOf(e) = Chain(e) /\ one[1] \in Buffers /\ ini[1] \in Buffers
  BY <1>2, KindFacts, NameFacts
<1>4. Metered(haveMetrics, optimizer, e) <=> haveMetrics
  BY <1>2 DEF Metered
<1>5. /\ insts[1] = Chain(e) /\ insts[1][1] \in Buffers
      /\ Len(insts) # 1 => insts[2][1] \in Buffers
  <2>1. Chain(e) = IF e.n > 1 \/ ~e.init THEN one ELSE ini
    BY DEF Chain
  <2> HIDE DEF one, ini
  <2> QED
    BY <1>3, <2>1
<1>6. m = ChainMetric(e) /\ m \in Metric
  <2>1. latch.of = Latch /\ latch.times = 1 /\ latch.six = FALSE /\ Latch \in Standard
    BY LatchFacts
  <2>2. e.n * latch.times = e.n
    BY <1>2, <2>1
  <2> QED
    BY <1>2, <2>1, <2>2 DEF ChainMetric, Metric
<1>7. CASE ~haveMetrics /\ Unmetered(insts)
  <2> HIDE DEF insts
  <2> QED
    BY <1>1, <1>3, <1>4, <1>5, <1>7, UnmeteredRun
<1>8. CASE haveMetrics /\ NoRecord /\ Configure(insts, m)
  <2>1. MetricsTyped' /\ TableFrom'
    BY <1>2, <1>8, NoRecordFrom DEF RunInv
  <2>2. Extended(opMetrics, opMetrics', cached)
    BY <1>8, SameTable DEF NoRecord
  <2>3. m # NoMetric
    BY <1>6, MetricExists
  <2>4. /\ insts[1] = InstOf(e)
        /\ m # NoMetric <=> Metered(haveMetrics, optimizer, e)
    BY <1>3, <1>4, <1>5, <1>8, <2>3
  <2> HIDE DEF insts, m
  <2> QED
    BY <1>1, <1>2, <1>5, <1>6, <1>8, <2>1, <2>2, <2>4, ElementInv
<1> QED
  BY <1>7, <1>8 DEF CreateBuffer

LEMMA EndpointRun ==
  ASSUME RunInv, CreateSource \/ CreateSink
  PROVE  RunInv'
<1> DEFINE std == IF Element.kind = "source" THEN Source ELSE Sink
           m == IF haveMetrics THEN opMetrics[std] ELSE NoMetric
           kinds == {"source", "sink"}
<1>1. IInv' /\ Translating(kinds)
  BY PlainStep DEF RunInv, CreateSource, CreateSink, Translating
<1>2. /\ Element \in ElementSet /\ Element.kind \in kinds /\ Element.kind # "buffer"
      /\ UNCHANGED <<cached, optimizer>>
  BY <1>1, ElementPlace
<1>3. InstOf(Element)[1] = Element.kind
  BY <1>2, KindFacts, NameFacts
<1>4. Metered(haveMetrics, optimizer, Element) <=> haveMetrics
  BY <1>2 DEF Metered
<1>5. NoRecord /\ UNCHANGED stats /\ Configure(<<InstOf(Element)>>, m)
  <2>1. CASE CreateSource
    <3>1. Element.kind = "source"
      BY <2>1 DEF CreateSource, Translating
    <3>2. InstOf(Element) = SourceInst(Element.bw)
      BY <1>2, <3>1, KindFacts
    <3> QED
      BY <2>1, <3>1, <3>2 DEF CreateSource
  <2>2. CASE CreateSink
    <3>1. Element.kind = "sink"
      BY <2>2 DEF CreateSink, Translating
    <3>2. InstOf(Element) = SinkInst(Element.bw)
      BY <1>2, <3>1, KindFacts
    <3> QED
      BY <2>2, <3>1, <3>2 DEF CreateSink
  <2> QED
    BY <2>1, <2>2
<1>6. CASE ~haveMetrics
  <2> DEFINE insts == <<InstOf(Element)>>
  <2>1. insts[1] = InstOf(Element) /\ Unmetered(insts)
    BY <1>5, <1>6 DEF Unmetered
  <2> HIDE DEF insts, kinds
  <2> QED
    BY <1>1, <1>4, <1>6, <2>1, UnmeteredRun
<1>7. CASE haveMetrics
  <2>1. MetricsTyped' /\ TableFrom' /\ opMetrics' = opMetrics
    BY <1>2, <1>5, NoRecordFrom DEF RunInv, NoRecord
  <2>2. /\ Settled(opMetrics, cached, InstOf(Element))
        /\ m = Exact(opMetrics, cached, InstOf(Element))
    BY <1>2, <1>3, <1>7 DEF Settled, Exact
  <2> HIDE DEF m, kinds
  <2> QED
    BY <1>1, <1>2, <1>4, <1>5, <1>7, <2>1, <2>2, FoundRun
<1> QED
  BY <1>6, <1>7
-----------------------------------------------------------------------------
(* A run starts. *)

LEMMA EmptyRun ==
  ASSUME NEW p \in Programs, NEW have, NEW opt, NEW t, NEW c
  PROVE  /\ GivenTo(p, <<>>, have, opt) /\ Filling(<<>>, <<>>)
         /\ Entries(<<>>) = {} /\ InstsOf(<<>>) = {}
         /\ Agrees(Entries(<<>>), t, c) /\ AgreesWritten(Entries(<<>>), t, c)
<1>1. <<>> \in Seq({}) /\ Len(<<>>) = 0 /\ DOMAIN <<>> = {}
  OBVIOUS
<1>2. Len(p) \in Nat
  BY ProgramAssumption
<1>3. Entries(<<>>) = {} /\ InstsOf(<<>>) = {}
  BY <1>1 DEF Entries, InstsOf
<1>4. GivenTo(p, <<>>, have, opt)
  BY <1>1, <1>2 DEF GivenTo
<1>5. Filling(<<>>, <<>>)
  <2>1. IsFiniteSet({}) /\ Cardinality({}) = 0 /\ MAX_PROCESSES \in Nat
    BY FS_EmptySet, ProgramAssumption
  <2>2. \E S : <<>> \in Seq(S)
    BY <1>1
  <2> QED
    BY <1>1, <1>3, <2>1, <2>2 DEF Filling
<1> QED
  BY <1>3, <1>4, <1>5 DEF Agrees, AgreesWritten

LEMMA InitRun == Init => RunInv
<1> SUFFICES ASSUME Init PROVE RunInv
  OBVIOUS
<1>1. IInv
  BY InitMetrics
<1>2. /\ prog \in Programs /\ next = 1 /\ status = "running"
      /\ opMetrics = [i \in Standard |-> Std(i)] /\ cached = <<>>
      /\ localFile = <<>> /\ cacheFile = <<>>
      /\ configured = <<>> /\ conf = <<>> /\ given = <<>> /\ previous = <<>>
  BY DEF Init
<1>3. DOMAIN <<>> = {} /\ Len(<<>>) = 0
  OBVIOUS
<1>4. \A i \in Standard : Std(i) \in Metric
  BY DEF Std, Metric
<1>5. MetricsTyped
  BY <1>2, <1>3, <1>4 DEF MetricsTyped
<1>6. TableFrom
  BY <1>2, <1>3, EmptyRun DEF TableFrom
<1>7. Len(prog) \in Nat
  BY <1>2, ProgramAssumption
<1>8. Progress
  BY <1>2, <1>3, <1>7 DEF Progress
<1> QED
  BY <1>1, <1>2, <1>3, <1>5, <1>6, <1>8, EmptyRun DEF RunInv

LEMMA ReadTyped ==
  ASSUME NEW file, \A k \in DOMAIN file : file[k].metric \in Metric
  PROVE  /\ DOMAIN ReadBack(file) = InstsOf(file)
         /\ \A i \in DOMAIN ReadBack(file) : ReadBack(file)[i] \in Metric
<1>1. DOMAIN ReadBack(file) = InstsOf(file)
  BY DEF ReadBack, InstsOf
<1>2. ASSUME NEW i \in DOMAIN ReadBack(file)
      PROVE  ReadBack(file)[i] \in Metric
  <2>1. i \in {file[k].inst : k \in DOMAIN file}
    BY <1>2 DEF ReadBack
  <2>2. PICK j \in DOMAIN file : file[j].inst = i
    BY <2>1
  <2> DEFINE c == CHOOSE k \in DOMAIN file : file[k].inst = i
  <2>3. c \in DOMAIN file
    BY <2>2
  <2>4. ReadBack(file)[i] = file[c].metric
    BY <2>1 DEF ReadBack
  <2> QED
    BY <2>3, <2>4
<1> QED
  BY <1>1, <1>2

\* The table of a run that starts.
LEMMA LaunchTables ==
  ASSUME RunInv, IInv', NEW p, NEW fresh \in BOOLEAN, Launch(p, fresh)
  PROVE  /\ DOMAIN opMetrics' = Standard \cup InstsOf(localFile')
         /\ DOMAIN cached' = InstsOf(cacheFile)
         /\ localFile' = IF fresh THEN <<>> ELSE localFile
         /\ MetricsTyped' /\ TableFrom'
<1>1. /\ localFile' = IF fresh THEN <<>> ELSE localFile
      /\ cacheFile' = cacheFile /\ optimizer' = optimizer
      /\ opMetrics' = [i \in Standard \cup DOMAIN ReadBack(localFile') |->
                         IF i \in Standard THEN Std(i) ELSE ReadBack(localFile')[i]]
      /\ cached' = ReadBack(cacheFile)
  BY DEF Launch, Start
<1>2. DOMAIN <<>> = {} /\ InstsOf(<<>>) = {}
  BY DEF InstsOf
<1>3. /\ \A k \in DOMAIN localFile' : localFile'[k].metric \in Metric
      /\ \A k \in DOMAIN cacheFile : cacheFile[k].metric \in Metric
  BY <1>1, <1>2 DEF RunInv, MetricsTyped
<1>4. /\ DOMAIN ReadBack(localFile') = InstsOf(localFile')
      /\ \A i \in DOMAIN ReadBack(localFile') : ReadBack(localFile')[i] \in Metric
      /\ DOMAIN ReadBack(cacheFile) = InstsOf(cacheFile)
      /\ \A i \in DOMAIN ReadBack(cacheFile) : ReadBack(cacheFile)[i] \in Metric
  BY <1>3, ReadTyped
<1>5. \A i \in Standard : Std(i) \in Metric
  BY DEF Std, Metric
<1>6. DOMAIN opMetrics' = Standard \cup InstsOf(localFile') /\ DOMAIN cached' = InstsOf(cacheFile)
  BY <1>1, <1>4
<1>7. MetricsTyped'
  BY <1>1, <1>3, <1>4, <1>5 DEF MetricsTyped
<1>8. InstsOf(localFile') \subseteq InstsOf(cacheFile)
  BY <1>1, <1>2 DEF RunInv, TableFrom
<1>9. TableFrom'
  BY <1>1, <1>6, <1>8 DEF RunInv, TableFrom
<1> QED
  BY <1>1, <1>6, <1>7, <1>9

\* What was settled is settled in the next run on the directory, to six digits.
LEMMA LookupAgain ==
  ASSUME RunInv, IInv', NEW p, Launch(p, FALSE), NEW i, Settled(opMetrics, cached, i)
  PROVE  /\ Settled(opMetrics', cached', i)
         /\ Written(Exact(opMetrics', cached', i)) = Written(Exact(opMetrics, cached, i))
<1> DEFINE t == opMetrics
           t2 == opMetrics'
<1>1. /\ DOMAIN t2 = Standard \cup InstsOf(localFile)
      /\ DOMAIN cached' = InstsOf(cacheFile)
  BY LaunchTables
<1>2. /\ DOMAIN t \subseteq Standard \cup InstsOf(localFile)
      /\ \A j \in InstsOf(localFile) : j[1] \in {"split", "merge"} => j \in DOMAIN t
      /\ DOMAIN cached \subseteq InstsOf(cacheFile)
  BY DEF RunInv, TableFrom
<1>3. /\ Standard \subseteq DOMAIN t
      /\ \A j \in Standard : t[j] = Std(j) /\ t2[j] = Std(j)
      /\ \A j \in DOMAIN t \ Standard : Written(t[j]) = Canon(j)
      /\ \A j \in DOMAIN t2 \ Standard : Written(t2[j]) = Canon(j)
  BY DEF RunInv, IInv, MetricsInv, TableOK
<1>4. /\ \A j \in DOMAIN cached : Written(cached[j]) = Canon(j)
      /\ \A j \in DOMAIN cached' : Written(cached'[j]) = Canon(j)
  BY CanonWritten DEF RunInv, IInv, MetricsInv, CachedOK
<1> HIDE DEF t, t2
<1>5. \A j \in DOMAIN t : j \in DOMAIN t2 /\ Written(t2[j]) = Written(t[j])
  BY <1>1, <1>2, <1>3
<1>6. Source \in DOMAIN t /\ Sink \in DOMAIN t
  BY <1>3, ProgramAssumption DEF Source, Sink
<1>7. CASE i[1] \in {"source", "sink"}
  BY <1>5, <1>6, <1>7 DEF Settled, Exact, t, t2
<1>8. CASE i[1] \notin {"source", "sink"} /\ i \in DOMAIN t
  <2>1. i \in DOMAIN t2 /\ Written(t2[i]) = Written(t[i])
    BY <1>5, <1>8
  <2>2. Exact(t, cached, i) = t[i] /\ Exact(t2, cached', i) = t2[i] /\ Settled(t2, cached', i)
    BY <1>8, <2>1 DEF Settled, Exact
  <2> QED
    BY <2>1, <2>2 DEF t, t2
<1>9. CASE i[1] \in {"split", "merge"} /\ i \notin DOMAIN t
  <2>1. Equivalent(i) \in DOMAIN t
    BY <1>9 DEF Settled, t
  <2>2. i \notin DOMAIN t2
    BY <1>1, <1>2, <1>3, <1>9
  <2>3. i[1] \notin {"source", "sink", "func"}
    BY <1>9
  <2>4. /\ Exact(t, cached, i) = t[Equivalent(i)]
        /\ Exact(t2, cached', i) = t2[Equivalent(i)]
    BY <1>9, <2>2, <2>3 DEF Exact
  <2>5. Settled(t2, cached', i)
    BY <1>5, <1>9, <2>1 DEF Settled
  <2> QED
    BY <1>5, <2>1, <2>4, <2>5 DEF t, t2
<1>10. CASE i[1] = "func" /\ i \notin DOMAIN t
  <2>1. i \in DOMAIN cached /\ i \in DOMAIN cached'
    BY <1>1, <1>2, <1>10 DEF Settled, t
  <2>2. Written(Exact(t, cached, i)) = Canon(i)
    BY <1>4, <1>10, <2>1 DEF Exact
  <2>3. i \notin Standard
    BY <1>3, <1>10
  <2>4. Written(Exact(t2, cached', i)) = Canon(i) /\ Settled(t2, cached', i)
    BY <1>3, <1>4, <1>10, <2>1, <2>3 DEF Exact, Settled
  <2> QED
    BY <2>2, <2>4 DEF t, t2
<1> QED
  BY <1>7, <1>8, <1>9, <1>10 DEF Settled, t

LEMMA LaunchRun ==
  ASSUME RunInv, NEW p \in Revisions(prog), NEW fresh \in BOOLEAN, Launch(p, fresh)
  PROVE  RunInv'
<1>1. IInv'
  BY LaunchStep DEF RunInv
<1>2. MetricsTyped' /\ TableFrom'
  BY <1>1, LaunchTables
<1>3. p \in Programs
  BY ProgramAssumption DEF RunInv, IInv, Place
<1>4. /\ prog' = p /\ next' = 1 /\ configured' = <<>> /\ conf' = <<>> /\ given' = <<>>
      /\ status' \in {"clash", "running"}
      /\ previous' = IF p = prog /\ ~fresh THEN Longer(given, previous) ELSE <<>>
      /\ UNCHANGED <<haveMetrics, optimizer>>
  BY DEF Launch, Start
<1>5. Progress'
  <2>1. Len(p) \in Nat /\ Len(<<>>) = 0
    BY <1>3, ProgramAssumption
  <2> QED
    BY <1>4, <2>1 DEF Progress
<1>6. /\ GivenTo(prog, previous, haveMetrics, optimizer)'
      /\ AgreesWritten(Entries(previous'), opMetrics', cached')
  <2>1. CASE previous' = <<>>
    BY <1>3, <1>4, <2>1, EmptyRun
  <2>2. CASE p = prog /\ ~fresh
    <3>1. Launch(p, FALSE)
      <4>1. fresh = FALSE
        BY <2>2
      <4> QED
        BY <4>1
    <3>2. AgreesWritten(Entries(given), opMetrics', cached')
      BY <1>1, <3>1, LookupAgain DEF RunInv, Agrees, AgreesWritten
    <3>3. AgreesWritten(Entries(previous), opMetrics', cached')
      BY <1>1, <3>1, LookupAgain DEF RunInv, AgreesWritten
    <3>4. previous' = given \/ previous' = previous
      BY <1>4, <2>2 DEF Longer
    <3> QED
      BY <1>4, <2>2, <3>2, <3>3, <3>4 DEF RunInv
  <2> QED
    BY <1>4, <2>1, <2>2
<1>7. /\ GivenTo(prog, given, haveMetrics, optimizer)'
      /\ Agrees(Entries(given'), opMetrics', cached')
      /\ Agrees(Entries(conf'), opMetrics', cached')
      /\ Filling(configured', conf')
  BY <1>3, <1>4, EmptyRun
<1>8. \A k \in DOMAIN given' : given'[k].metric # NoMetric => given'[k].inst \in InstsOf(conf')
  BY <1>4
<1> QED
  BY <1>1, <1>2, <1>5, <1>6, <1>7, <1>8 DEF RunInv

LEMMA StutterRun ==
  ASSUME RunInv, IInv', UNCHANGED vars
  PROVE  RunInv'
<1>1. Progress' /\ MetricsTyped' /\ TableFrom'
  BY DEF vars, outputs, RunInv, Progress, MetricsTyped, TableFrom
<1> QED
  BY <1>1 DEF vars, outputs, RunInv

LEMMA NextRun == RunInv /\ [Next]_vars => RunInv'
<1> SUFFICES ASSUME RunInv, [Next]_vars PROVE RunInv'
  OBVIOUS
<1>1. IInv'
  BY NextMetrics DEF RunInv
<1>2. CASE CreateCopy \/ CreateSplit \/ CreateMerge \/ CreateNondeterministic
  BY <1>2, CopyRun, SplitRun, MergeRun, NondeterministicRun
<1>3. CASE CreateFU \/ CreateBuffer \/ CreateSource \/ CreateSink
  BY <1>3, FURun, BufferRun, EndpointRun
<1>4. CASE End \/ Kill
  BY <1>1, <1>4, QuietInv DEF End, Kill, outputs
<1>5. CASE \E p \in Revisions(prog), fresh \in BOOLEAN : Launch(p, fresh)
  BY <1>5, LaunchRun
<1>6. CASE UNCHANGED vars
  BY <1>1, <1>6, StutterRun
<1> QED
  BY <1>2, <1>3, <1>4, <1>5, <1>6 DEF Next
-----------------------------------------------------------------------------
(* What the invariant says. *)

LEMMA GivenFacts ==
  ASSUME RunInv, NEW q, GivenTo(prog, q, haveMetrics, optimizer), NEW i \in DOMAIN q
  PROVE  /\ prog[i] \in ElementSet /\ q[i].inst = InstOf(prog[i]) /\ q[i] \in Entries(q)
         /\ q[i].metric # NoMetric <=> Metered(haveMetrics, optimizer, prog[i])
         /\ (prog[i].kind = "buffer" /\ q[i].metric # NoMetric) =>
              q[i].metric = ChainMetric(prog[i])
         /\ prog[i].kind # "buffer" => q[i].inst[1] \notin Buffers
<1>1. prog \in Seq(ElementSet)
  BY ProgramAssumption DEF RunInv, IInv, Place
<1>2. PICK S : q \in Seq(S)
  BY DEF GivenTo
<1>3. i \in DOMAIN prog
  <2>1. i \in 1 .. Len(q) /\ Len(q) \in Nat /\ Len(prog) \in Nat /\ Len(q) <= Len(prog)
    BY <1>1, <1>2 DEF GivenTo
  <2> QED
    BY <1>1, <2>1
<1>4. prog[i] \in ElementSet
  BY <1>1, <1>3
<1>5. /\ q[i] = Record(InstOf(prog[i]), q[i].metric)
      /\ q[i].metric # NoMetric <=> Metered(haveMetrics, optimizer, prog[i])
      /\ (prog[i].kind = "buffer" /\ q[i].metric # NoMetric) =>
           q[i].metric = ChainMetric(prog[i])
  BY DEF GivenTo
<1>6. q[i].inst = InstOf(prog[i])
  BY <1>5, RecordFacts
<1>7. prog[i].kind # "buffer" => InstOf(prog[i])[1] = prog[i].kind /\ prog[i].kind \notin Buffers
  BY <1>4, KindFacts, NameFacts DEF Kinds, Buffers
<1> QED
  BY <1>4, <1>5, <1>6, <1>7 DEF Entries

LEMMA RunTyped == RunInv => TypeOK
<1> SUFFICES ASSUME RunInv PROVE TypeOK
  OBVIOUS
<1>1. prog \in Seq(ElementSet) /\ next \in Nat \ {0}
  BY ProgramAssumption DEF RunInv, IInv, Place
<1>2. next \in 1 .. Len(prog) + 1 /\ Len(given) = IF status = "missing" THEN next ELSE next - 1
  BY <1>1 DEF RunInv, Progress
<1>3. GivenTo(prog, given, haveMetrics, optimizer)
  BY DEF RunInv
<1>4. \A i \in DOMAIN given : given[i].metric # NoMetric => haveMetrics
  BY <1>3, GivenFacts DEF Metered
<1>5. Standard \subseteq DOMAIN opMetrics /\ Len(configured) <= MAX_PROCESSES
  BY DEF RunInv, IInv, MetricsInv, TableOK, Filling
<1>6. InstsOf(localFile) \subseteq InstsOf(cacheFile)
  BY DEF RunInv, TableFrom
<1> QED
  BY <1>2, <1>4, <1>5, <1>6 DEF TypeOK, InstsOf

LEMMA RunConfAgrees == RunInv => ConfAgrees
<1> SUFFICES ASSUME RunInv, NEW i \in DOMAIN given, given[i].metric # NoMetric,
                    prog[i].kind # "buffer"
             PROVE  /\ \E k \in DOMAIN conf : conf[k] = given[i]
                    /\ \A k \in DOMAIN conf : conf[k].inst = given[i].inst => conf[k] = given[i]
  BY DEF ConfAgrees
<1>1. GivenTo(prog, given, haveMetrics, optimizer)
  BY DEF RunInv
<1>2. given[i] \in Entries(given) /\ given[i].inst[1] \notin Buffers
  BY <1>1, GivenFacts
<1>3. given[i].metric = Exact(opMetrics, cached, given[i].inst)
  BY <1>2 DEF RunInv, Agrees
<1>4. given[i] = Record(given[i].inst, given[i].metric)
  BY <1>1, RecordFacts DEF GivenTo
<1>5. ASSUME NEW k \in DOMAIN conf, conf[k].inst = given[i].inst
      PROVE  conf[k] = given[i]
  <2>1. conf[k] = Record(conf[k].inst, conf[k].metric) /\ conf[k].metric # NoMetric
    BY DEF RunInv, Filling
  <2>2. conf[k] \in Entries(conf)
    BY DEF Entries
  <2>3. conf[k].metric = Exact(opMetrics, cached, conf[k].inst)
    BY <1>2, <1>5, <2>1, <2>2 DEF RunInv, Agrees
  <2> QED
    BY <1>3, <1>4, <1>5, <2>1, <2>3
<1>6. PICK k \in DOMAIN conf : conf[k].inst = given[i].inst
  BY DEF RunInv, InstsOf
<1> QED
  BY <1>5, <1>6

LEMMA RunConfOnce == RunInv => ConfOnce
BY DEF RunInv, Filling, ConfOnce, InstsOf

LEMMA RunRerunSame == RunInv => RerunSame
<1> SUFFICES ASSUME RunInv, NEW i \in DOMAIN given, i \in DOMAIN previous
             PROVE  /\ given[i].inst = previous[i].inst
                    /\ Same(given[i].metric, previous[i].metric)
  BY DEF RerunSame
<1>1. /\ GivenTo(prog, given, haveMetrics, optimizer)
      /\ GivenTo(prog, previous, haveMetrics, optimizer)
  BY DEF RunInv
<1>2. /\ given[i].inst = InstOf(prog[i]) /\ previous[i].inst = InstOf(prog[i])
      /\ given[i] \in Entries(given) /\ previous[i] \in Entries(previous)
      /\ given[i].metric # NoMetric <=> previous[i].metric # NoMetric
      /\ prog[i].kind # "buffer" => given[i].inst[1] \notin Buffers
  BY <1>1, GivenFacts
<1>3. ASSUME given[i].metric # NoMetric
      PROVE  Written(given[i].metric) = Written(previous[i].metric)
  <2>1. CASE prog[i].kind = "buffer"
    BY <1>1, <1>2, <1>3, <2>1, GivenFacts
  <2>2. CASE prog[i].kind # "buffer"
    <3>1. given[i].metric = Exact(opMetrics, cached, given[i].inst)
      BY <1>2, <1>3, <2>2 DEF RunInv, Agrees
    <3>2. Written(previous[i].metric) = Written(Exact(opMetrics, cached, previous[i].inst))
      BY <1>2, <1>3, <2>2 DEF RunInv, AgreesWritten
    <3> QED
      BY <1>2, <3>1, <3>2
  <2> QED
    BY <2>1, <2>2
<1> QED
  BY <1>2, <1>3 DEF Same
-----------------------------------------------------------------------------
(* Equivalent widths. *)

\* The standard file has the copies and the splits that others are derived
\* from, and none besides.
StandardPairs ==
  \A i \in Standard :
    /\ i[1] \in {"copy", "split"} => i[4] = EquivalentBW(i[4])
    /\ i[1] = "copy" => i[2] = 2

LEMMA LevelsOfTwo == Levels(2) - 1 < 1
<1> DEFINE S == {k \in 0 .. 2 : 2^k < 2}
<1>1. 2^0 = 1 /\ 2^1 = 2 /\ 2^2 = 4
  OBVIOUS
<1>2. \A k \in 0 .. 2 : k = 0 \/ k = 1 \/ k = 2
  OBVIOUS
<1>3. S \subseteq {0}
  <2> SUFFICES ASSUME NEW k \in 0 .. 2, 2^k < 2 PROVE k = 0
    OBVIOUS
  <2>1. ASSUME k = 1 PROVE FALSE
    <3>1. 2^k = 2^1
      BY <2>1, Zenon
    <3> QED
      BY <1>1, <3>1
  <2>2. ASSUME k = 2 PROVE FALSE
    <3>1. 2^k = 2^2
      BY <2>2, Zenon
    <3> QED
      BY <1>1, <3>1
  <2> QED
    BY <1>2, <2>1, <2>2
<1> HIDE DEF S
<1>4. IsFiniteSet({0}) /\ Cardinality({0}) = 1
  BY FS_Singleton
<1>5. IsFiniteSet(S) /\ Cardinality(S) <= 1
  BY <1>3, <1>4, FS_Subset
<1>6. Cardinality(S) \in Nat
  BY <1>5, FS_CardinalityType
<1> QED
  BY <1>5, <1>6 DEF Levels, S

LEMMA StdWritten ==
  ASSUME NEW i
  PROVE  Written(Std(i)) = [of |-> i, times |-> 1, six |-> TRUE]
BY WrittenFacts DEF Std

DerivedCopy(bw, n) ==
  [of |-> CopyInst(EquivalentBW(bw), 2),
   times |-> 1 * (IF Levels(n) - 1 < 1 THEN 1 ELSE Levels(n) - 1), six |-> TRUE]

\* A copy has the metric of its derivation also when it is standard.
LEMMA CopyExact ==
  ASSUME RunInv, StandardPairs, NEW bw, NEW n, Settled(opMetrics, cached, CopyInst(bw, n))
  PROVE  Written(Exact(opMetrics, cached, CopyInst(bw, n))) = DerivedCopy(bw, n)
<1> DEFINE inst == CopyInst(bw, n)
           base == CopyInst(EquivalentBW(bw), 2)
           k == IF Levels(n) - 1 < 1 THEN 1 ELSE Levels(n) - 1
<1>1. inst[1] = "copy" /\ inst[2] = n /\ inst[4] = bw /\ inst = <<"copy", n, 0, bw>>
  BY DEF CopyInst
<1>2. inst \in DOMAIN opMetrics /\ Exact(opMetrics, cached, inst) = opMetrics[inst]
  BY <1>1 DEF Settled, Exact
<1>3. TableOK
  BY DEF RunInv, IInv, MetricsInv
<1>4. CASE inst \in Standard
  <2>1. bw = EquivalentBW(bw) /\ n = 2
    BY <1>1, <1>4 DEF StandardPairs
  <2>2. inst = base /\ 1 * k = 1
    BY <2>1, LevelsOfTwo
  <2>3. Written(opMetrics[inst]) = [of |-> inst, times |-> 1, six |-> TRUE]
    BY <1>3, <1>4, StdWritten DEF TableOK
  <2> QED
    BY <1>2, <2>2, <2>3 DEF DerivedCopy
<1>5. CASE inst \notin Standard
  <2>1. Written(opMetrics[inst]) = Canon(inst)
    BY <1>2, <1>3, <1>5 DEF TableOK
  <2>2. Copies(inst) = base
    BY <1>1 DEF Copies
  <2>3. Canon(inst) = [of |-> base, times |-> 1 * k, six |-> TRUE]
    BY <1>1, <2>2 DEF Canon
  <2> QED
    BY <1>2, <2>1, <2>3 DEF DerivedCopy
<1> QED
  BY <1>4, <1>5

\* A split has the metric of the split of equivalent width.
LEMMA SplitExact ==
  ASSUME RunInv, StandardPairs, NEW c, NEW bw \in Nat, NEW n,
         Settled(opMetrics, cached, SplitInst(c, bw, n))
  PROVE  LET equiv == SplitInst(c, EquivalentBW(bw), n)
         IN  Written(Exact(opMetrics, cached, SplitInst(c, bw, n))) =
               IF equiv \in Standard THEN Written(Std(equiv)) ELSE Canon(equiv)
<1> DEFINE inst == SplitInst(c, bw, n)
           equiv == SplitInst(c, EquivalentBW(bw), n)
<1>1. /\ inst = <<"split", n, c, bw>> /\ equiv = <<"split", n, c, EquivalentBW(bw)>>
      /\ inst[1] = "split" /\ inst[2] = n /\ inst[4] = bw
      /\ equiv[1] = "split" /\ equiv[2] = n /\ equiv[4] = EquivalentBW(bw)
      /\ Equivalent(inst) = equiv
  BY NameFacts DEF SplitInst
<1>2. TableOK
  BY DEF RunInv, IInv, MetricsInv
<1>3. \A j \in DOMAIN opMetrics : Written(opMetrics[j]) =
        IF j \in Standard THEN Written(Std(j)) ELSE Canon(j)
  BY <1>2 DEF TableOK
<1>4. CASE inst \in DOMAIN opMetrics
  <2>1. Exact(opMetrics, cached, inst) = opMetrics[inst]
    BY <1>1, <1>4 DEF Exact
  <2>2. CASE inst \in Standard
    <3>1. bw = EquivalentBW(bw)
      BY <1>1, <2>2 DEF StandardPairs
    <3>2. inst = equiv
      BY <3>1
    <3> QED
      BY <1>3, <1>4, <2>1, <3>2
  <2>3. CASE inst \notin Standard
    <3>1. equiv \notin Standard
      BY <1>1, <1>2, <1>4, <2>3 DEF TableOK, Sound
    <3>2. Canon(inst) = Canon(equiv)
      BY <1>1, EquivalentTwice DEF Canon
    <3> QED
      BY <1>3, <1>4, <2>1, <2>3, <3>1, <3>2
  <2> QED
    BY <2>2, <2>3
<1>5. CASE inst \notin DOMAIN opMetrics
  <2>1. equiv \in DOMAIN opMetrics /\ Exact(opMetrics, cached, inst) = opMetrics[equiv]
    BY <1>1, <1>5 DEF Settled, Exact
  <2> QED
    BY <1>3, <2>1
<1> QED
  BY <1>4, <1>5

LEMMA RunSharedByWidth ==
  ASSUME StandardPairs, RunInv
  PROVE  SharedByWidth
<1> SUFFICES ASSUME NEW i \in DOMAIN given, NEW j \in DOMAIN given,
                    prog[i].kind \in {"copy", "split"}, prog[i].kind = prog[j].kind,
                    prog[i].n = prog[j].n, prog[i].ctrl = prog[j].ctrl,
                    EquivalentBW(prog[i].bw) = EquivalentBW(prog[j].bw)
             PROVE  Same(given[i].metric, given[j].metric)
  BY DEF SharedByWidth
<1>1. GivenTo(prog, given, haveMetrics, optimizer)
  BY DEF RunInv
<1>2. \A k \in {i, j} :
        /\ prog[k] \in ElementSet /\ given[k].inst = InstOf(prog[k]) /\ given[k] \in Entries(given)
        /\ given[k].metric # NoMetric <=> Metered(haveMetrics, optimizer, prog[k])
        /\ given[k].inst[1] \notin Buffers
  BY <1>1, GivenFacts
<1>3. given[i].metric # NoMetric <=> given[j].metric # NoMetric
  BY <1>2 DEF Metered
<1>4. ASSUME given[i].metric # NoMetric
      PROVE  Written(given[i].metric) = Written(given[j].metric)
  <2>1. \A k \in {i, j} : /\ Settled(opMetrics, cached, given[k].inst)
                          /\ given[k].metric = Exact(opMetrics, cached, given[k].inst)
    BY <1>2, <1>3, <1>4 DEF RunInv, Agrees
  <2>2. CASE prog[i].kind = "copy"
    <3>1. /\ given[i].inst = CopyInst(prog[i].bw, prog[i].n)
          /\ given[j].inst = CopyInst(prog[j].bw, prog[j].n)
      BY <1>2, <2>2, KindFacts
    <3>2. /\ Written(given[i].metric) = DerivedCopy(prog[i].bw, prog[i].n)
          /\ Written(given[j].metric) = DerivedCopy(prog[j].bw, prog[j].n)
      BY <2>1, <3>1, CopyExact
    <3>3. DerivedCopy(prog[i].bw, prog[i].n) = DerivedCopy(prog[j].bw, prog[j].n)
      BY DEF DerivedCopy
    <3> QED
      BY <3>2, <3>3
  <2>3. CASE prog[i].kind = "split"
    <3> DEFINE equiv == SplitInst(prog[i].ctrl, EquivalentBW(prog[i].bw), prog[i].n)
               metric == IF equiv \in Standard THEN Written(Std(equiv)) ELSE Canon(equiv)
    <3>1. /\ given[i].inst = SplitInst(prog[i].ctrl, prog[i].bw, prog[i].n)
          /\ given[j].inst = SplitInst(prog[j].ctrl, prog[j].bw, prog[j].n)
          /\ prog[i].bw \in Nat /\ prog[j].bw \in Nat
      BY <1>2, <2>3, KindFacts
    <3>2. equiv = SplitInst(prog[j].ctrl, EquivalentBW(prog[j].bw), prog[j].n)
      OBVIOUS
    <3>3. Written(given[i].metric) = metric
      BY <2>1, <3>1, SplitExact
    <3>4. Written(given[j].metric) = metric
      BY <2>1, <3>1, <3>2, SplitExact
    <3> QED
      BY <3>3, <3>4
  <2> QED
    BY <2>2, <2>3
<1> QED
  BY <1>3, <1>4 DEF Same

-----------------------------------------------------------------------------
\* Every element is given its metric in turn, the table of instances never
\* overflows, and every record of an output directory is in the cache too.
THEOREM MetricsTypeOK == Spec => []TypeOK
BY InitRun, NextRun, RunTyped, PTL DEF Spec

\* printConf writes for an instance the metric that every unit of that name
\* was given, whatever the path it came by.
THEOREM ConfAgreesAlways == Spec => []ConfAgrees
BY InitRun, NextRun, RunConfAgrees, PTL DEF Spec

\* checkAndUpdateInstance lets an instance into the configuration file once,
\* until more are in use than its table holds.
THEOREM ConfOnceAlways == Spec => []ConfOnce
BY InitRun, NextRun, RunConfOnce, PTL DEF Spec

\* A run repeated on its directory gives every element the metric it had,
\* wherever the earlier one stopped.
THEOREM RerunSameAlways == Spec => []RerunSame
BY InitRun, NextRun, RunRerunSame, PTL DEF Spec

\* Copies, and splits, of one equivalent width share their metric, if the
\* standard file has them in the equivalent widths only.
THEOREM SharedByWidthAlways ==
  ASSUME StandardPairs
  PROVE  Spec => []SharedByWidth
<1>1. RunInv => SharedByWidth
  BY RunSharedByWidth
<1> QED
  BY InitRun, NextRun, <1>1, PTL DEF Spec

-----------------------------------------------------------------------------
(***************************************************************************)
(* The report.  Its total is a sum over a table, which is a recursion over *)
(* the names in it: such a sum exists, is a number, and does not depend on *)
(* the order in which the entries are taken, so that counting a unit adds  *)
(* its area to the sum.  What the uses of a name add up to is their number *)
(* times its metric, because that stays what it is.                        *)
(***************************************************************************)
(* Sums over a table. *)

\* The areas are numbers.
AreaIsNumber == \A x \in Standard \cup Formulas : Area(x) \in Int

\* sum[T] is the sum of the entries of table that T names.
Any(T) == CHOOSE y \in T : TRUE
Sums(table, sum) ==
  sum = [T \in SUBSET DOMAIN table |->
           IF T = {} THEN 0 ELSE table[Any(T)] + sum[T \ {Any(T)}]]
Numbers(table) == IsFiniteSet(DOMAIN table) /\ \A k \in DOMAIN table : table[k] \in Int

\* Tally without its local definition.
LEMMA TallyIs ==
  ASSUME NEW table
  PROVE  Tally(table) = (CHOOSE sum : Sums(table, sum))[DOMAIN table]
BY DEF Tally, Sums, Any

\* A set that has an element has the one chosen.
LEMMA AnyOf ==
  ASSUME NEW T, T # {}
  PROVE  Any(T) \in T
BY DEF Any

\* The subsets of a finite set, by size.
LEMMA SizeDown ==
  ASSUME NEW D, IsFiniteSet(D)
  PROVE  /\ [T \in SUBSET D |-> Cardinality(T)] \in [SUBSET D -> Nat]
         /\ \A T \in SUBSET D : \A x \in T :
              T \ {x} \in SUBSET D /\ Cardinality(T \ {x}) < Cardinality(T)
<1>1. ASSUME NEW T \in SUBSET D PROVE IsFiniteSet(T) /\ Cardinality(T) \in Nat
  BY FS_Subset, FS_CardinalityType
<1>2. ASSUME NEW T \in SUBSET D, NEW x \in T
      PROVE  Cardinality(T \ {x}) < Cardinality(T)
  <2>1. IsFiniteSet(T) /\ Cardinality(T) \in Nat
    BY <1>1
  <2>2. Cardinality(T \ {x}) = Cardinality(T) - 1
    BY <2>1, FS_RemoveElement
  <2> QED
    BY <2>1, <2>2
<1> QED
  BY <1>1, <1>2

\* Every table of numbers has a sum.
LEMMA SumsExist ==
  ASSUME NEW table, Numbers(table)
  PROVE  \E sum : Sums(table, sum) /\ sum \in [SUBSET DOMAIN table -> Int]
<1> DEFINE S == SUBSET DOMAIN table
           F == [S -> Int]
           height == [T \in S |-> Cardinality(T)]
           Step(f, T) == IF T = {} THEN 0 ELSE table[Any(T)] + f[T \ {Any(T)}]
           step == [z \in F \X S |-> Step(z[1], z[2])]
<1>1. height \in [S -> Nat]
  BY SizeDown DEF Numbers
<1>2. ASSUME NEW f \in F, NEW T \in S PROVE Step(f, T) \in Int
  <2>1. CASE T = {}
    BY <2>1
  <2>2. CASE T # {}
    <3>1. Any(T) \in DOMAIN table /\ T \ {Any(T)} \in S
      BY <2>2, AnyOf
    <3>2. table[Any(T)] \in Int
      BY <3>1 DEF Numbers
    <3>3. f[T \ {Any(T)}] \in Int
      BY <3>1
    <3> QED
      BY <2>2, <3>2, <3>3
  <2> QED
    BY <2>1, <2>2
<1>3. \A f \in F, T \in S : step[<<f, T>>] = Step(f, T)
  OBVIOUS
<1>4. step \in [F \X S -> Int]
  <2> HIDE DEF Step
  <2> QED
    BY <1>2
<1>5. ASSUME NEW f \in F, NEW g \in F, NEW T \in S,
             \A U \in S : height[U] < height[T] => f[U] = g[U]
      PROVE  Step(f, T) = Step(g, T)
  <2>1. CASE T = {}
    BY <2>1
  <2>2. CASE T # {}
    <3>1. Any(T) \in T
      BY <2>2, AnyOf
    <3>2. T \ {Any(T)} \in S /\ height[T \ {Any(T)}] < height[T]
      BY <3>1, SizeDown DEF Numbers
    <3>3. f[T \ {Any(T)}] = g[T \ {Any(T)}]
      BY <1>5, <3>2
    <3> QED
      BY <2>2, <3>3
  <2> QED
    BY <2>1, <2>2
<1>6. \A f, g \in F : \A T \in S :
        (\A U \in S : height[U] < height[T] => f[U] = g[U]) => step[<<f, T>>] = step[<<g, T>>]
  <2> HIDE DEF height, step, Step, S, F
  <2> QED
    BY <1>3, <1>5
<1>7. DependsBelow(S, Int, height, step)
  <2>1. Int # {}
    BY 0 \in Int
  <2> HIDE DEF height, step, Step, S
  <2> QED
    BY <1>1, <1>4, <1>6, <2>1 DEF DependsBelow
<1>8. PICK sum : Recursive(S, Int, step, sum)
  BY <1>7, RecursionDefines
<1>9. sum \in F /\ \A T \in S : sum[T] = Step(sum, T)
  <2> HIDE DEF step, Step, S
  <2> QED
    BY <1>3, <1>8 DEF Recursive
<1>10. Sums(table, sum)
  <2>1. sum = [T \in S |-> sum[T]]
    BY <1>9
  <2>2. [T \in S |-> sum[T]] = [T \in S |-> Step(sum, T)]
    BY <1>9
  <2>3. sum = [T \in S |-> Step(sum, T)]
    BY <2>1, <2>2
  <2> QED
    BY <2>3 DEF Sums
<1> QED
  BY <1>9, <1>10

\* Sums of numbers are numbers.
LEMMA SumsInt ==
  ASSUME NEW table, Numbers(table), NEW sum, Sums(table, sum)
  PROVE  sum \in [SUBSET DOMAIN table -> Int]
<1> DEFINE D == DOMAIN table
           height == [T \in SUBSET D |-> Cardinality(T)]
           Odd == {T \in SUBSET D : sum[T] \notin Int}
<1>1. height \in [SUBSET D -> Nat]
  BY SizeDown DEF Numbers
<1>2. Odd \in SUBSET SUBSET D
  OBVIOUS
<1>3. Odd = {}
  <2> SUFFICES ASSUME Odd # {} PROVE FALSE
    OBVIOUS
  <2>1. PICK T \in Odd : \A U \in Odd : height[T] <= height[U]
    <3> HIDE DEF Odd, height
    <3> QED
      BY <1>1, <1>2, LowestOf
  <2>2. T \in SUBSET D /\ sum[T] \notin Int
    BY <2>1
  <2>3. sum[T] = IF T = {} THEN 0 ELSE table[Any(T)] + sum[T \ {Any(T)}]
    BY <2>2 DEF Sums
  <2>4. T # {}
    BY <2>2, <2>3
  <2>5. Any(T) \in T
    BY <2>4, AnyOf
  <2>6. T \ {Any(T)} \in SUBSET D /\ Cardinality(T \ {Any(T)}) < Cardinality(T)
    BY <2>2, <2>5, SizeDown DEF Numbers
  <2>7. T \ {Any(T)} \notin Odd
    <3>1. height[T \ {Any(T)}] < height[T] /\ height[T] \in Nat /\ height[T \ {Any(T)}] \in Nat
      BY <1>1, <2>2, <2>6
    <3> HIDE DEF height, Odd
    <3>2. ~(height[T] <= height[T \ {Any(T)}])
      BY <3>1
    <3> QED
      BY <2>1, <3>2
  <2>8. sum[T \ {Any(T)}] \in Int
    BY <2>6, <2>7
  <2>9. table[Any(T)] \in Int
    BY <2>2, <2>5 DEF Numbers
  <2> QED
    BY <2>2, <2>3, <2>4, <2>8, <2>9
<1>4. sum = [T \in SUBSET D |-> sum[T]]
  <2>1. \A T \in SUBSET D :
          sum[T] = IF T = {} THEN 0 ELSE table[Any(T)] + sum[T \ {Any(T)}]
    BY DEF Sums
  <2>2. sum = [T \in SUBSET D |-> IF T = {} THEN 0 ELSE table[Any(T)] + sum[T \ {Any(T)}]]
    BY DEF Sums
  <2> QED
    BY <2>1, <2>2
<1>5. \A T \in SUBSET D : sum[T] \in Int
  BY <1>3
<1> HIDE DEF Odd, height
<1> QED
  BY <1>4, <1>5

\* Any entry may be taken first.
Additive(table, sum) ==
  \A T \in SUBSET DOMAIN table : \A x \in T : sum[T] = table[x] + sum[T \ {x}]
LEMMA SumAny ==
  ASSUME NEW table, Numbers(table), NEW sum, Sums(table, sum)
  PROVE  Additive(table, sum)
<1> DEFINE D == DOMAIN table
           height == [T \in SUBSET D |-> Cardinality(T)]
           Odd == {T \in SUBSET D : \E x \in T : sum[T] # table[x] + sum[T \ {x}]}
<1>1. height \in [SUBSET D -> Nat]
  BY SizeDown DEF Numbers
<1>2. Odd \in SUBSET SUBSET D
  OBVIOUS
<1>3. sum \in [SUBSET D -> Int]
  BY SumsInt
<1>4. \A k \in D : table[k] \in Int
  BY DEF Numbers
<1>5. \A T \in SUBSET D : T # {} => sum[T] = table[Any(T)] + sum[T \ {Any(T)}]
  BY DEF Sums
<1>6. Odd = {}
  <2> SUFFICES ASSUME Odd # {} PROVE FALSE
    OBVIOUS
  <2>1. PICK T \in Odd : \A U \in Odd : height[T] <= height[U]
    <3> HIDE DEF Odd, height
    <3> QED
      BY <1>1, <1>2, LowestOf
  <2>2. PICK x \in T : sum[T] # table[x] + sum[T \ {x}]
    BY <2>1
  <2> DEFINE y == Any(T)
  <2>3. T \in SUBSET D /\ x \in D /\ y \in T /\ y \in D
    BY <2>1, <2>2, AnyOf
  <2>4. sum[T] = table[y] + sum[T \ {y}]
    BY <1>5, <2>3
  <2>5. x # y
    BY <2>2, <2>4
  <2>6. ASSUME NEW U \in SUBSET D, Cardinality(U) < Cardinality(T), NEW z \in U
        PROVE  sum[U] = table[z] + sum[U \ {z}]
    <3>1. height[U] < height[T] /\ height[T] \in Nat /\ height[U] \in Nat
      BY <1>1, <2>3, <2>6
    <3>2. U \notin Odd
      <4> HIDE DEF height, Odd
      <4>1. ~(height[T] <= height[U])
        BY <3>1
      <4> QED
        BY <2>1, <4>1
    <3> QED
      BY <2>6, <3>2
  <2> HIDE DEF y, height, Odd
  <2>7. /\ T \ {x} \in SUBSET D /\ Cardinality(T \ {x}) < Cardinality(T)
        /\ T \ {y} \in SUBSET D /\ Cardinality(T \ {y}) < Cardinality(T)
    BY <2>2, <2>3, SizeDown DEF Numbers
  <2>8. sum[T \ {y}] = table[x] + sum[(T \ {y}) \ {x}]
    BY <2>2, <2>5, <2>6, <2>7
  <2>9. sum[T \ {x}] = table[y] + sum[(T \ {x}) \ {y}]
    BY <2>3, <2>5, <2>6, <2>7
  <2>10. (T \ {y}) \ {x} = (T \ {x}) \ {y} /\ (T \ {x}) \ {y} \in SUBSET D
    BY <2>3
  <2>11. sum[(T \ {x}) \ {y}] \in Int /\ table[x] \in Int /\ table[y] \in Int
    BY <1>3, <1>4, <2>3, <2>10
  <2> QED
    <3> DEFINE rest == sum[(T \ {x}) \ {y}]
    <3>1. rest \in Int /\ table[x] \in Int /\ table[y] \in Int
      BY <2>11
    <3>2. sum[T \ {y}] = table[x] + rest
      BY <2>8, <2>10, Zenon
    <3>3. sum[T \ {x}] = table[y] + rest
      BY <2>9
    <3> HIDE DEF rest
    <3>4. table[y] + (table[x] + rest) = table[x] + (table[y] + rest)
      BY ONLY <3>1
    <3>5. sum[T] = table[y] + (table[x] + rest)
      BY ONLY <2>4, <3>2, Zenon
    <3>6. sum[T] = table[x] + sum[T \ {x}]
      BY ONLY <3>3, <3>4, <3>5, Zenon
    <3> QED
      BY ONLY <2>2, <3>6
<1> QED
  BY <1>6 DEF Additive

\* A sum depends on the entries it adds only.
LEMMA SumSame ==
  ASSUME NEW table, Numbers(table), NEW sum, Sums(table, sum),
         NEW other, NEW osum, Sums(other, osum),
         NEW D, D \subseteq DOMAIN table, D \subseteq DOMAIN other,
         \A k \in D : table[k] = other[k]
  PROVE  \A T \in SUBSET D : sum[T] = osum[T]
<1> DEFINE height == [T \in SUBSET D |-> Cardinality(T)]
           Odd == {T \in SUBSET D : sum[T] # osum[T]}
<1>0. IsFiniteSet(D)
  BY FS_Subset DEF Numbers
<1>1. height \in [SUBSET D -> Nat]
  BY <1>0, SizeDown
<1>2. Odd \in SUBSET SUBSET D
  OBVIOUS
<1>3. Odd = {}
  <2> SUFFICES ASSUME Odd # {} PROVE FALSE
    OBVIOUS
  <2>1. PICK T \in Odd : \A U \in Odd : height[T] <= height[U]
    <3> HIDE DEF Odd, height
    <3> QED
      BY <1>1, <1>2, LowestOf
  <2>2. T \in SUBSET D /\ sum[T] # osum[T]
    BY <2>1
  <2>3. sum[T] = IF T = {} THEN 0 ELSE table[Any(T)] + sum[T \ {Any(T)}]
    <3>1. T \in SUBSET DOMAIN table
      BY <2>2
    <3> QED
      BY <3>1 DEF Sums
  <2>4. osum[T] = IF T = {} THEN 0 ELSE other[Any(T)] + osum[T \ {Any(T)}]
    <3>1. T \in SUBSET DOMAIN other
      BY <2>2
    <3> QED
      BY <3>1 DEF Sums
  <2>5. T # {}
    BY <2>2, <2>3, <2>4
  <2>6. Any(T) \in T
    BY <2>5, AnyOf
  <2>7. T \ {Any(T)} \in SUBSET D /\ Cardinality(T \ {Any(T)}) < Cardinality(T)
    BY <1>0, <2>2, <2>6, SizeDown
  <2>8. T \ {Any(T)} \notin Odd
    <3>1. height[T \ {Any(T)}] < height[T] /\ height[T] \in Nat /\ height[T \ {Any(T)}] \in Nat
      BY <1>1, <2>2, <2>7
    <3> HIDE DEF height, Odd
    <3>2. ~(height[T] <= height[T \ {Any(T)}])
      BY <3>1
    <3> QED
      BY <2>1, <3>2
  <2>9. sum[T \ {Any(T)}] = osum[T \ {Any(T)}]
    BY <2>7, <2>8
  <2>10. table[Any(T)] = other[Any(T)]
    BY <2>2, <2>6
  <2> QED
    BY <2>2, <2>3, <2>4, <2>5, <2>9, <2>10
<1> HIDE DEF Odd, height
<1>4. \A T \in SUBSET D : ~(T \in Odd)
  BY <1>3
<1> QED
  BY <1>4 DEF Odd

\* Tally is such a sum.
LEMMA TallySums ==
  ASSUME NEW table, Numbers(table)
  PROVE  \E sum : Sums(table, sum) /\ Tally(table) = sum[DOMAIN table] /\ Tally(table) \in Int
<1>1. \E sum : Sums(table, sum)
  BY SumsExist
<1> DEFINE sum == CHOOSE f : Sums(table, f)
<1>2. Sums(table, sum)
  BY <1>1
<1>3. Tally(table) = sum[DOMAIN table]
  BY TallyIs
<1> HIDE DEF sum
<1>4. sum \in [SUBSET DOMAIN table -> Int]
  BY <1>2, SumsInt
<1>5. sum[DOMAIN table] \in Int
  <2>1. DOMAIN table \in SUBSET DOMAIN table
    OBVIOUS
  <2> QED
    BY ONLY <1>4, <2>1
<1> QED
  BY <1>2, <1>3, <1>5

\* The empty table sums to nothing.
LEMMA TallyEmpty ==
  ASSUME NEW table, DOMAIN table = {}
  PROVE  Tally(table) = 0
<1>1. Numbers(table)
  BY FS_EmptySet DEF Numbers
<1>2. PICK sum : Sums(table, sum) /\ Tally(table) = sum[DOMAIN table]
  BY <1>1, TallySums
<1>3. sum[{}] = 0
  <2>1. {} \in SUBSET DOMAIN table
    OBVIOUS
  <2> QED
    BY <1>2, <2>1 DEF Sums
<1> QED
  BY <1>2, <1>3

\* What is added to an entry, or entered, is added to the sum.
LEMMA TallyWith ==
  ASSUME NEW table, Numbers(table), NEW k, NEW v \in Int
  PROVE  LET now == With(table, k, v + IF k \in DOMAIN table THEN table[k] ELSE 0)
         IN  /\ Numbers(now) /\ DOMAIN now = DOMAIN table \cup {k}
             /\ Tally(now) = Tally(table) + v
<1> DEFINE w == v + IF k \in DOMAIN table THEN table[k] ELSE 0
           now == With(table, k, w)
           D == DOMAIN table \ {k}
<1>1. w \in Int
  BY DEF Numbers
<1> HIDE DEF w
<1>2. /\ DOMAIN now = DOMAIN table \cup {k} /\ now[k] = w
      /\ \A i \in D : now[i] = table[i]
  BY DEF With
<1> HIDE DEF now
<1>3. Numbers(now)
  <2>1. IsFiniteSet(DOMAIN table \cup {k})
    BY FS_AddElement DEF Numbers
  <2>2. \A i \in DOMAIN now : i = k \/ i \in D
    BY <1>2
  <2>3. \A i \in DOMAIN now : now[i] \in Int
    BY <1>1, <1>2, <2>2 DEF Numbers
  <2> QED
    BY <1>2, <2>1, <2>3 DEF Numbers
<1>4. PICK sum : Sums(table, sum) /\ Tally(table) = sum[DOMAIN table]
  BY TallySums
<1>5. PICK nsum : Sums(now, nsum) /\ Tally(now) = nsum[DOMAIN now]
  BY <1>3, TallySums
<1>11. Additive(table, sum)
  <2> HIDE DEF D
  <2> QED
    BY <1>4, SumAny
<1>12. Additive(now, nsum)
  <2> HIDE DEF D
  <2> QED
    BY <1>3, <1>5, SumAny
<1>13. sum \in [SUBSET DOMAIN table -> Int]
  <2> HIDE DEF D
  <2> QED
    BY <1>4, SumsInt
<1>6. sum[D] = nsum[D]
  <2>1. D \subseteq DOMAIN table /\ D \subseteq DOMAIN now /\ \A i \in D : table[i] = now[i]
    BY <1>2
  <2>2. \A T \in SUBSET D : sum[T] = nsum[T]
    BY <1>4, <1>5, <2>1, SumSame
  <2> QED
    BY <2>2
<1>7. nsum[DOMAIN now] = w + nsum[D]
  <2>2. DOMAIN now \in SUBSET DOMAIN now /\ k \in DOMAIN now /\ DOMAIN now \ {k} = D
    BY <1>2
  <2> QED
    BY ONLY <1>2, <1>12, <2>2 DEF Additive
<1>8. sum[D] \in Int
  <2>1. D \in SUBSET DOMAIN table
    OBVIOUS
  <2> QED
    BY ONLY <1>13, <2>1
<1>9. CASE k \in DOMAIN table
  <2>1. DOMAIN table \in SUBSET DOMAIN table
    OBVIOUS
  <2>2. sum[DOMAIN table] = table[k] + sum[D]
    BY ONLY <1>9, <1>11, <2>1 DEF Additive
  <2>3. table[k] \in Int /\ w = v + table[k]
    BY <1>9 DEF Numbers, w
  <2> QED
    BY <1>2, <1>3, <1>4, <1>5, <1>6, <1>7, <1>8, <2>2, <2>3 DEF now, w
<1>10. CASE k \notin DOMAIN table
  <2>1. D = DOMAIN table /\ w = v
    BY <1>10 DEF w
  <2> QED
    BY <1>2, <1>3, <1>4, <1>5, <1>6, <1>7, <1>8, <2>1 DEF now, w
<1> QED
  BY <1>9, <1>10

-----------------------------------------------------------------------------
(* The report. *)

\* The elements of p, of those given, that are counted under the name i.
Uncounted == {"source", "sink"}
Uses(p, q, i) == {k \in DOMAIN q : p[k].kind \notin Uncounted /\ CountName(p[k]) = i}

\* Whether an element of this name is counted.
Countable(have, opt, i) == have /\ ((i[1] = "func" /\ ~opt) => i \in Standard)
Counts(have, opt, e) == e.kind \notin Uncounted /\ Countable(have, opt, CountName(e))

\* What the report s says of a name, and that it says it of all.
Reported(s, p, q, t, c, have, opt, i) ==
  /\ Countable(have, opt, i) /\ s.cnt[i] = Cardinality(Uses(p, q, i))
  /\ i # Latch => Settled(t, c, i) /\ s.area[i] = s.cnt[i] * AreaOf(Exact(t, c, i))
Report(s, p, q, t, c, have, opt) ==
  /\ DOMAIN s.area = DOMAIN s.cnt /\ Numbers(s.area) /\ s.total = Tally(s.area)
  /\ \A i \in DOMAIN s.cnt : Reported(s, p, q, t, c, have, opt, i)
  /\ \A k \in DOMAIN q : Counts(have, opt, p[k]) => CountName(p[k]) \in DOMAIN s.cnt

\* The uses when one more element has been given its metric.
LEMMA UsesAppend ==
  ASSUME NEW S, NEW q \in Seq(S), NEW p, NEW r, NEW i
  PROVE  LET new == Uses(p, Append(q, r), i)
             e == p[Len(q) + 1]
         IN  /\ IsFiniteSet(Uses(p, q, i)) /\ Cardinality(Uses(p, q, i)) \in Nat
             /\ (e.kind \in Uncounted \/ CountName(e) # i) => new = Uses(p, q, i)
             /\ (e.kind \notin Uncounted /\ CountName(e) = i) =>
                  Cardinality(new) = Cardinality(Uses(p, q, i)) + 1
<1> DEFINE n == Len(q) + 1
           q2 == Append(q, r)
<1>1. /\ DOMAIN q = 1 .. Len(q) /\ Len(q) \in Nat
      /\ DOMAIN q2 = 1 .. n
  BY AppendFacts
<1>2. DOMAIN q2 = DOMAIN q \cup {n} /\ n \notin DOMAIN q
  BY <1>1
<1> HIDE DEF n, q2
<1>3. IsFiniteSet(Uses(p, q, i)) /\ n \notin Uses(p, q, i)
  <2>1. IsFiniteSet(1 .. Len(q))
    BY <1>1, FS_Interval
  <2>2. Uses(p, q, i) \subseteq 1 .. Len(q)
    BY <1>1 DEF Uses
  <2> QED
    BY <1>2, <2>1, <2>2, FS_Subset DEF Uses
<1>4. (p[n].kind \in Uncounted \/ CountName(p[n]) # i) => Uses(p, q2, i) = Uses(p, q, i)
  BY <1>2 DEF Uses
<1>5. (p[n].kind \notin Uncounted /\ CountName(p[n]) = i) =>
         Uses(p, q2, i) = Uses(p, q, i) \cup {n}
  BY <1>2 DEF Uses
<1>6. Cardinality(Uses(p, q, i) \cup {n}) = Cardinality(Uses(p, q, i)) + 1
  BY <1>3, FS_AddElement
<1>7. Cardinality(Uses(p, q, i)) \in Nat
  BY <1>3, FS_CardinalityType
<1>8. (p[n].kind \notin Uncounted /\ CountName(p[n]) = i) =>
         Cardinality(Uses(p, q2, i)) = Cardinality(Uses(p, q, i)) + 1
  BY <1>5, <1>6
<1> QED
  BY <1>3, <1>4, <1>7, <1>8 DEF n, q2

\* One more use of an area.
LEMMA OneMore ==
  ASSUME NEW n \in Nat, NEW v \in Int
  PROVE  v + n * v = (1 + n) * v /\ v + 0 = (1 + 0) * v
OBVIOUS

\* An element is counted under its name, with the metric that the name has from
\* now on.
LEMMA CountedReport ==
  ASSUME NEW s, NEW p, NEW q, NEW t, NEW c, NEW have, NEW opt,
         Report(s, p, q, t, c, have, opt), NEW S, q \in Seq(S), NEW r,
         NEW t2, Extended(t, t2, c), Standard \subseteq DOMAIN t,
         NEW e, e = p[Len(q) + 1], e.kind \notin Uncounted,
         NEW i, i = CountName(e), Countable(have, opt, i),
         NEW v \in Int, i # Latch => Settled(t2, c, i) /\ v = AreaOf(Exact(t2, c, i)),
         NEW s2, s2.total = s.total + v,
         s2.area = With(s.area, i, v + IF i \in DOMAIN s.area THEN s.area[i] ELSE 0),
         s2.cnt = With(s.cnt, i, 1 + IF i \in DOMAIN s.cnt THEN s.cnt[i] ELSE 0)
  PROVE  Report(s2, p, Append(q, r), t2, c, have, opt)
<1> DEFINE q2 == Append(q, r)
<1>1. /\ DOMAIN s.area = DOMAIN s.cnt /\ Numbers(s.area) /\ s.total = Tally(s.area)
      /\ \A j \in DOMAIN s.cnt : Reported(s, p, q, t, c, have, opt, j)
      /\ \A k \in DOMAIN q : Counts(have, opt, p[k]) => CountName(p[k]) \in DOMAIN s.cnt
  BY DEF Report
<1>2. Numbers(s2.area) /\ s2.total = Tally(s2.area)
  <2>1. Numbers(s.area)
    BY <1>1
  <2>2. /\ Numbers(With(s.area, i, v + IF i \in DOMAIN s.area THEN s.area[i] ELSE 0))
        /\ Tally(With(s.area, i, v + IF i \in DOMAIN s.area THEN s.area[i] ELSE 0)) =
             Tally(s.area) + v
    BY ONLY <2>1, v \in Int, TallyWith
  <2> QED
    BY <1>1, <2>2
<1>3. /\ DOMAIN s2.area = DOMAIN s.cnt \cup {i} /\ DOMAIN s2.cnt = DOMAIN s.cnt \cup {i}
      /\ s2.area[i] = v + IF i \in DOMAIN s.cnt THEN s.area[i] ELSE 0
      /\ s2.cnt[i] = 1 + IF i \in DOMAIN s.cnt THEN s.cnt[i] ELSE 0
      /\ \A j \in DOMAIN s.cnt \ {i} : s2.area[j] = s.area[j] /\ s2.cnt[j] = s.cnt[j]
  BY <1>1 DEF With
<1>4. ASSUME NEW j \in DOMAIN s.cnt \ {i}
      PROVE  Reported(s2, p, q2, t2, c, have, opt, j)
  <2>1. Reported(s, p, q, t, c, have, opt, j)
    BY <1>1
  <2>2. Uses(p, q2, j) = Uses(p, q, j)
    BY UsesAppend
  <2>3. s2.area[j] = s.area[j] /\ s2.cnt[j] = s.cnt[j]
    BY <1>3
  <2>4. j # Latch => Settled(t2, c, j) /\ Exact(t2, c, j) = Exact(t, c, j)
    <3>1. j # Latch => Settled(t, c, j)
      BY <2>1 DEF Reported
    <3> QED
      BY <3>1, LookupStays
  <2> QED
    BY ONLY <2>1, <2>2, <2>3, <2>4 DEF Reported
<1>5. Reported(s2, p, q2, t2, c, have, opt, i)
  <2>1. /\ Cardinality(Uses(p, q2, i)) = Cardinality(Uses(p, q, i)) + 1
        /\ Cardinality(Uses(p, q, i)) \in Nat
    BY UsesAppend
  <2>2. CASE i \in DOMAIN s.cnt
    <3>1. Reported(s, p, q, t, c, have, opt, i)
      BY <1>1, <2>2
    <3>2. s.cnt[i] \in Nat /\ s2.cnt[i] = 1 + s.cnt[i] /\ s2.area[i] = v + s.area[i]
          /\ s2.cnt[i] = Cardinality(Uses(p, q2, i))
      BY <1>3, <2>1, <2>2, <3>1 DEF Reported
    <3>3. i # Latch => s.area[i] = s.cnt[i] * v
      <4>1. i # Latch => Settled(t, c, i) /\ s.area[i] = s.cnt[i] * AreaOf(Exact(t, c, i))
        BY <3>1 DEF Reported
      <4>2. i # Latch => Exact(t2, c, i) = Exact(t, c, i)
        BY <4>1, LookupStays
      <4> QED
        BY <4>1, <4>2
    <3>4. v + s.cnt[i] * v = (1 + s.cnt[i]) * v
      BY <3>2, OneMore
    <3>5. i # Latch => Settled(t2, c, i) /\ s2.area[i] = s2.cnt[i] * AreaOf(Exact(t2, c, i))
      BY <3>2, <3>3, <3>4
    <3> QED
      BY <3>2, <3>5 DEF Reported
  <2>3. CASE i \notin DOMAIN s.cnt
    <3>1. Uses(p, q, i) = {}
      BY <1>1, <2>3 DEF Uses, Counts
    <3>2. Cardinality(Uses(p, q, i)) = 0
      BY <3>1, FS_EmptySet
    <3>3. s2.cnt[i] = 1 + 0 /\ s2.area[i] = v + 0
      BY <1>3, <2>3
    <3>4. v + 0 = (1 + 0) * v
      BY v \in Int
    <3>5. s2.cnt[i] = Cardinality(Uses(p, q2, i))
      BY <2>1, <3>2, <3>3
    <3>6. i # Latch => Settled(t2, c, i) /\ s2.area[i] = s2.cnt[i] * AreaOf(Exact(t2, c, i))
      BY <3>3, <3>4
    <3> QED
      BY <3>5, <3>6 DEF Reported
  <2> QED
    BY <2>2, <2>3
<1>6. ASSUME NEW k \in DOMAIN q2, Counts(have, opt, p[k])
      PROVE  CountName(p[k]) \in DOMAIN s2.cnt
  <2>1. DOMAIN q = 1 .. Len(q) /\ DOMAIN q2 = 1 .. Len(q) + 1 /\ Len(q) \in Nat
    BY AppendFacts
  <2>2. k \in DOMAIN q \/ k = Len(q) + 1
    BY <1>6, <2>1
  <2> QED
    BY <1>1, <1>3, <1>6, <2>2
<1> HIDE DEF q2
<1>7. \A j \in DOMAIN s2.cnt : Reported(s2, p, q2, t2, c, have, opt, j)
  BY <1>3, <1>4, <1>5
<1>8. Report(s2, p, q2, t2, c, have, opt)
  BY ONLY <1>2, <1>3, <1>6, <1>7 DEF Report
<1> QED
  BY <1>8 DEF q2

\* An element is not counted.
LEMMA HeldReport ==
  ASSUME NEW s, NEW p, NEW q, NEW t, NEW c, NEW have, NEW opt,
         Report(s, p, q, t, c, have, opt), NEW S, q \in Seq(S), NEW r,
         NEW t2, Extended(t, t2, c), Standard \subseteq DOMAIN t,
         ~Counts(have, opt, p[Len(q) + 1])
  PROVE  Report(s, p, Append(q, r), t2, c, have, opt)
<1> DEFINE q2 == Append(q, r)
           e == p[Len(q) + 1]
<1>1. /\ DOMAIN s.area = DOMAIN s.cnt /\ Numbers(s.area) /\ s.total = Tally(s.area)
      /\ \A j \in DOMAIN s.cnt : Reported(s, p, q, t, c, have, opt, j)
      /\ \A k \in DOMAIN q : Counts(have, opt, p[k]) => CountName(p[k]) \in DOMAIN s.cnt
  BY DEF Report
<1>2. ASSUME NEW j \in DOMAIN s.cnt
      PROVE  Reported(s, p, q2, t2, c, have, opt, j)
  <2>1. Reported(s, p, q, t, c, have, opt, j)
    BY <1>1
  <2>2. e.kind \in Uncounted \/ CountName(e) # j
    BY <2>1 DEF Reported, Counts
  <2>3. Uses(p, q2, j) = Uses(p, q, j)
    BY <2>2, UsesAppend
  <2>4. j # Latch => Settled(t2, c, j) /\ Exact(t2, c, j) = Exact(t, c, j)
    <3>1. j # Latch => Settled(t, c, j)
      BY <2>1 DEF Reported
    <3> QED
      BY <3>1, LookupStays
  <2> QED
    BY ONLY <2>1, <2>3, <2>4 DEF Reported
<1>3. ASSUME NEW k \in DOMAIN q2, Counts(have, opt, p[k])
      PROVE  CountName(p[k]) \in DOMAIN s.cnt
  <2>1. DOMAIN q = 1 .. Len(q) /\ DOMAIN q2 = 1 .. Len(q) + 1 /\ Len(q) \in Nat
    BY AppendFacts
  <2>2. k \in DOMAIN q \/ k = Len(q) + 1
    BY <1>3, <2>1
  <2> QED
    BY <1>1, <1>3, <2>2
<1> HIDE DEF q2
<1>4. Report(s, p, q2, t2, c, have, opt)
  BY ONLY <1>1, <1>2, <1>3 DEF Report
<1> QED
  BY <1>4 DEF q2

\* The inductive invariant.
ReportInv == RunInv /\ Report(stats, prog, given, opMetrics, cached, haveMetrics, optimizer)

\* The area of a metric is a number.
LEMMA AreaInt ==
  ASSUME AreaIsNumber, NEW m \in Metric
  PROVE  AreaOf(m) \in Int
<1>1. m.of \in Standard \cup Formulas /\ m.times \in Nat
  BY DEF Metric
<1>2. Area(m.of) \in Int
  BY <1>1 DEF AreaIsNumber
<1> QED
  BY <1>1, <1>2 DEF AreaOf

\* The name an element is counted under is that of its instance, but for
\* buffers, mixers and arbiters.
LEMMA CountNameFacts ==
  ASSUME NEW e \in ElementSet, e.kind \notin Uncounted
  PROVE  /\ e.kind \in {"copy", "split", "merge", "func"} =>
              CountName(e) = InstOf(e) /\ InstOf(e)[1] = e.kind
         /\ e.kind \in {"merge", "mixer", "arbiter"} =>
              CountName(e) = MergeInst(e.ctrl, e.bw, e.n)
         /\ e.kind = "buffer" => CountName(e) = Latch
         /\ CountName(e)[1] = "func" => e.kind = "func"
<1>1. e.kind \in Kinds
  BY KindFacts
<1>2. CASE e.kind = "copy"
  BY <1>2, KindFacts, NameFacts DEF CountName
<1>3. CASE e.kind = "split"
  BY <1>3, KindFacts, NameFacts DEF CountName
<1>4. CASE e.kind \in {"merge", "mixer", "arbiter"}
  <2>1. CountName(e) = MergeInst(e.ctrl, e.bw, e.n)
    BY <1>4 DEF CountName
  <2> QED
    BY <1>4, <2>1, KindFacts, NameFacts
<1>5. CASE e.kind = "func"
  BY <1>5, KindFacts, NameFacts DEF CountName
<1>6. CASE e.kind = "buffer"
  <2>1. CountName(e) = Latch
    BY <1>6 DEF CountName
  <2>2. Latch[1] # "func"
    BY DEF Latch
  <2> QED
    BY <1>6, <2>1, <2>2
<1> QED
  BY <1>1, <1>2, <1>3, <1>4, <1>5, <1>6 DEF Kinds, Uncounted

\* What Countable says of an element.
LEMMA CountableElement ==
  ASSUME NEW e \in ElementSet, e.kind \notin Uncounted, NEW have, NEW opt
  PROVE  Counts(have, opt, e) <=>
           (have /\ ((e.kind = "func" /\ ~opt) => FUInst(e.n) \in Standard))
<1>1. CountName(e)[1] = "func" <=> e.kind = "func"
  BY CountNameFacts
<1>2. e.kind = "func" => CountName(e) = FUInst(e.n)
  BY CountNameFacts, KindFacts
<1> QED
  BY <1>1, <1>2 DEF Counts, Countable

\* The place of an element in the run.
LEMMA ReportPlace ==
  ASSUME ReportInv, NEW STATE kinds, Translating(kinds), NEW STATE insts, NEW STATE m,
         Configure(insts, m)
  PROVE  /\ Report(stats, prog, given, opMetrics, cached, haveMetrics, optimizer)
         /\ \E S : given \in Seq(S)
         /\ Standard \subseteq DOMAIN opMetrics
         /\ Element = prog[Len(given) + 1]
         /\ given' = Append(given, Record(insts[1], m))
         /\ UNCHANGED <<optimizer, haveMetrics, prog, cached>>
<1>1. RunInv
  BY DEF ReportInv
<1>2. /\ Element = prog[next] /\ next \in 1 .. Len(prog) /\ Len(prog) \in Nat
      /\ Len(given) = next - 1
      /\ UNCHANGED <<optimizer, haveMetrics, prog, cached, previous>>
  BY <1>1, ElementPlace
<1>3. Len(given) + 1 = next
  BY <1>2
<1>4. \E S : given \in Seq(S)
  BY <1>1 DEF RunInv, GivenTo
<1>5. Standard \subseteq DOMAIN opMetrics
  BY <1>1 DEF RunInv, IInv, MetricsInv, TableOK
<1>6. given' = Append(given, Record(insts[1], m))
  BY DEF Configure
<1> QED
  BY <1>2, <1>3, <1>4, <1>5, <1>6 DEF ReportInv

\* A step that counts its element.
LEMMA CountedStep ==
  ASSUME ReportInv, RunInv', NEW STATE kinds, Translating(kinds), NEW STATE insts, NEW STATE m,
         Configure(insts, m), NEW STATE i, NEW STATE k, NEW STATE kind, Counted(i, k, kind),
         AreaOf(k) \in Int, i = CountName(Element),
         Element.kind \notin Uncounted, Counts(haveMetrics, optimizer, Element),
         Extended(opMetrics, opMetrics', cached),
         i # Latch => Settled(opMetrics', cached, i) /\ k = Exact(opMetrics', cached, i)
  PROVE  ReportInv'
<1>1. /\ Report(stats, prog, given, opMetrics, cached, haveMetrics, optimizer)
      /\ \E S : given \in Seq(S)
      /\ Standard \subseteq DOMAIN opMetrics
      /\ Element = prog[Len(given) + 1]
      /\ given' = Append(given, Record(insts[1], m))
      /\ UNCHANGED <<optimizer, haveMetrics, prog, cached>>
  BY ReportPlace
<1>2. PICK S : given \in Seq(S)
  BY <1>1
<1> DEFINE v == AreaOf(k)
           r == Record(insts[1], m)
<1>3. /\ stats'.total = stats.total + v
      /\ stats'.area =
           With(stats.area, i, v + IF i \in DOMAIN stats.area THEN stats.area[i] ELSE 0)
      /\ stats'.cnt =
           With(stats.cnt, i, 1 + IF i \in DOMAIN stats.cnt THEN stats.cnt[i] ELSE 0)
  BY DEF Counted
<1>4. v \in Int /\ (i # Latch => Settled(opMetrics', cached, i)
                                 /\ v = AreaOf(Exact(opMetrics', cached, i)))
  OBVIOUS
<1>5. Countable(haveMetrics, optimizer, i)
  BY DEF Counts
<1> HIDE DEF v, r
<1>6. Report(stats', prog, Append(given, r), opMetrics', cached, haveMetrics, optimizer)
  BY <1>1, <1>2, <1>3, <1>4, <1>5, CountedReport
<1> QED
  BY <1>1, <1>6 DEF ReportInv, r

\* A step that does not.
LEMMA HeldStep ==
  ASSUME ReportInv, RunInv', NEW STATE kinds, Translating(kinds), NEW STATE insts, NEW STATE m,
         Configure(insts, m), UNCHANGED stats, ~Counts(haveMetrics, optimizer, Element),
         Extended(opMetrics, opMetrics', cached)
  PROVE  ReportInv'
<1>1. /\ Report(stats, prog, given, opMetrics, cached, haveMetrics, optimizer)
      /\ \E S : given \in Seq(S)
      /\ Standard \subseteq DOMAIN opMetrics
      /\ Element = prog[Len(given) + 1]
      /\ given' = Append(given, Record(insts[1], m))
      /\ UNCHANGED <<optimizer, haveMetrics, prog, cached>>
  BY ReportPlace
<1>2. PICK S : given \in Seq(S)
  BY <1>1
<1> DEFINE r == Record(insts[1], m)
<1>3. ~Counts(haveMetrics, optimizer, prog[Len(given) + 1])
  BY <1>1
<1> HIDE DEF r
<1>4. Report(stats, prog, Append(given, r), opMetrics', cached, haveMetrics, optimizer)
  BY <1>1, <1>2, <1>3, HeldReport
<1> QED
  BY <1>1, <1>4 DEF ReportInv, r

\* Nothing is given, nothing looked up.
LEMMA RestStep ==
  ASSUME ReportInv, RunInv',
         UNCHANGED <<stats, prog, given, opMetrics, cached, haveMetrics, optimizer>>
  PROVE  ReportInv'
BY DEF ReportInv

\* An element without a metric is not counted.
LEMMA UnmeteredReport ==
  ASSUME ReportInv, RunInv', NEW STATE kinds, Translating(kinds), NEW STATE insts,
         Unmetered(insts), ~Counts(haveMetrics, optimizer, Element)
  PROVE  ReportInv'
<1>1. Configure(insts, NoMetric) /\ UNCHANGED stats /\ opMetrics' = opMetrics
  BY DEF Unmetered, NoRecord
<1>2. Extended(opMetrics, opMetrics', cached)
  BY <1>1, SameTable
<1> DEFINE m == NoMetric
<1>3. Configure(insts, m)
  BY <1>1
<1> HIDE DEF m
<1> QED
  BY <1>1, <1>2, <1>3, HeldStep

\* A run that gives up leaves the report as it is.
LEMMA GiveUpReport ==
  ASSUME ReportInv, RunInv', NEW STATE kinds, Translating(kinds), GiveUp("width")
  PROVE  ReportInv'
<1>1. UNCHANGED <<stats, prog, given, opMetrics, cached, haveMetrics, optimizer>>
  BY DEF Translating, GiveUp, NoRecord, outputs
<1> QED
  BY <1>1, RestStep

\* A metric that was looked up, or derived, is counted under the name of the
\* instance.
LEMMA FoundReport ==
  ASSUME ReportInv, RunInv', NEW STATE kinds, Translating(kinds), NEW STATE i, NEW STATE m,
         NEW STATE kind, Counted(i, m, kind), Configure(<<i>>, m),
         AreaOf(m) \in Int, i = CountName(Element), Element.kind \notin Uncounted,
         Counts(haveMetrics, optimizer, Element), Extended(opMetrics, opMetrics', cached),
         Settled(opMetrics', cached, i), m = Exact(opMetrics', cached, i)
  PROVE  ReportInv'
<1> DEFINE insts == <<i>>
<1>1. Configure(insts, m)
  OBVIOUS
<1> HIDE DEF insts
<1> QED
  BY <1>1, CountedStep

-----------------------------------------------------------------------------
(* The elements in the report. *)

\* What the actions below have in common.
LEMMA ReportFacts ==
  ASSUME ReportInv, NEW STATE kinds, Translating(kinds)
  PROVE  /\ RunInv /\ Element \in ElementSet /\ Element.kind \in kinds
         /\ UNCHANGED <<cached, optimizer>>
BY ElementPlace DEF ReportInv

\* The area of what is looked up is a number.
LEMMA SettledArea ==
  ASSUME AreaIsNumber, RunInv, NEW STATE i, Settled(opMetrics, cached, i)
  PROVE  AreaOf(Exact(opMetrics, cached, i)) \in Int
BY ExactMetric, AreaInt

\* A copy, by its own name or derived.
LEMMA CopyReport ==
  ASSUME AreaIsNumber, ReportInv, RunInv', CreateCopy
  PROVE  ReportInv'
<1> DEFINE inst == CopyInst(Element.bw, Element.n)
           m == CopyMetric(Element.bw, Element.n)
<1>1. Translating({"copy"})
  BY DEF CreateCopy
<1>2. /\ RunInv /\ Element \in ElementSet /\ Element.kind = "copy"
      /\ UNCHANGED <<cached, optimizer>> /\ Element.kind \notin Uncounted
  BY <1>1, ReportFacts DEF Uncounted
<1>3. /\ InstOf(Element) = inst /\ inst[1] = "copy" /\ Element.n \in Nat
      /\ CountName(Element) = inst
  BY <1>2, KindFacts, NameFacts, CountNameFacts
<1>4. Counts(haveMetrics, optimizer, Element) <=> haveMetrics
  BY <1>2, CountableElement
<1>5. CASE ~haveMetrics /\ Unmetered(<<inst>>)
  <2> DEFINE insts == <<inst>>
  <2>1. Unmetered(insts)
    BY <1>5
  <2> HIDE DEF insts
  <2> QED
    BY <1>1, <1>4, <1>5, <2>1, UnmeteredReport
<1>6. CASE haveMetrics /\ Known(inst) /\ Served(inst, "copy")
  <2>1. /\ Counted(inst, opMetrics[inst], "copy") /\ Configure(<<inst>>, opMetrics[inst])
        /\ opMetrics' = opMetrics
    BY <1>6 DEF Served, NoRecord
  <2>2. Settled(opMetrics, cached, inst) /\ opMetrics[inst] = Exact(opMetrics, cached, inst)
    BY <1>3, <1>6 DEF Settled, Exact, Known
  <2>3. AreaOf(opMetrics[inst]) \in Int
    BY <1>2, <2>2, SettledArea
  <2>4. Extended(opMetrics, opMetrics', cached)
    BY <2>1, SameTable
  <2> HIDE DEF inst
  <2> QED
    BY <1>1, <1>2, <1>3, <1>4, <1>6, <2>1, <2>2, <2>3, <2>4, FoundReport
<1>7. CASE GiveUp("width")
  BY <1>1, <1>7, GiveUpReport
<1>8. CASE /\ haveMetrics /\ ~Known(inst) /\ Known(CopyInst(EquivalentBW(Element.bw), 2))
           /\ Derived(inst, m, "copy")
  <2>1. /\ Counted(inst, m, "copy") /\ Configure(<<inst>>, m)
        /\ opMetrics' = With(opMetrics, inst, m)
    BY <1>8 DEF Derived, NewRecord
  <2>2. m \in Metric
    BY <1>2, <1>3, <1>8, CopyMetricTyped
  <2>3. ~Settled(opMetrics, cached, inst)
    BY <1>3, <1>8 DEF Settled, Known
  <2>4. AreaOf(m) \in Int
    BY <2>2, AreaInt
  <2> HIDE DEF m, inst
  <2>5. /\ Extended(opMetrics, opMetrics', cached) /\ Settled(opMetrics', cached, inst)
        /\ m = Exact(opMetrics', cached, inst)
    BY <2>1, <2>3, NewSettled
  <2> QED
    BY <1>1, <1>2, <1>3, <1>4, <1>8, <2>1, <2>4, <2>5, FoundReport
<1> QED
  BY <1>5, <1>6, <1>7, <1>8 DEF CreateCopy

\* A split, by its own name, by that of the equivalent width, or derived.
LEMMA SplitReport ==
  ASSUME AreaIsNumber, ReportInv, RunInv', CreateSplit
  PROVE  ReportInv'
<1> DEFINE e == Element
           inst == SplitInst(e.ctrl, e.bw, e.n)
           equiv == SplitInst(e.ctrl, EquivalentBW(e.bw), e.n)
           m == SplitMetric(e)
<1>1. Translating({"split"})
  BY DEF CreateSplit
<1>2. /\ RunInv /\ Element \in ElementSet /\ Element.kind = "split"
      /\ UNCHANGED <<cached, optimizer>> /\ Element.kind \notin Uncounted
  BY <1>1, ReportFacts DEF Uncounted
<1>3. /\ InstOf(e) = inst /\ inst[1] = "split" /\ Equivalent(inst) = equiv
      /\ e.n \in Nat /\ EquivalentBW(e.bw) \in Nat /\ CountName(e) = inst
  BY <1>2, KindFacts, NameFacts, CountNameFacts
<1>4. Counts(haveMetrics, optimizer, Element) <=> haveMetrics
  BY <1>2, CountableElement
<1>5. CASE ~haveMetrics /\ Unmetered(<<inst>>)
  <2> DEFINE insts == <<inst>>
  <2>1. Unmetered(insts)
    BY <1>5
  <2> HIDE DEF insts
  <2> QED
    BY <1>1, <1>4, <1>5, <2>1, UnmeteredReport
<1>6. ASSUME haveMetrics, NoRecord, NEW STATE k, Counted(inst, k, "split"),
             Configure(<<inst>>, k),
             Settled(opMetrics, cached, inst), k = Exact(opMetrics, cached, inst)
      PROVE  ReportInv'
  <2>1. opMetrics' = opMetrics
    BY <1>6 DEF NoRecord
  <2>2. AreaOf(k) \in Int
    BY <1>2, <1>6, SettledArea
  <2>3. Extended(opMetrics, opMetrics', cached)
    BY <2>1, SameTable
  <2> HIDE DEF inst
  <2> QED
    BY <1>1, <1>2, <1>3, <1>4, <1>6, <2>1, <2>2, <2>3, FoundReport
<1>7. CASE haveMetrics /\ Known(inst) /\ Served(inst, "split")
  <2>1. Settled(opMetrics, cached, inst) /\ opMetrics[inst] = Exact(opMetrics, cached, inst)
    BY <1>3, <1>7 DEF Settled, Exact, Known
  <2> QED
    BY <1>6, <1>7, <2>1 DEF Served
<1>8. CASE GiveUp("width")
  BY <1>1, <1>8, GiveUpReport
<1>9. CASE /\ haveMetrics /\ ~Known(inst) /\ Known(equiv) /\ NoRecord
           /\ Counted(inst, opMetrics[equiv], "split") /\ Configure(<<inst>>, opMetrics[equiv])
  <2>1. Settled(opMetrics, cached, inst) /\ opMetrics[equiv] = Exact(opMetrics, cached, inst)
    BY <1>3, <1>9 DEF Settled, Exact, Known
  <2> QED
    BY <1>6, <1>9, <2>1
<1>10. CASE haveMetrics /\ ~Known(inst) /\ ~Known(equiv) /\ Derived(inst, m, "split")
  <2>1. /\ Counted(inst, m, "split") /\ Configure(<<inst>>, m)
        /\ opMetrics' = With(opMetrics, inst, m)
    BY <1>10 DEF Derived, NewRecord
  <2>2. m \in Metric
    <3>1. (e.n + 1) \div 2 \in Nat
      BY <1>3
    <3> QED
      BY <1>3, <3>1, FormulaTyped DEF SplitMetric
  <2>3. ~Settled(opMetrics, cached, inst)
    BY <1>3, <1>10 DEF Settled, Known
  <2>4. AreaOf(m) \in Int
    BY <2>2, AreaInt
  <2> HIDE DEF m, inst, equiv
  <2>5. /\ Extended(opMetrics, opMetrics', cached) /\ Settled(opMetrics', cached, inst)
        /\ m = Exact(opMetrics', cached, inst)
    BY <2>1, <2>3, NewSettled
  <2> QED
    BY <1>1, <1>2, <1>3, <1>4, <1>10, <2>1, <2>4, <2>5, FoundReport
<1> QED
  BY <1>5, <1>7, <1>8, <1>9, <1>10 DEF CreateSplit

\* A mixer or an arbiter is counted as the merge whose metric it looks up.
LEMMA MergeReport ==
  ASSUME AreaIsNumber, ReportInv, RunInv', CreateMerge \/ CreateNondeterministic
  PROVE  ReportInv'
<1> DEFINE kinds == {"merge", "mixer", "arbiter"}
           inst == MergeInst(Element.ctrl, Element.bw, Element.n)
<1>1. Translating(kinds)
  BY DEF CreateMerge, CreateNondeterministic, Translating
<1>2. /\ RunInv /\ Element \in ElementSet /\ Element.kind \in kinds
      /\ UNCHANGED <<cached, optimizer>>
  BY <1>1, ReportFacts
<1>3. Element.kind \notin Uncounted /\ Element.kind # "func"
  BY <1>2 DEF Uncounted
<1>4. CountName(Element) = inst
  BY <1>2, <1>3, CountNameFacts
<1>5. Counts(haveMetrics, optimizer, Element) <=> haveMetrics
  BY <1>2, <1>3, CountableElement
<1>6. ASSUME ~haveMetrics, NEW STATE insts, Unmetered(insts) PROVE ReportInv'
  BY <1>1, <1>5, <1>6, UnmeteredReport
<1>7. CASE GiveUp("width")
  BY <1>1, <1>7, GiveUpReport
<1>8. ASSUME haveMetrics, GetMerge(Element), NEW STATE insts, NEW STATE m, Configure(insts, m)
      PROVE  ReportInv'
  <2> DEFINE k == MergeFor(Element)
  <2>1. /\ Extended(opMetrics, opMetrics', cached)
        /\ Settled(opMetrics', cached, inst) /\ k = Exact(opMetrics', cached, inst)
        /\ k \in Metric
    BY <1>2, <1>8, GetMergeRun
  <2>2. Counted(inst, k, "merge")
    BY <1>8 DEF GetMerge
  <2>3. AreaOf(k) \in Int
    BY <2>1, AreaInt
  <2> HIDE DEF inst, k, kinds
  <2> QED
    BY <1>1, <1>3, <1>4, <1>5, <1>8, <2>1, <2>2, <2>3, CountedStep
<1>9. CASE CreateMerge
  <2> DEFINE insts == <<inst>>
  <2>1. \/ ~haveMetrics /\ Unmetered(insts)
        \/ GiveUp("width")
        \/ haveMetrics /\ GetMerge(Element) /\ Configure(insts, MergeFor(Element))
    BY <1>9 DEF CreateMerge
  <2> HIDE DEF insts
  <2> QED
    BY <1>6, <1>7, <1>8, <2>1
<1>10. CASE CreateNondeterministic
  <2> DEFINE insts == <<NondetInst(Element.kind, Element.ctrl, Element.bw, Element.n)>>
             none == NoMetric
  <2>1. \/ ~haveMetrics /\ Unmetered(insts)
        \/ GiveUp("width")
        \/ haveMetrics /\ GetMerge(Element) /\ Configure(insts, none)
    BY <1>10 DEF CreateNondeterministic
  <2> HIDE DEF insts, none
  <2> QED
    BY <1>6, <1>7, <1>8, <2>1
<1> QED
  BY <1>9, <1>10

\* A functional unit, known, cached or optimized.
LEMMA FUReport ==
  ASSUME AreaIsNumber, ReportInv, RunInv', CreateFU
  PROVE  ReportInv'
<1> DEFINE inst == FUInst(Element.n)
           m == [of |-> <<"optimized", Element.n, 0, 0>>, times |-> 1, six |-> FALSE]
           new == ~Known(inst) /\ inst \notin DOMAIN cached
<1>1. Translating({"func"})
  BY DEF CreateFU
<1>2. /\ RunInv /\ Element \in ElementSet /\ Element.kind = "func"
      /\ UNCHANGED <<cached, optimizer>> /\ Element.kind \notin Uncounted
  BY <1>1, ReportFacts DEF Uncounted
<1>3. /\ inst[1] = "func" /\ Element.n \in Nat /\ CountName(Element) = inst
  BY <1>2, KindFacts, NameFacts, CountNameFacts
<1>4. Counts(haveMetrics, optimizer, Element) <=> (haveMetrics /\ (optimizer \/ inst \in Standard))
  BY <1>2, CountableElement
<1>5. Standard \subseteq DOMAIN opMetrics
  BY <1>2 DEF RunInv, IInv, MetricsInv, TableOK
<1>6. CASE (~haveMetrics \/ (new /\ ~optimizer)) /\ Unmetered(<<inst>>)
  <2> DEFINE insts == <<inst>>
  <2>1. Unmetered(insts)
    BY <1>6
  <2>2. ~Counts(haveMetrics, optimizer, Element)
    BY <1>4, <1>5, <1>6 DEF Known
  <2> HIDE DEF insts, inst
  <2> QED
    BY <1>1, <2>1, <2>2, UnmeteredReport
<1>7. ASSUME haveMetrics, opMetrics' = opMetrics, NEW STATE k, Counted(inst, k, "func"),
             Configure(<<inst>>, k), Known(inst) \/ inst \in DOMAIN cached,
             Settled(opMetrics, cached, inst), k = Exact(opMetrics, cached, inst)
      PROVE  ReportInv'
  <2>1. AreaOf(k) \in Int
    BY <1>2, <1>7, SettledArea
  <2>2. Extended(opMetrics, opMetrics', cached)
    BY <1>7, SameTable
  <2>3. Counts(haveMetrics, optimizer, Element)
    BY <1>2, <1>3, <1>4, <1>7, FURecorded DEF Known
  <2> HIDE DEF inst
  <2> QED
    BY <1>1, <1>2, <1>3, <1>7, <2>1, <2>2, <2>3, FoundReport
<1>8. CASE haveMetrics /\ Known(inst) /\ Served(inst, "func")
  <2>1. Settled(opMetrics, cached, inst) /\ opMetrics[inst] = Exact(opMetrics, cached, inst)
    BY <1>3, <1>8 DEF Settled, Exact, Known
  <2> QED
    BY <1>7, <1>8, <2>1 DEF Served, NoRecord
<1>9. CASE haveMetrics /\ new /\ optimizer /\ Derived(inst, m, "func")
  <2>1. /\ Counted(inst, m, "func") /\ Configure(<<inst>>, m)
        /\ opMetrics' = With(opMetrics, inst, m)
    BY <1>9 DEF Derived, NewRecord
  <2>2. m \in Metric
    BY <1>3, FormulaTyped
  <2>3. ~Settled(opMetrics, cached, inst)
    BY <1>3, <1>9 DEF Settled, Known
  <2>4. AreaOf(m) \in Int
    BY <2>2, AreaInt
  <2> HIDE DEF m, inst
  <2>5. /\ Extended(opMetrics, opMetrics', cached) /\ Settled(opMetrics', cached, inst)
        /\ m = Exact(opMetrics', cached, inst)
    BY <2>1, <2>3, NewSettled
  <2> QED
    BY <1>1, <1>2, <1>3, <1>4, <1>9, <2>1, <2>4, <2>5, FoundReport
<1>10. CASE /\ haveMetrics /\ ~Known(inst) /\ inst \in DOMAIN cached
            /\ UNCHANGED <<opMetrics, cacheFile>>
            /\ Counted(inst, cached[inst], "func") /\ Configure(<<inst>>, cached[inst])
  <2>1. Settled(opMetrics, cached, inst) /\ cached[inst] = Exact(opMetrics, cached, inst)
    BY <1>3, <1>10 DEF Settled, Exact, Known
  <2> QED
    BY <1>7, <1>10, <2>1
<1> QED
  BY <1>6, <1>8, <1>9, <1>10 DEF CreateFU

\* A chain of buffers is counted as latches.
LEMMA BufferReport ==
  ASSUME AreaIsNumber, ReportInv, RunInv', CreateBuffer
  PROVE  ReportInv'
<1> DEFINE e == Element
           insts == IF ~e.init THEN <<OneBuf(e.bw)>>
                    ELSE IF e.n > 1 THEN <<OneBuf(e.bw), InitBuf(e.bw)>> ELSE <<InitBuf(e.bw)>>
           latch == opMetrics[Latch]
           m == [of |-> latch.of, times |-> e.n * latch.times, six |-> latch.six]
<1>1. Translating({"buffer"})
  BY DEF CreateBuffer
<1>2. /\ RunInv /\ Element \in ElementSet /\ Element.kind = "buffer"
      /\ UNCHANGED <<cached, optimizer>> /\ Element.kind \notin Uncounted
  BY <1>1, ReportFacts DEF Uncounted
<1>3. CountName(Element) = Latch /\ e.n \in Nat
  BY <1>2, CountNameFacts, KindFacts
<1>4. Counts(haveMetrics, optimizer, Element) <=> haveMetrics
  BY <1>2, CountableElement
<1>5. CASE ~haveMetrics /\ Unmetered(insts)
  <2> HIDE DEF insts
  <2> QED
    BY <1>1, <1>4, <1>5, UnmeteredReport
<1>6. CASE haveMetrics /\ NoRecord /\ Counted(Latch, m, "buffer") /\ Configure(insts, m)
  <2>1. m \in Metric
    <3>1. latch.of \in Standard /\ latch.times \in Nat /\ latch.six \in BOOLEAN
      <4>1. Latch \in Standard /\ latch = [of |-> Latch, times |-> 1, six |-> FALSE]
        BY <1>2, LatchFacts
      <4> HIDE DEF latch
      <4> QED
        BY ONLY <4>1
    <3>2. e.n * latch.times \in Nat
      BY <1>3, <3>1
    <3> QED
      BY <3>1, <3>2 DEF Metric
  <2>2. AreaOf(m) \in Int
    BY <2>1, AreaInt
  <2>3. Extended(opMetrics, opMetrics', cached)
    BY <1>6, SameTable DEF NoRecord
  <2> DEFINE i == Latch
  <2>4. /\ i = CountName(Element) /\ Counted(i, m, "buffer")
        /\ i # Latch => Settled(opMetrics', cached, i) /\ m = Exact(opMetrics', cached, i)
    BY <1>3, <1>6
  <2> HIDE DEF m, insts, i
  <2> QED
    BY <1>1, <1>2, <1>4, <1>6, <2>2, <2>3, <2>4, CountedStep
<1> QED
  BY <1>5, <1>6 DEF CreateBuffer

\* Sources and sinks are not counted.
LEMMA EndpointReport ==
  ASSUME ReportInv, RunInv', CreateSource \/ CreateSink
  PROVE  ReportInv'
<1> DEFINE kinds == {"source", "sink"}
<1>1. Translating(kinds)
  BY DEF CreateSource, CreateSink, Translating
<1>2. ~Counts(haveMetrics, optimizer, Element)
  BY <1>1, ReportFacts DEF Counts, Uncounted
<1>3. NoRecord /\ UNCHANGED stats
  BY DEF CreateSource, CreateSink
<1>4. Extended(opMetrics, opMetrics', cached)
  BY <1>3, SameTable DEF NoRecord
<1>5. ASSUME NEW STATE ii, NEW STATE k, Configure(ii, k) PROVE ReportInv'
  <2> HIDE DEF kinds
  <2> QED
    BY <1>1, <1>2, <1>3, <1>4, <1>5, HeldStep
<1>6. CASE CreateSource
  <2> DEFINE ii == <<SourceInst(Element.bw)>>
             k == IF haveMetrics THEN opMetrics[Source] ELSE NoMetric
  <2>1. Configure(ii, k)
    BY <1>6 DEF CreateSource
  <2> HIDE DEF ii, k
  <2> QED
    BY <1>5, <2>1
<1>7. CASE CreateSink
  <2> DEFINE ii == <<SinkInst(Element.bw)>>
             k == IF haveMetrics THEN opMetrics[Sink] ELSE NoMetric
  <2>1. Configure(ii, k)
    BY <1>7 DEF CreateSink
  <2> HIDE DEF ii, k
  <2> QED
    BY <1>5, <2>1
<1> QED
  BY <1>6, <1>7

\* A run starts with an empty report.
LEMMA EmptyReport ==
  ASSUME NEW p, NEW t, NEW c, NEW have, NEW opt
  PROVE  Report(NoStats, p, <<>>, t, c, have, opt)
<1> DEFINE none == <<>>
           s == NoStats
<1>1. DOMAIN none = {}
  OBVIOUS
<1>2. s.area = none /\ s.cnt = none /\ s.total = 0
  BY DEF NoStats
<1> HIDE DEF none, s
<1>3. Numbers(none)
  BY <1>1, FS_EmptySet DEF Numbers
<1>4. Tally(none) = 0
  BY <1>1, TallyEmpty
<1>5. Report(s, p, none, t, c, have, opt)
  BY <1>1, <1>2, <1>3, <1>4 DEF Report
<1> QED
  BY <1>5 DEF none, s

\* Nothing is counted at the start.
LEMMA InitReport == Init => ReportInv
<1> SUFFICES ASSUME Init PROVE ReportInv
  OBVIOUS
<1>1. RunInv
  BY InitRun
<1>2. given = <<>> /\ stats = NoStats
  BY DEF Init
<1> QED
  BY <1>1, <1>2, EmptyReport DEF ReportInv

\* Every run reports for itself.
LEMMA LaunchReport ==
  ASSUME RunInv', NEW p, NEW fresh, Launch(p, fresh)
  PROVE  ReportInv'
<1>1. given' = <<>> /\ stats' = NoStats
  BY DEF Launch, Start
<1> QED
  BY <1>1, EmptyReport DEF ReportInv

\* Every step preserves the invariant.
LEMMA NextReport ==
  ASSUME AreaIsNumber, ReportInv, [Next]_vars
  PROVE  ReportInv'
<1>1. RunInv'
  BY NextRun DEF ReportInv
<1>2. CASE CreateCopy
  BY <1>1, <1>2, CopyReport
<1>3. CASE CreateSplit
  BY <1>1, <1>3, SplitReport
<1>4. CASE CreateMerge \/ CreateNondeterministic
  BY <1>1, <1>4, MergeReport
<1>5. CASE CreateFU
  BY <1>1, <1>5, FUReport
<1>6. CASE CreateBuffer
  BY <1>1, <1>6, BufferReport
<1>7. CASE CreateSource \/ CreateSink
  BY <1>1, <1>7, EndpointReport
<1>8. CASE End \/ Kill
  <2>1. UNCHANGED <<stats, prog, given, opMetrics, cached, haveMetrics, optimizer>>
    BY <1>8 DEF End, Kill, outputs
  <2> QED
    BY <1>1, <2>1, RestStep
<1>9. CASE \E p \in Revisions(prog), fresh \in BOOLEAN : Launch(p, fresh)
  BY <1>1, <1>9, LaunchReport
<1>10. CASE UNCHANGED vars
  <2>1. UNCHANGED <<stats, prog, given, opMetrics, cached, haveMetrics, optimizer>>
    BY <1>10 DEF vars, outputs
  <2> QED
    BY <1>1, <2>1, RestStep
<1> QED
  BY <1>2, <1>3, <1>4, <1>5, <1>6, <1>7, <1>8, <1>9, <1>10 DEF Next

\* What was given to the elements that are counted under a name is the metric
\* the name has.
LEMMA ReportedGiven ==
  ASSUME RunInv, NEW i \in DOMAIN given, prog[i].kind \notin Uncounted,
         given[i].metric # NoMetric, CountName(prog[i]) # Latch
  PROVE  given[i].metric = Exact(opMetrics, cached, CountName(prog[i]))
<1> DEFINE e == prog[i]
<1>1. /\ e \in ElementSet /\ given[i].inst = InstOf(e)
      /\ Metered(haveMetrics, optimizer, e)
  <2>1. GivenTo(prog, given, haveMetrics, optimizer)
    BY DEF RunInv
  <2> QED
    BY <2>1, GivenFacts
<1>2. given[i].inst = InstOf(e)
  BY <1>1
<1>3. e \in ElementSet
  BY <1>1
<1>4. e.kind \in {"copy", "split", "merge", "func"}
  <2>1. e.kind \in Kinds
    BY <1>3, KindFacts
  <2>2. e.kind # "buffer"
    BY <1>3, CountNameFacts
  <2>3. e.kind \notin {"mixer", "arbiter"}
    BY <1>1 DEF Metered
  <2> QED
    BY <2>1, <2>2, <2>3 DEF Kinds, Uncounted
<1>5. CountName(e) = InstOf(e) /\ InstOf(e)[1] \notin Buffers
  BY <1>3, <1>4, CountNameFacts DEF Buffers
<1>6. Agrees(Entries(given), opMetrics, cached) /\ given[i] \in Entries(given)
  BY DEF RunInv, Entries
<1> QED
  BY <1>2, <1>5, <1>6 DEF Agrees

\* The report adds up, whatever the program and the metrics that earlier runs
\* recorded: the total is that of the instances, an instance is counted once for
\* every use and with the metric each of them was given.
THEOREM ReportAgreesAlways ==
  ASSUME AreaIsNumber
  PROVE  Spec => []ReportAgrees
<1>1. ReportInv => ReportAgrees
  <2> SUFFICES ASSUME ReportInv PROVE ReportAgrees
    OBVIOUS
  <2>1. Report(stats, prog, given, opMetrics, cached, haveMetrics, optimizer) /\ RunInv
    BY DEF ReportInv
  <2>2. stats.total = Tally(stats.area)
    BY <2>1 DEF Report
  <2>3. ASSUME NEW inst \in DOMAIN stats.cnt
        PROVE  /\ stats.cnt[inst] = Cardinality(Uses(prog, given, inst))
               /\ \A i \in Uses(prog, given, inst) :
                    (given[i].metric # NoMetric /\ inst # Latch) =>
                      stats.area[inst] = stats.cnt[inst] * AreaOf(given[i].metric)
    <3>1. Reported(stats, prog, given, opMetrics, cached, haveMetrics, optimizer, inst)
      BY <2>1 DEF Report
    <3>2. ASSUME NEW i \in Uses(prog, given, inst), given[i].metric # NoMetric, inst # Latch
          PROVE  stats.area[inst] = stats.cnt[inst] * AreaOf(given[i].metric)
      <4>1. /\ i \in DOMAIN given /\ prog[i].kind \notin Uncounted
            /\ CountName(prog[i]) = inst
        BY DEF Uses
      <4>2. given[i].metric = Exact(opMetrics, cached, inst)
        BY <2>1, <3>2, <4>1, ReportedGiven
      <4> QED
        BY <3>1, <3>2, <4>2 DEF Reported
    <3> QED
      BY <3>1, <3>2 DEF Reported
  <2> QED
    BY <2>2, <2>3 DEF ReportAgrees, Uses, Uncounted
<1>2. ReportInv /\ [Next]_vars => ReportInv'
  BY NextReport
<1> QED
  BY InitReport, <1>1, <1>2, PTL DEF Spec
=============================================================================
