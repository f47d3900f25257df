------------------------- MODULE MetricsStoreProofs -------------------------
(***************************************************************************)
(* What the store keeps, for every set of workloads and units, every       *)
(* program and every number of upgrades.  Three regimes are proved apart:  *)
(*   OneRun                    runs do not overlap, kills anywhere;        *)
(*   OneRun and RemovalSafe    and none while -i is deleting;              *)
(*   ~MayInvalidate            any number of runs at a time, kills         *)
(*                             anywhere, but no -i.                        *)
(***************************************************************************)
EXTENDS MetricsStore, FiniteSetTheorems, TLAPS

OneRun == MaxRunning <= 1
RemovalSafe == MayKill \cap {"rmCache", "rmLocal"} = {}

Writing == {"copying", "optimizing", "fill", "filling", "appendLocal", "appendCache"}
Serving == {"work"} \cup Writing
Cur(w) == Elements(w)[at[w]]

-----------------------------------------------------------------------------
(* Whatever the regime: where a run is says what it knows of its unit.     *)

Placed(w) ==
  /\ step[w] \in Writing => at[w] \in DOMAIN Elements(w)
  /\ step[w] \in {"copying", "optimizing", "fill", "filling"} => Cur(w) \in FU
  /\ step[w] = "copying" => op[w][Cur(w)] = None /\ hit[w][Cur(w)] # None
  /\ step[w] \in {"optimizing", "fill", "filling"} =>
       op[w][Cur(w)] = None /\ hit[w][Cur(w)] = None
  /\ step[w] = "appendLocal" =>
       op[w][Cur(w)] # None \/ (Cur(w) \in FU /\ hit[w][Cur(w)] # None)
  /\ step[w] = "appendCache" => op[w][Cur(w)] # None

PlaceInv == StoreTypeOK /\ \A w \in Workload : Placed(w)

-----------------------------------------------------------------------------
(* One run at a time.                                                      *)

Solo == \A v, w \in Running : v = w

\* What a run has read covers what the files record: its own additions aside,
\* nobody else's.
MemoryCovers(w) ==
  step[w] \in Serving =>
    /\ \A u \in Unit : Recorded(cache, u) => hit[w][u] # None \/ op[w][u] # None
    /\ \A u \in FU : hit[w][u] # None => Recorded(cache, u)
    /\ \A r \in local[w] :
         \/ op[w][r.unit] # None
         \/ /\ r.unit \in FU /\ hit[w][r.unit] # None
            /\ \E i \in DOMAIN Elements(w) : i < at[w] /\ Elements(w)[i] = r.unit

\* A record is written after the netlist it stands for.
NetlistFirst(w) ==
  /\ step[w] = "copying" => netC[Cur(w)] # "none"
  /\ step[w] \in {"fill", "filling"} => netL[w][Cur(w)] = "whole"
  /\ (step[w] = "appendLocal" /\ Cur(w) \in FU) =>
       /\ netL[w][Cur(w)] = "whole"
       /\ op[w][Cur(w)] # None => netC[Cur(w)] = "whole"
  /\ (step[w] = "appendCache" /\ Cur(w) \in FU) => netC[Cur(w)] = "whole"

SoloInv ==
  /\ Solo
  /\ \A w \in Workload : MemoryCovers(w) /\ NetlistFirst(w)
  /\ NeverTorn

-----------------------------------------------------------------------------
(* One run at a time, and -i runs to its end.                              *)

\* The cache holds whole netlists, and values of the last launch's standard
\* metrics.
CacheSound ==
  \A r \in cache : r.val = seen /\ (r.unit \in FU => netC[r.unit] = "whole")

LocalSound(w) ==
  \A r \in local[w] : (r.unit \in FU /\ NamedOnce(w, r.unit)) => netL[w][r.unit] = "whole"

\* What a run derives comes from those standard metrics, too.
DerivesSeen(w) ==
  /\ step[w] \in Serving => base[w] = seen
  /\ (step[w] = "appendLocal" /\ op[w][Cur(w)] # None) => op[w][Cur(w)] = seen
  /\ step[w] = "appendCache" => op[w][Cur(w)] = seen

\* Memory agrees with the local records, which agree with each other (they may
\* be older than the last launch, which can have been another workload's).
LocalAgrees(w) ==
  /\ ~Clash(local[w])
  /\ step[w] \in Serving =>
       \A r \in local[w] :
         op[w][r.unit] = r.val \/ (op[w][r.unit] = None /\ hit[w][r.unit] = r.val)

CompleteInv ==
  /\ Running # {} => std = seen
  /\ (\A w \in Workload : step[w] # "rmCache") => CacheSound
  /\ \A w \in Workload :
       /\ DerivesSeen(w) /\ LocalAgrees(w)
       /\ step[w] # "rmLocal" => LocalSound(w)
  /\ NoFault

-----------------------------------------------------------------------------
(* Any number of runs, but nothing is ever removed.                        *)

\* Every value there is comes from the metrics of the last launch: after an
\* upgrade nothing runs any more.
VersionOf(w) ==
  /\ step[w] \notin {"rmCache", "rmLocal"}
  /\ \A r \in local[w] : r.val = seen
  /\ step[w] \in Serving =>
       /\ base[w] = seen
       /\ \A u \in Unit : op[w][u] \in {None, seen} /\ hit[w][u] \in {None, seen}

LocalThere(w) == \A r \in local[w] : r.unit \in FU => netL[w][r.unit] # "none"
CacheThere == \A r \in cache : r.val = seen /\ (r.unit \in FU => netC[r.unit] # "none")

NetlistThere(w) ==
  /\ step[w] \in Serving => \A u \in FU : hit[w][u] # None => netC[u] # "none"
  /\ step[w] \in {"copying", "optimizing", "fill", "filling"} => netL[w][Cur(w)] # "none"
  /\ step[w] = "filling" => netC[Cur(w)] # "none"
  /\ (step[w] = "appendLocal" /\ Cur(w) \in FU) =>
       /\ netL[w][Cur(w)] # "none"
       /\ op[w][Cur(w)] # None => netC[Cur(w)] # "none"
  /\ (step[w] = "appendCache" /\ Cur(w) \in FU) => netC[Cur(w)] # "none"

GrowingInv ==
  /\ Running # {} => std = seen
  /\ CacheThere /\ NoFault
  /\ \A w \in Workload : VersionOf(w) /\ NetlistThere(w) /\ LocalThere(w)

-----------------------------------------------------------------------------
(* The type invariant.                                                     *)

LEMMA ElementsFacts ==
  ASSUME NEW w \in Workload
  PROVE  /\ DOMAIN Elements(w) = 1 .. Len(Elements(w)) /\ Len(Elements(w)) \in Nat
         /\ \A i \in DOMAIN Elements(w) : Elements(w)[i] \in Unit
         /\ 1 \in 1 .. Len(Elements(w)) + 1
BY StoreAssumption

LEMMA CurIsUnit ==
  ASSUME PlaceInv, NEW w \in Workload, step[w] \in Writing
  PROVE  /\ at[w] \in DOMAIN Elements(w) /\ Cur(w) \in Unit
         /\ step[w] \in {"copying", "optimizing", "fill", "filling"} => Cur(w) \in FU
BY ElementsFacts DEF PlaceInv, Placed, Cur

LEMMA ValueInType ==
  ASSUME NEW rs \in SUBSET Record, NEW u \in Unit
  PROVE  /\ ValueIn(rs, u) \in Nat \cup {None}
         /\ ValueIn(rs, u) # None <=> Recorded(rs, u)
         /\ Recorded(rs, u) => \E r \in rs : r.unit = u /\ ValueIn(rs, u) = r.val
<1>1. CASE Recorded(rs, u)
  <2>1. PICK r \in rs : r.unit = u
    BY <1>1 DEF Recorded
  <2> DEFINE c == CHOOSE s \in rs : s.unit = u
  <2>2. c \in rs /\ c.unit = u
    BY <2>1
  <2>3. ValueIn(rs, u) = c.val /\ c.val \in Nat
    BY <1>1, <2>2 DEF ValueIn, Record
  <2> QED
    BY <1>1, <2>2, <2>3, StoreAssumption
<1>2. CASE ~Recorded(rs, u)
  BY <1>2 DEF ValueIn
<1> QED
  BY <1>1, <1>2

\* A step of a run changes its own place only.
Others(w) ==
  \A v \in Workload \ {w} :
    step'[v] = step[v] /\ at'[v] = at[v] /\ op'[v] = op[v] /\ hit'[v] = hit[v]

LEMMA OthersPlaced ==
  ASSUME PlaceInv, NEW w \in Workload, Others(w), Placed(w)'
  PROVE  \A v \in Workload : Placed(v)'
<1>1. ASSUME NEW v \in Workload \ {w} PROVE Placed(v)'
  BY <1>1 DEF Others, PlaceInv, Placed, Cur
<1> QED
  BY <1>1

LEMMA ServedTypes ==
  ASSUME PlaceInv, NEW w \in Workload, at[w] \in DOMAIN Elements(w), Served(w)
  PROVE  /\ at' \in [Workload -> Nat]
         /\ \A v \in Workload : at'[v] \in 1 .. Len(Elements(v)) + 1
<1>1. at \in [Workload -> Nat]
  BY DEF PlaceInv, StoreTypeOK
<1>2. at' \in [Workload -> Nat]
  BY <1>1 DEF Served
<1>3. ASSUME NEW v \in Workload PROVE at'[v] \in 1 .. Len(Elements(v)) + 1
  <2>1. DOMAIN Elements(v) = 1 .. Len(Elements(v)) /\ Len(Elements(v)) \in Nat
    BY ElementsFacts
  <2>2. at[v] \in 1 .. Len(Elements(v)) + 1
    BY DEF PlaceInv, StoreTypeOK
  <2>3. CASE v = w
    <3>1. at'[v] = at[v] + 1 /\ at[v] \in 1 .. Len(Elements(v))
      BY <1>1, <2>1, <2>3 DEF Served
    <3> QED
      BY <2>1, <3>1
  <2>4. CASE v # w
    BY <1>1, <2>2, <2>4 DEF Served
  <2> QED
    BY <2>3, <2>4
<1> QED
  BY <1>2, <1>3

LEMMA ForgetTypes ==
  ASSUME PlaceInv, NEW w \in Workload, Forget(w)
  PROVE  /\ step' \in [Workload -> Steps] /\ at' \in [Workload -> Nat]
         /\ \A v \in Workload : at'[v] \in 1 .. Len(Elements(v)) + 1
         /\ op' \in [Workload -> Memo] /\ hit' \in [Workload -> Memo]
         /\ base' \in [Workload -> Nat]
         /\ \A v \in Workload : Placed(v)'
<1> USE DEF PlaceInv, StoreTypeOK
<1>1. Blank \in Memo
  BY DEF Blank, Memo
<1>2. op' \in [Workload -> Memo] /\ hit' \in [Workload -> Memo]
  BY <1>1 DEF Forget
<1>3. step' \in [Workload -> Steps] /\ at' \in [Workload -> Nat] /\ base' \in [Workload -> Nat]
  BY DEF Forget, To, Steps
<1>4. \A v \in Workload : at'[v] \in 1 .. Len(Elements(v)) + 1
  <2>1. ASSUME NEW v \in Workload PROVE at'[v] \in 1 .. Len(Elements(v)) + 1
    <3>2. at'[v] = at[v] \/ at'[v] = 1
      BY DEF Forget
    <3>3. at[v] \in 1 .. Len(Elements(v)) + 1
      OBVIOUS
    <3>4. 1 \in 1 .. Len(Elements(v)) + 1
      BY ElementsFacts
    <3> QED
      BY <3>2, <3>3, <3>4
  <2> QED
    BY <2>1
<1>5. Placed(w)' /\ Others(w)
  BY DEF Forget, To, Placed, Others, Writing
<1> QED
  BY <1>2, <1>3, <1>4, <1>5, OthersPlaced

LEMMA PlaceInit == Init => PlaceInv
<1> SUFFICES ASSUME Init PROVE PlaceInv
  OBVIOUS
<1>1. Blank \in Memo
  BY DEF Blank, Memo
<1>2. StoreTypeOK
  BY <1>1, ElementsFacts DEF Init, StoreTypeOK, Steps, Files, NetFile
<1>3. \A w \in Workload : Placed(w)
  BY DEF Init, Placed, Writing
<1> QED
  BY <1>2, <1>3 DEF PlaceInv

LEMMA PlaceQuiet ==
  ASSUME PlaceInv, NEW w \in Workload,
         Launch(w) \/ RemoveCache(w) \/ RemoveLocal(w) \/ ReadClash(w) \/ FetchFails(w)
           \/ Finish(w) \/ Kill(w)
  PROVE  PlaceInv'
<1> USE DEF PlaceInv
<1>1. CASE Launch(w)
  <2>1. StoreTypeOK'
    BY <1>1 DEF Launch, StoreTypeOK, To, memory, Steps
  <2>2. Placed(w)' /\ Others(w)
    BY <1>1 DEF Launch, StoreTypeOK, To, memory, Placed, Others, Writing
  <2> QED
    BY <2>1, <2>2, OthersPlaced
<1>2. CASE RemoveCache(w)
  <2>1. StoreTypeOK'
    BY <1>2 DEF RemoveCache, StoreTypeOK, To, memory, Steps, Files, NetFile
  <2>2. Placed(w)' /\ Others(w)
    BY <1>2 DEF RemoveCache, StoreTypeOK, To, memory, Placed, Others, Writing
  <2> QED
    BY <2>1, <2>2, OthersPlaced
<1>3. CASE RemoveLocal(w)
  <2>1. StoreTypeOK'
    <3>1. local' \in [Workload -> SUBSET Record]
      BY <1>3 DEF RemoveLocal, StoreTypeOK
    <3>2. netL' \in [Workload -> Files]
      <4>1. netL \in [Workload -> Files]
        BY DEF StoreTypeOK
      <4>2. CASE UNCHANGED netL
        BY <4>1, <4>2
      <4>3. CASE \E u \in FU : netL' = [netL EXCEPT ![w][u] = "none"]
        BY <4>1, <4>3 DEF Files, NetFile
      <4> QED
        BY <1>3, <4>2, <4>3 DEF RemoveLocal
    <3>3. step' \in [Workload -> Steps]
      BY <1>3 DEF RemoveLocal, StoreTypeOK, To, Steps
    <3> QED
      BY <1>3, <3>1, <3>2, <3>3 DEF RemoveLocal, StoreTypeOK, memory
  <2>2. Placed(w)' /\ Others(w)
    BY <1>3 DEF RemoveLocal, StoreTypeOK, To, memory, Placed, Others, Writing
  <2> QED
    BY <2>1, <2>2, OthersPlaced
<1>4. CASE ReadClash(w) \/ FetchFails(w) \/ Finish(w) \/ Kill(w)
  <2>1. Forget(w)
    BY <1>4 DEF ReadClash, FetchFails, Finish, Kill, GiveUp
  <2>2. /\ UNCHANGED <<std, seen, local, cache, netL, netC>>
        /\ fault' \in {fault, "different record", "no cached netlist"}
    BY <1>4 DEF ReadClash, FetchFails, Finish, Kill, GiveUp
  <2> QED
    BY <2>1, <2>2, ForgetTypes DEF StoreTypeOK
<1> QED
  BY <1>1, <1>2, <1>3, <1>4

LEMMA PlaceRead ==
  ASSUME PlaceInv, NEW w \in Workload, ReadMetrics(w)
  PROVE  PlaceInv'
<1> USE DEF PlaceInv, StoreTypeOK
<1>1. [u \in Unit |-> ValueIn(local[w], u)] \in Memo /\ [u \in Unit |-> ValueIn(cache, u)] \in Memo
  BY ValueInType DEF Memo
<1>2. op' \in [Workload -> Memo] /\ hit' \in [Workload -> Memo]
  BY <1>1 DEF ReadMetrics
<1>3. StoreTypeOK'
  BY <1>2 DEF ReadMetrics, To, Steps
<1>4. Placed(w)' /\ Others(w)
  BY DEF ReadMetrics, To, Placed, Others, Writing
<1> QED
  BY <1>3, <1>4, OthersPlaced

LEMMA PlaceServe ==
  ASSUME PlaceInv, NEW w \in Workload,
         Known(w) \/ Derive(w) \/ Fetch(w) \/ Optimize(w)
  PROVE  PlaceInv'
<1> USE DEF PlaceInv
<1>1. CASE Known(w)
  <2>1. StoreTypeOK'
    <3>1. at[w] \in DOMAIN Elements(w) /\ Served(w)
      BY <1>1 DEF Known, Wants
    <3> QED
      BY <1>1, <3>1, ServedTypes DEF Known, StoreTypeOK
  <2>2. Placed(w)' /\ Others(w)
    BY <1>1 DEF Known, Served, Wants, StoreTypeOK, Placed, Others, Writing
  <2> QED
    BY <2>1, <2>2, OthersPlaced
<1>2. CASE Derive(w)
  <2>1. PICK u \in Copy : /\ Wants(w, u) /\ op[w][u] = None
                          /\ op' = [op EXCEPT ![w][u] = base[w]]
    BY <1>2 DEF Derive
  <2>2. u \in Unit /\ base[w] \in Nat
    BY DEF Unit, StoreTypeOK
  <2>3. op' \in [Workload -> Memo]
    BY <2>1, <2>2 DEF StoreTypeOK, Memo
  <2>4. StoreTypeOK'
    BY <1>2, <2>3 DEF Derive, StoreTypeOK, To, Steps
  <2>5. op'[w][u] = base[w] /\ base[w] # None
    BY <2>1, <2>2, StoreAssumption DEF StoreTypeOK, Memo
  <2>6. Placed(w)' /\ Others(w)
    BY <1>2, <2>1, <2>5 DEF Derive, Wants, StoreTypeOK, To, Placed, Others, Writing, Cur
  <2> QED
    BY <2>4, <2>6, OthersPlaced
<1>3. CASE Fetch(w)
  <2>1. PICK u \in FU : /\ Wants(w, u) /\ op[w][u] = None /\ hit[w][u] # None
                        /\ netL' = [netL EXCEPT ![w][u] = "torn"]
    BY <1>3 DEF Fetch
  <2>2. StoreTypeOK'
    BY <1>3, <2>1 DEF Fetch, StoreTypeOK, To, memory, Steps, Files, NetFile
  <2>3. Placed(w)' /\ Others(w)
    BY <1>3, <2>1 DEF Fetch, Wants, StoreTypeOK, To, memory, Placed, Others, Writing, Cur
  <2> QED
    BY <2>2, <2>3, OthersPlaced
<1>4. CASE Optimize(w)
  <2>1. PICK u \in FU : /\ Wants(w, u) /\ op[w][u] = None /\ hit[w][u] = None
                        /\ netL' = [netL EXCEPT ![w][u] = "torn"]
    BY <1>4 DEF Optimize
  <2>2. StoreTypeOK'
    BY <1>4, <2>1 DEF Optimize, StoreTypeOK, To, memory, Steps, Files, NetFile
  <2>3. Placed(w)' /\ Others(w)
    BY <1>4, <2>1 DEF Optimize, Wants, StoreTypeOK, To, memory, Placed, Others, Writing, Cur
  <2> QED
    BY <2>2, <2>3, OthersPlaced
<1> QED
  BY <1>1, <1>2, <1>3, <1>4

LEMMA PlaceWrite ==
  ASSUME PlaceInv, NEW w \in Workload,
         Fetched(w) \/ Optimized(w) \/ Fill(w) \/ Filled(w) \/ AppendLocal(w) \/ AppendCache(w)
  PROVE  PlaceInv'
<1> USE DEF PlaceInv
<1>0. step[w] \in Writing /\ Cur(w) \in Unit /\ at[w] \in DOMAIN Elements(w)
  BY CurIsUnit DEF Fetched, Optimized, Fill, Filled, AppendLocal, AppendCache, Writing
<1>1. CASE Fetched(w)
  <2>1. StoreTypeOK'
    <3>1. PICK f \in NetFile : netL' = [netL EXCEPT ![w][Cur(w)] = f]
      BY <1>0, <1>1, CurIsUnit DEF Fetched, StoreTypeOK, Files, NetFile, Cur
    <3>2. netL' \in [Workload -> Files]
      BY <3>1 DEF StoreTypeOK, Files
    <3>3. step' \in [Workload -> Steps]
      BY <1>1 DEF Fetched, StoreTypeOK, To, Steps
    <3> QED
      BY <1>1, <3>2, <3>3 DEF Fetched, StoreTypeOK, memory
  <2>2. Placed(w)' /\ Others(w)
    BY <1>0, <1>1 DEF Fetched, StoreTypeOK, To, memory, Placed, Others, Writing, Cur
  <2> QED
    BY <2>1, <2>2, OthersPlaced
<1>2. CASE Optimized(w)
  <2>1. StoreTypeOK'
    BY <1>2 DEF Optimized, StoreTypeOK, To, memory, Steps, Files, NetFile
  <2>2. Placed(w)' /\ Others(w)
    BY <1>0, <1>2 DEF Optimized, StoreTypeOK, To, memory, Placed, Others, Writing, Cur
  <2> QED
    BY <2>1, <2>2, OthersPlaced
<1>3. CASE Fill(w)
  <2>1. StoreTypeOK'
    BY <1>3 DEF Fill, StoreTypeOK, To, memory, Steps, Files, NetFile
  <2>2. Placed(w)' /\ Others(w)
    BY <1>0, <1>3 DEF Fill, StoreTypeOK, To, memory, Placed, Others, Writing, Cur
  <2> QED
    BY <2>1, <2>2, OthersPlaced
<1>4. CASE Filled(w)
  <2>1. op' \in [Workload -> Memo] /\ op'[w][Cur(w)] = base[w] /\ base[w] # None
    BY <1>0, <1>4, StoreAssumption DEF Filled, StoreTypeOK, Memo, Cur
  <2>2. StoreTypeOK'
    BY <1>4, <2>1 DEF Filled, StoreTypeOK, To, Steps, Files, NetFile
  <2>3. Placed(w)' /\ Others(w)
    BY <1>0, <1>4, <2>1 DEF Filled, StoreTypeOK, To, Placed, Others, Writing, Cur
  <2> QED
    BY <2>2, <2>3, OthersPlaced
<1>5. CASE AppendLocal(w)
  <2> DEFINE r == [unit |-> Cur(w), val |-> IF op[w][Cur(w)] = None THEN hit[w][Cur(w)] ELSE op[w][Cur(w)]]
  <2>1. r \in Record
    <3>1. op[w][Cur(w)] \in Nat \cup {None} /\ hit[w][Cur(w)] \in Nat \cup {None}
      <4>1. op[w] \in Memo /\ hit[w] \in Memo
        BY DEF StoreTypeOK
      <4> QED
        BY ONLY <1>0, <4>1 DEF Memo
    <3>2. op[w][Cur(w)] # None \/ hit[w][Cur(w)] # None
      BY <1>5 DEF AppendLocal, Placed
    <3> QED
      BY <1>0, <3>1, <3>2 DEF Record
  <2>2. local' = [local EXCEPT ![w] = @ \cup {r}]
    BY <1>5 DEF AppendLocal, Cur
  <2> HIDE DEF r
  <2>3. local' \in [Workload -> SUBSET Record]
    BY <2>1, <2>2 DEF StoreTypeOK
  <2>4. StoreTypeOK'
    <3>1. step' \in [Workload -> Steps]
      BY <1>5 DEF AppendLocal, StoreTypeOK, To, Steps
    <3>2. /\ at' \in [Workload -> Nat]
          /\ \A v \in Workload : at'[v] \in 1 .. Len(Elements(v)) + 1
      BY <1>0, <1>5, ServedTypes DEF AppendLocal, StoreTypeOK
    <3> QED
      BY <1>5, <2>3, <3>1, <3>2 DEF AppendLocal, StoreTypeOK
  <2>5. Placed(w)' /\ Others(w)
    BY <1>0, <1>5 DEF AppendLocal, StoreTypeOK, To, Served, Placed, Others, Writing, Cur
  <2> QED
    BY <2>4, <2>5, OthersPlaced
<1>6. CASE AppendCache(w)
  <2>1. [unit |-> Cur(w), val |-> op[w][Cur(w)]] \in Record
    <3>1. op[w][Cur(w)] \in Nat \cup {None}
      <4>1. op[w] \in Memo
        BY DEF StoreTypeOK
      <4> QED
        BY <1>0, <4>1 DEF Memo
    <3>2. op[w][Cur(w)] # None
      BY <1>6 DEF AppendCache, Placed
    <3> QED
      BY <1>0, <3>1, <3>2 DEF Record
  <2>2. StoreTypeOK'
    <3>1. cache' = cache \cup {[unit |-> Cur(w), val |-> op[w][Cur(w)]]}
      BY <1>6 DEF AppendCache, Cur
    <3>2. step' \in [Workload -> Steps]
      BY <1>6 DEF AppendCache, StoreTypeOK, To, Steps
    <3>3. /\ at' \in [Workload -> Nat]
          /\ \A v \in Workload : at'[v] \in 1 .. Len(Elements(v)) + 1
      BY <1>0, <1>6, ServedTypes DEF AppendCache
    <3> QED
      BY <1>6, <2>1, <3>1, <3>2, <3>3 DEF AppendCache, StoreTypeOK
  <2>3. Placed(w)' /\ Others(w)
    BY <1>6 DEF AppendCache, StoreTypeOK, To, Served, Placed, Others, Writing
  <2> QED
    BY <2>2, <2>3, OthersPlaced
<1> QED
  BY <1>1, <1>2, <1>3, <1>4, <1>5, <1>6

LEMMA PlaceStep == PlaceInv /\ [Next]_vars => PlaceInv'
<1> SUFFICES ASSUME PlaceInv, [Next]_vars PROVE PlaceInv'
  OBVIOUS
<1>1. CASE Upgrade
  <2>1. std' \in Nat
    <3>1. std \in Nat
      BY DEF PlaceInv, StoreTypeOK
    <3> QED
      BY <1>1, <3>1 DEF Upgrade
  <2>2. StoreTypeOK'
    BY <1>1, <2>1 DEF Upgrade, memory, PlaceInv, StoreTypeOK
  <2>3. \A w \in Workload : Placed(w)'
    BY <1>1 DEF Upgrade, memory, PlaceInv, Placed, Cur
  <2> QED
    BY <2>2, <2>3 DEF PlaceInv
<1>2. CASE UNCHANGED vars
  BY <1>2 DEF vars, memory, PlaceInv, StoreTypeOK, Placed, Cur
<1> QED
  BY <1>1, <1>2, PlaceQuiet, PlaceRead, PlaceServe, PlaceWrite DEF Next

\* Whatever runs are launched, killed or overlap, the files hold records of
\* natural numbers and a run is at a unit of its program or past the last.
THEOREM StoreTyped == Spec => []StoreTypeOK
<1>1. PlaceInv => StoreTypeOK
  BY DEF PlaceInv
<1> QED
  BY <1>1, PlaceInit, PlaceStep, PTL DEF Spec

-----------------------------------------------------------------------------
(* One run at a time.                                                      *)

LEMMA RunningAlone ==
  ASSUME Solo, NEW w \in Workload, step[w] # "off"
  PROVE  Running = {w} /\ \A v \in Workload \ {w} : step[v] = "off"
BY DEF Solo, Running

LEMMA LaunchAlone ==
  ASSUME OneRun, Solo, NEW w \in Workload, Launch(w)
  PROVE  \A v \in Workload : step[v] = "off"
<1>1. ASSUME NEW v \in Workload, step[v] # "off" PROVE FALSE
  <2>1. Running = {v}
    BY <1>1, RunningAlone
  <2>2. Cardinality(Running) = 1
    BY <2>1, FS_Singleton
  <2>3. MaxRunning \in Nat /\ Cardinality(Running) < MaxRunning
    BY StoreAssumption DEF Launch
  <2> QED
    BY <2>2, <2>3 DEF OneRun
<1> QED
  BY <1>1

LEMMA SoloFrame ==
  ASSUME NEW w \in Workload, \A v \in Workload \ {w} : step'[v] = "off",
         MemoryCovers(w)', NetlistFirst(w)', NeverTorn'
  PROVE  SoloInv'
<1>1. Solo'
  BY DEF Solo, Running
<1>2. ASSUME NEW v \in Workload PROVE MemoryCovers(v)' /\ NetlistFirst(v)'
  <2>1. CASE v = w
    BY <2>1
  <2>2. CASE v # w
    BY <2>2 DEF MemoryCovers, NetlistFirst, Serving, Writing
  <2> QED
    BY <2>1, <2>2
<1> QED
  BY <1>1, <1>2 DEF SoloInv

\* Steps after which no unit is being served.
LEMMA SoloIdle ==
  ASSUME NEW w \in Workload, \A v \in Workload \ {w} : step'[v] = "off",
         step'[w] \in {"off", "rmCache", "rmLocal", "read"}, NeverTorn'
  PROVE  SoloInv'
<1>1. MemoryCovers(w)' /\ NetlistFirst(w)'
  BY DEF MemoryCovers, NetlistFirst, Serving, Writing
<1> QED
  BY <1>1, SoloFrame

LEMMA SoloQuiet ==
  ASSUME OneRun, PlaceInv, SoloInv, NEW w \in Workload,
         Launch(w) \/ RemoveCache(w) \/ RemoveLocal(w) \/ ReadClash(w) \/ FetchFails(w)
           \/ Finish(w) \/ Kill(w)
  PROVE  SoloInv'
<1> USE DEF PlaceInv, SoloInv
<1>0. step \in [Workload -> Steps] /\ local \in [Workload -> SUBSET Record]
      /\ netL \in [Workload -> Files] /\ netC \in Files
  BY DEF StoreTypeOK
<1> HIDE DEF PlaceInv
<1>1. \A v \in Workload \ {w} : step[v] = "off"
  <2>1. CASE Launch(w)
    BY <2>1, LaunchAlone
  <2>2. CASE step[w] # "off"
    BY <2>2, RunningAlone
  <2>3. Launch(w) \/ step[w] # "off"
    BY DEF RemoveCache, RemoveLocal, ReadClash, FetchFails, Finish, Kill, Wants
  <2> QED
    BY <2>1, <2>2, <2>3
<1>2. CASE Launch(w)
  <2>1. step'[w] \in {"rmCache", "read"} /\ \A v \in Workload \ {w} : step'[v] = "off"
    BY <1>0, <1>1, <1>2 DEF Launch, To
  <2>2. NeverTorn'
    BY <1>2 DEF Launch, NeverTorn
  <2> QED
    BY <2>1, <2>2, SoloIdle
<1>3. CASE RemoveCache(w)
  <2>1. step'[w] \in {"rmCache", "rmLocal"} /\ \A v \in Workload \ {w} : step'[v] = "off"
    BY <1>0, <1>1, <1>3 DEF RemoveCache, To
  <2>2. NeverTorn'
    BY <1>0, <1>3 DEF RemoveCache, NeverTorn, Files
  <2> QED
    BY <2>1, <2>2, SoloIdle
<1>4. CASE RemoveLocal(w)
  <2>1. step'[w] \in {"rmLocal", "read"} /\ \A v \in Workload \ {w} : step'[v] = "off"
    BY <1>0, <1>1, <1>4 DEF RemoveLocal, To
  <2>2. \A v \in Workload : /\ local'[v] \subseteq local[v]
                            /\ \A u \in FU : netL'[v][u] \in {netL[v][u], "none"}
    BY <1>0, <1>4 DEF RemoveLocal, Files
  <2>3. cache' = cache /\ netC' = netC
    BY <1>4 DEF RemoveLocal
  <2>4. NeverTorn'
    BY <2>2, <2>3 DEF NeverTorn, NamedOnce
  <2> QED
    BY <2>1, <2>4, SoloIdle
<1>5. CASE ReadClash(w) \/ FetchFails(w) \/ Finish(w) \/ Kill(w)
  <2>1. Forget(w) /\ UNCHANGED <<local, cache, netL, netC>>
    BY <1>5 DEF ReadClash, FetchFails, Finish, Kill, GiveUp
  <2>2. step'[w] = "off" /\ \A v \in Workload \ {w} : step'[v] = "off"
    BY <1>0, <1>1, <2>1 DEF Forget, To
  <2>3. NeverTorn'
    BY <2>1 DEF NeverTorn
  <2> QED
    BY <2>2, <2>3, SoloIdle
<1> QED
  BY <1>2, <1>3, <1>4, <1>5

LEMMA SoloRead ==
  ASSUME PlaceInv, SoloInv, NEW w \in Workload, ReadMetrics(w)
  PROVE  SoloInv'
<1> USE DEF SoloInv
<1>0. step \in [Workload -> Steps] /\ op \in [Workload -> Memo] /\ hit \in [Workload -> Memo]
      /\ local[w] \in SUBSET Record /\ cache \in SUBSET Record
  BY DEF PlaceInv, StoreTypeOK
<1>1. \A v \in Workload \ {w} : step'[v] = "off"
  BY <1>0, RunningAlone DEF ReadMetrics, To
<1>2. step'[w] = "work" /\ cache' = cache /\ local' = local
  BY <1>0 DEF ReadMetrics, To
<1>3. /\ op'[w] = [u \in Unit |-> ValueIn(local[w], u)]
      /\ hit'[w] = [u \in Unit |-> ValueIn(cache, u)]
  BY <1>0 DEF ReadMetrics
<1>4. \A u \in Unit : Recorded(cache, u) <=> hit'[w][u] # None
  BY <1>0, <1>3, ValueInType
<1>5. \A r \in local[w] : op'[w][r.unit] # None
  <2>1. ASSUME NEW r \in local[w] PROVE op'[w][r.unit] # None
    <3>1. r.unit \in Unit /\ Recorded(local[w], r.unit)
      BY <1>0 DEF Record, Recorded
    <3> QED
      BY <1>0, <1>3, <3>1, ValueInType
  <2> QED
    BY <2>1
<1>6. MemoryCovers(w)'
  BY <1>2, <1>4, <1>5 DEF MemoryCovers, Unit, Recorded
<1>7. NetlistFirst(w)'
  BY <1>2 DEF NetlistFirst
<1>8. NeverTorn'
  BY DEF ReadMetrics, NeverTorn
<1> QED
  BY <1>1, <1>6, <1>7, <1>8, SoloFrame

\* A unit that has a record and is still rewritten is one named twice.
LEMMA RewriteTwice ==
  ASSUME PlaceInv, SoloInv, NEW w \in Workload, NEW u \in FU, Wants(w, u), op[w][u] = None,
         NEW r \in local[w], r.unit = u
  PROVE  ~NamedOnce(w, u)
<1>1. PICK i \in DOMAIN Elements(w) : i < at[w] /\ Elements(w)[i] = u
  BY DEF SoloInv, MemoryCovers, Serving, Wants
<1>2. at[w] \in DOMAIN Elements(w) /\ Elements(w)[at[w]] = u
  BY DEF Wants
<1>3. i # at[w]
  BY <1>1, <1>2, ElementsFacts
<1> QED
  BY <1>1, <1>2, <1>3 DEF NamedOnce

LEMMA SoloServe ==
  ASSUME PlaceInv, SoloInv, NEW w \in Workload,
         Known(w) \/ Derive(w) \/ Fetch(w) \/ Optimize(w)
  PROVE  SoloInv'
<1>0. /\ step \in [Workload -> Steps] /\ at \in [Workload -> Nat]
      /\ op \in [Workload -> Memo] /\ hit \in [Workload -> Memo]
      /\ netL \in [Workload -> Files] /\ base[w] \in Nat
      /\ local[w] \in SUBSET Record /\ cache \in SUBSET Record
  BY DEF PlaceInv, StoreTypeOK
<1>1. step[w] = "work"
  BY DEF Known, Derive, Fetch, Optimize, Wants
<1>2. \A v \in Workload \ {w} : step'[v] = "off"
  BY <1>0, <1>1, RunningAlone DEF SoloInv, Known, Derive, Fetch, Optimize, To
<1>3. /\ \A u \in Unit : Recorded(cache, u) => hit[w][u] # None \/ op[w][u] # None
      /\ \A u \in FU : hit[w][u] # None => Recorded(cache, u)
      /\ \A r \in local[w] :
           \/ op[w][r.unit] # None
           \/ /\ r.unit \in FU /\ hit[w][r.unit] # None
              /\ \E i \in DOMAIN Elements(w) : i < at[w] /\ Elements(w)[i] = r.unit
  BY <1>1 DEF SoloInv, MemoryCovers, Serving
<1>4. UNCHANGED <<local, cache, netC, hit>>
  BY DEF Known, Derive, Fetch, Optimize, memory
<1>5. CASE Known(w)
  <2>1. step'[w] = "work" /\ at'[w] = at[w] + 1 /\ op' = op /\ netL' = netL
    BY <1>0, <1>1, <1>5 DEF Known, Served
  <2>2. \A i \in DOMAIN Elements(w) : i < at[w] => i < at'[w]
    BY <1>0, <2>1, ElementsFacts
  <2>3. MemoryCovers(w)'
    BY <1>3, <1>4, <2>1, <2>2 DEF MemoryCovers, Recorded
  <2>4. NetlistFirst(w)' /\ NeverTorn'
    BY <1>4, <2>1 DEF NetlistFirst, NeverTorn, SoloInv
  <2> QED
    BY <1>2, <2>3, <2>4, SoloFrame
<1>6. CASE Derive(w)
  <2>1. PICK u \in Copy : Wants(w, u) /\ op' = [op EXCEPT ![w][u] = base[w]]
    BY <1>6 DEF Derive
  <2>2. step'[w] = "appendLocal" /\ at' = at /\ netL' = netL
    BY <1>0, <1>6 DEF Derive, To
  <2>3. \A v \in Unit : op[w][v] # None => op'[w][v] # None
    BY <1>0, <2>1, StoreAssumption DEF Memo
  <2>4. \A r \in local[w] : r.unit \in Unit
    BY <1>0 DEF Record
  <2>5. MemoryCovers(w)'
    BY <1>3, <1>4, <2>2, <2>3, <2>4 DEF MemoryCovers, Recorded
  <2>6. Cur(w)' = u /\ u \notin FU
    BY <2>1, <2>2, StoreAssumption DEF Cur, Wants
  <2>7. NetlistFirst(w)'
    BY <2>2, <2>6 DEF NetlistFirst
  <2>8. NeverTorn'
    BY <1>4, <2>2 DEF NeverTorn, SoloInv
  <2> QED
    BY <1>2, <2>5, <2>7, <2>8, SoloFrame
<1>7. CASE Fetch(w) \/ Optimize(w)
  <2>1. PICK u \in FU : /\ Wants(w, u) /\ op[w][u] = None
                        /\ netL' = [netL EXCEPT ![w][u] = "torn"]
                        /\ Fetch(w) => netC[u] # "none"
    BY <1>7 DEF Fetch, Optimize
  <2>2. step'[w] \in {"copying", "optimizing"} /\ at' = at /\ op' = op
    BY <1>0, <1>7 DEF Fetch, Optimize, To, memory
  <2>3. step'[w] = "copying" => netC[u] # "none"
    BY <1>0, <1>7, <2>1 DEF Optimize, To
  <2>4. Cur(w)' = u
    BY <2>1, <2>2 DEF Cur, Wants
  <2>5. MemoryCovers(w)'
    BY <1>1, <1>3, <1>4, <2>2 DEF MemoryCovers, Recorded
  <2>6. NetlistFirst(w)'
    BY <1>4, <2>2, <2>3, <2>4 DEF NetlistFirst
  <2>7. \A r \in local[w] : r.unit = u => ~NamedOnce(w, u)
    BY <2>1, RewriteTwice
  <2>8. \A v \in Workload, x \in FU : v # w \/ x # u => netL'[v][x] = netL[v][x]
    BY <1>0, <2>1 DEF Files
  <2>9. NeverTorn'
    BY <1>4, <2>7, <2>8 DEF NeverTorn, SoloInv
  <2> QED
    BY <1>2, <2>5, <2>6, <2>9, SoloFrame
<1> QED
  BY <1>5, <1>6, <1>7

LEMMA SoloWrite ==
  ASSUME PlaceInv, SoloInv, NEW w \in Workload,
         Fetched(w) \/ Optimized(w) \/ Fill(w) \/ Filled(w) \/ AppendLocal(w) \/ AppendCache(w)
  PROVE  SoloInv'
<1> DEFINE u == Cur(w)
<1>0. /\ step \in [Workload -> Steps] /\ at \in [Workload -> Nat]
      /\ op \in [Workload -> Memo] /\ hit \in [Workload -> Memo]
      /\ netL \in [Workload -> Files] /\ netC \in Files /\ base[w] \in Nat
      /\ local \in [Workload -> SUBSET Record] /\ cache \in SUBSET Record
  BY DEF PlaceInv, StoreTypeOK
<1>1. /\ step[w] \in Writing /\ at[w] \in DOMAIN Elements(w) /\ u \in Unit
      /\ step[w] \in {"copying", "optimizing", "fill", "filling"} => u \in FU
  BY CurIsUnit DEF Fetched, Optimized, Fill, Filled, AppendLocal, AppendCache, Writing
<1>2. Running = {w} /\ \A v \in Workload \ {w} : step[v] = "off"
  BY <1>1, RunningAlone DEF SoloInv, Writing
<1>3. \A v \in Workload \ {w} : step'[v] = "off"
  BY <1>0, <1>2 DEF Fetched, Optimized, Fill, Filled, AppendLocal, AppendCache, To
<1>4. /\ \A v \in Unit : Recorded(cache, v) => hit[w][v] # None \/ op[w][v] # None
      /\ \A v \in FU : hit[w][v] # None => Recorded(cache, v)
      /\ \A r \in local[w] :
           \/ op[w][r.unit] # None
           \/ /\ r.unit \in FU /\ hit[w][r.unit] # None
              /\ \E i \in DOMAIN Elements(w) : i < at[w] /\ Elements(w)[i] = r.unit
  BY <1>1 DEF SoloInv, MemoryCovers, Serving
<1>5. Placed(w) /\ NetlistFirst(w) /\ NeverTorn
  BY DEF PlaceInv, SoloInv
<1>6. \A r \in local[w] : r.unit \in Unit
  BY <1>0 DEF Record
<1> HIDE DEF u
<1>7. CASE Fetched(w)
  <2>1. /\ step'[w] = "appendLocal" /\ step[w] = "copying"
        /\ UNCHANGED <<local, cache, netC, at, op, hit>>
    BY <1>0, <1>7 DEF Fetched, To, memory
  <2>2. Recorded(cache, u) /\ u \in FU /\ netC[u] # "none" /\ op[w][u] = None
    BY <1>1, <1>4, <1>5, <2>1 DEF Placed, NetlistFirst, u
  <2>3. netC[u] = "whole"
    BY <1>0, <1>5, <2>2 DEF NeverTorn, Recorded, Files, NetFile
  <2>4. netL' = [netL EXCEPT ![w][u] = netC[u]]
    BY <1>2, <1>7 DEF Fetched, u, Cur
  <2>5. Cur(w)' = u
    BY <2>1 DEF Cur, u
  <2>6. MemoryCovers(w)'
    BY <1>4, <2>1 DEF MemoryCovers, Recorded
  <2>7. netL'[w][u] = "whole" /\ \A v \in Workload, x \in FU : netL'[v][x] \in {netL[v][x], "whole"}
    BY <1>0, <2>2, <2>3, <2>4 DEF Files
  <2>8. NetlistFirst(w)'
    BY <2>1, <2>2, <2>5, <2>7 DEF NetlistFirst
  <2>9. NeverTorn'
    BY <1>5, <2>1, <2>7 DEF NeverTorn
  <2> QED
    BY <1>3, <2>6, <2>8, <2>9, SoloFrame
<1>8. CASE Optimized(w)
  <2>1. /\ step'[w] = "fill" /\ step[w] = "optimizing"
        /\ UNCHANGED <<local, cache, netC, at, op, hit>>
    BY <1>0, <1>8 DEF Optimized, To, memory
  <2>2. netL' = [netL EXCEPT ![w][u] = "whole"] /\ u \in FU
    BY <1>1, <1>8, <2>1 DEF Optimized, u, Cur
  <2>3. Cur(w)' = u
    BY <2>1 DEF Cur, u
  <2>4. netL'[w][u] = "whole" /\ \A v \in Workload, x \in FU : netL'[v][x] \in {netL[v][x], "whole"}
    BY <1>0, <2>2 DEF Files
  <2>5. MemoryCovers(w)'
    BY <1>4, <2>1 DEF MemoryCovers, Recorded
  <2>6. NetlistFirst(w)'
    BY <2>1, <2>3, <2>4 DEF NetlistFirst
  <2>7. NeverTorn'
    BY <1>5, <2>1, <2>4 DEF NeverTorn
  <2> QED
    BY <1>3, <2>5, <2>6, <2>7, SoloFrame
<1>9. CASE Fill(w)
  <2>1. /\ step'[w] = "filling" /\ step[w] = "fill"
        /\ UNCHANGED <<local, cache, netL, at, op, hit>>
    BY <1>0, <1>9 DEF Fill, To, memory
  <2>2. netC' = [netC EXCEPT ![u] = "torn"] /\ u \in FU
    BY <1>1, <1>9, <2>1 DEF Fill, u, Cur
  <2>3. Cur(w)' = u
    BY <2>1 DEF Cur, u
  <2>4. ~Recorded(cache, u)
    BY <1>1, <1>4, <1>5, <2>1 DEF Placed, u
  <2>5. MemoryCovers(w)'
    BY <1>4, <2>1 DEF MemoryCovers, Recorded
  <2>6. NetlistFirst(w)'
    BY <1>5, <2>1, <2>3 DEF NetlistFirst, u
  <2>7. NeverTorn'
    BY <1>0, <1>5, <2>1, <2>2, <2>4 DEF NeverTorn, Recorded, Files
  <2> QED
    BY <1>3, <2>5, <2>6, <2>7, SoloFrame
<1>10. CASE Filled(w)
  <2>1. /\ step'[w] = "appendLocal" /\ step[w] = "filling"
        /\ UNCHANGED <<local, cache, netL, at, hit>>
    BY <1>0, <1>10 DEF Filled, To
  <2>2. /\ netC' = [netC EXCEPT ![u] = "whole"] /\ u \in FU
        /\ op' = [op EXCEPT ![w][u] = base[w]]
    BY <1>1, <1>10, <2>1 DEF Filled, u, Cur
  <2>3. Cur(w)' = u
    BY <2>1 DEF Cur, u
  <2>4. \A v \in Unit : op[w][v] # None => op'[w][v] # None
    BY <1>0, <2>2, StoreAssumption DEF Memo
  <2>5. MemoryCovers(w)'
    BY <1>4, <1>6, <2>1, <2>4 DEF MemoryCovers, Recorded
  <2>6. netC'[u] = "whole" /\ \A x \in FU : netC'[x] \in {netC[x], "whole"}
    BY <1>0, <2>2 DEF Files
  <2>7. NetlistFirst(w)'
    BY <1>5, <2>1, <2>3, <2>6 DEF NetlistFirst, u
  <2>8. NeverTorn'
    BY <1>5, <2>1, <2>6 DEF NeverTorn
  <2> QED
    BY <1>3, <2>5, <2>7, <2>8, SoloFrame
<1>11. CASE AppendLocal(w)
  <2> DEFINE r == [unit |-> u, val |-> IF op[w][u] = None THEN hit[w][u] ELSE op[w][u]]
  <2>1. /\ local' = [local EXCEPT ![w] = @ \cup {r}]
        /\ UNCHANGED <<cache, netL, netC, op, hit>> /\ step[w] = "appendLocal"
    BY <1>11 DEF AppendLocal, u, Cur
  <2>2. r.unit = u
    OBVIOUS
  <2> HIDE DEF r
  <2>3. local'[w] = local[w] \cup {r} /\ \A v \in Workload \ {w} : local'[v] = local[v]
    BY <1>0, <2>1
  <2>4. NeverTorn'
    BY <1>5, <2>1, <2>2, <2>3 DEF NeverTorn, NetlistFirst, u
  <2>5. CASE op[w][u] = None
    <3>1. step'[w] = "work" /\ at'[w] = at[w] + 1
      BY <1>0, <1>11, <2>5 DEF AppendLocal, u, Cur, To, Served
    <3>2. u \in FU /\ hit[w][u] # None /\ u = Elements(w)[at[w]]
      BY <1>5, <2>1, <2>5 DEF Placed, u, Cur
    <3>3. \A i \in DOMAIN Elements(w) : i <= at[w] => i < at'[w]
      BY <1>0, <3>1, ElementsFacts
    <3>4. at[w] <= at[w] /\ \A i \in DOMAIN Elements(w) : i < at[w] => i <= at[w]
      BY <1>0, ElementsFacts
    <3>5. MemoryCovers(w)'
      BY <1>1, <1>4, <2>1, <2>2, <2>3, <3>2, <3>3, <3>4 DEF MemoryCovers, Recorded
    <3>6. NetlistFirst(w)'
      BY <3>1 DEF NetlistFirst
    <3> QED
      BY <1>3, <2>4, <3>5, <3>6, SoloFrame
  <2>6. CASE op[w][u] # None
    <3>1. step'[w] = "appendCache" /\ at' = at
      BY <1>0, <1>11, <2>6 DEF AppendLocal, u, Cur, To
    <3>2. MemoryCovers(w)'
      BY <1>4, <2>1, <2>2, <2>3, <2>6, <3>1 DEF MemoryCovers, Recorded
    <3>3. Cur(w)' = u
      BY <3>1 DEF Cur, u
    <3>4. NetlistFirst(w)'
      BY <1>5, <2>1, <2>6, <3>1, <3>3 DEF NetlistFirst, u
    <3> QED
      BY <1>3, <2>4, <3>2, <3>4, SoloFrame
  <2> QED
    BY <2>5, <2>6
<1>12. CASE AppendCache(w)
  <2>1. /\ step'[w] = "work" /\ step[w] = "appendCache" /\ at'[w] = at[w] + 1
        /\ UNCHANGED <<local, netL, netC, op, hit>>
    BY <1>0, <1>12 DEF AppendCache, To, Served
  <2>2. cache' = cache \cup {[unit |-> u, val |-> op[w][u]]}
    BY <1>12 DEF AppendCache, u, Cur
  <2>3. op[w][u] # None /\ (u \in FU => netC[u] = "whole")
    BY <1>5, <2>1 DEF Placed, NetlistFirst, u
  <2>4. \A i \in DOMAIN Elements(w) : i < at[w] => i < at'[w]
    BY <1>0, <2>1, ElementsFacts
  <2>5. MemoryCovers(w)'
    BY <1>4, <2>1, <2>2, <2>3, <2>4 DEF MemoryCovers, Recorded
  <2>6. NetlistFirst(w)'
    BY <2>1 DEF NetlistFirst
  <2>7. NeverTorn'
    BY <1>5, <2>1, <2>2, <2>3 DEF NeverTorn
  <2> QED
    BY <1>3, <2>5, <2>6, <2>7, SoloFrame
<1> QED
  BY <1>7, <1>8, <1>9, <1>10, <1>11, <1>12

LEMMA SoloInit == Init => SoloInv
<1> SUFFICES ASSUME Init PROVE SoloInv
  OBVIOUS
<1>1. \A w \in Workload : step[w] = "off" /\ local[w] = {}
  BY DEF Init
<1>2. Running = {} /\ cache = {}
  BY <1>1 DEF Init, Running
<1>3. \A w \in Workload : MemoryCovers(w) /\ NetlistFirst(w)
  BY <1>1 DEF MemoryCovers, NetlistFirst, Serving, Writing
<1> QED
  BY <1>1, <1>2, <1>3 DEF SoloInv, Solo, NeverTorn

LEMMA SoloStep == OneRun /\ PlaceInv /\ SoloInv /\ [Next]_vars => SoloInv'
<1> SUFFICES ASSUME OneRun, PlaceInv, SoloInv, [Next]_vars PROVE SoloInv'
  OBVIOUS
<1>1. CASE Upgrade \/ UNCHANGED vars
  <2>1. UNCHANGED <<local, cache, netL, netC, step, at, op, hit>>
    BY <1>1 DEF Upgrade, vars, memory
  <2>2. Solo' /\ NeverTorn'
    BY <2>1 DEF SoloInv, Solo, Running, NeverTorn
  <2>3. \A w \in Workload : MemoryCovers(w)' /\ NetlistFirst(w)'
    BY <2>1 DEF SoloInv, MemoryCovers, NetlistFirst, Recorded, Cur
  <2> QED
    BY <2>2, <2>3 DEF SoloInv
<1> QED
  BY <1>1, SoloQuiet, SoloRead, SoloServe, SoloWrite DEF Next

\* When runs do not overlap, no record points to a half-written netlist,
\* wherever runs are killed, be it while -i is deleting.
THEOREM NeverTornAlways == ASSUME OneRun PROVE Spec => []NeverTorn
<1>1. SoloInv => NeverTorn
  BY DEF SoloInv
<1> QED
  BY <1>1, PlaceInit, PlaceStep, SoloInit, SoloStep, PTL DEF Spec

\* Then the optimizer is never started for a unit with a record in either
\* file: its snapshot of them is enough.
THEOREM OptimizedOnceAlways == ASSUME OneRun PROVE Spec => OptimizedOnce
<1> DEFINE A == \A w \in Workload : \A u \in FU :
                  (step[w] = "work" /\ step'[w] = "optimizing" /\ Wants(w, u)) =>
                    ~Recorded(cache, u) /\ ~Recorded(local[w], u)
<1>1. ASSUME PlaceInv, SoloInv, [Next]_vars PROVE A \/ UNCHANGED vars
  <2>1. CASE UNCHANGED vars
    BY <2>1
  <2>2. ASSUME Next, OneRun, NEW w \in Workload, NEW u \in FU,
               step[w] = "work", step'[w] = "optimizing", Wants(w, u)
        PROVE  ~Recorded(cache, u) /\ ~Recorded(local[w], u)
    <3>1. step \in [Workload -> Steps]
      BY <1>1 DEF PlaceInv, StoreTypeOK
    <3>2. \A v \in Workload \ {w} : step[v] = "off"
      BY <1>1, <2>2, RunningAlone DEF SoloInv
    <3>3. Optimize(w)
      <4>1. ~Upgrade
        BY <2>2 DEF Upgrade
      <4>2. ASSUME NEW v \in Workload, v # w, Launch(v)
            PROVE  FALSE
        BY <1>1, <2>2, <4>2, LaunchAlone DEF SoloInv
      <4>3. ASSUME NEW v \in Workload, v # w, step[v] = "off",
                   RemoveCache(v) \/ RemoveLocal(v) \/ ReadMetrics(v) \/ ReadClash(v)
                     \/ Known(v) \/ Derive(v) \/ Fetch(v) \/ FetchFails(v) \/ Fetched(v)
                     \/ Optimize(v) \/ Optimized(v) \/ Fill(v) \/ Filled(v)
                     \/ AppendLocal(v) \/ AppendCache(v) \/ Finish(v) \/ Kill(v)
            PROVE  FALSE
        BY <4>3 DEF RemoveCache, RemoveLocal, ReadMetrics, ReadClash, Known, Derive, Fetch,
          FetchFails, Fetched, Optimize, Optimized, Fill, Filled, AppendLocal, AppendCache,
          Finish, Kill, Wants
      <4>4. PICK v \in Workload :
              \/ Launch(v) \/ RemoveCache(v) \/ RemoveLocal(v) \/ ReadMetrics(v) \/ ReadClash(v)
              \/ Known(v) \/ Derive(v) \/ Fetch(v) \/ FetchFails(v) \/ Fetched(v)
              \/ Optimize(v) \/ Optimized(v) \/ Fill(v) \/ Filled(v)
              \/ AppendLocal(v) \/ AppendCache(v) \/ Finish(v) \/ Kill(v)
        BY <2>2, <4>1 DEF Next
      <4>5. v = w
        BY <3>2, <4>2, <4>3, <4>4
      <4>6. ~(\/ Launch(w) \/ RemoveCache(w) \/ RemoveLocal(w) \/ ReadMetrics(w)
              \/ ReadClash(w) \/ Fetched(w) \/ Optimized(w) \/ Fill(w) \/ Filled(w)
              \/ AppendLocal(w) \/ AppendCache(w))
        BY <2>2 DEF Launch, RemoveCache, RemoveLocal, ReadMetrics, ReadClash, Fetched,
          Optimized, Fill, Filled, AppendLocal, AppendCache
      <4>7. ~(Known(w) \/ Derive(w) \/ Fetch(w) \/ FetchFails(w) \/ Finish(w) \/ Kill(w))
        BY <2>2, <3>1 DEF Known, Derive, Fetch, FetchFails, Finish, Kill, GiveUp, Forget, To
      <4> QED
        BY <4>4, <4>5, <4>6, <4>7
    <3>4. op[w][u] = None /\ hit[w][u] = None
      BY <2>2, <3>3 DEF Optimize, Wants
    <3>5. u \in Unit
      BY DEF Unit
    <3> QED
      BY <1>1, <2>2, <3>4, <3>5 DEF SoloInv, MemoryCovers, Serving, Recorded
  <2> QED
    BY <1>1, <2>1, <2>2
<1>2. PlaceInv /\ SoloInv /\ [Next]_vars => [A]_vars
  BY <1>1
<1> HIDE DEF A
<1>3. Spec => [][A]_vars
  BY <1>2, PlaceInit, PlaceStep, SoloInit, SoloStep, PTL DEF Spec
<1> QED
  BY <1>3 DEF OptimizedOnce, A

-----------------------------------------------------------------------------
(* One run at a time, and -i runs to its end.                              *)

\* What a step of a run does not touch.
Apart(w) ==
  \A v \in Workload \ {w} :
    /\ step[v] = "off" /\ step'[v] = "off"
    /\ local'[v] = local[v] /\ netL'[v] = netL[v]

LEMMA ApartStep ==
  ASSUME OneRun, PlaceInv, SoloInv, NEW w \in Workload,
         Launch(w) \/ RemoveCache(w) \/ RemoveLocal(w) \/ ReadMetrics(w) \/ ReadClash(w)
           \/ Known(w) \/ Derive(w) \/ Fetch(w) \/ FetchFails(w) \/ Fetched(w)
           \/ Optimize(w) \/ Optimized(w) \/ Fill(w) \/ Filled(w)
           \/ AppendLocal(w) \/ AppendCache(w) \/ Finish(w) \/ Kill(w)
  PROVE  Apart(w) /\ (Launch(w) \/ step[w] # "off")
<1>0. /\ step \in [Workload -> Steps] /\ netL \in [Workload -> Files]
      /\ local \in [Workload -> SUBSET Record]
  BY DEF PlaceInv, StoreTypeOK
<1>1. Launch(w) \/ step[w] # "off"
  BY DEF RemoveCache, RemoveLocal, ReadMetrics, ReadClash, Known, Derive, Fetch, FetchFails,
    Fetched, Optimize, Optimized, Fill, Filled, AppendLocal, AppendCache, Finish, Kill, Wants
<1>2. \A v \in Workload \ {w} : step[v] = "off"
  BY <1>1, LaunchAlone, RunningAlone DEF SoloInv
<1>3. \A v \in Workload \ {w} : step'[v] = step[v]
  <2>1. UNCHANGED step \/ \E s \in Steps : step' = [step EXCEPT ![w] = s]
    BY DEF Launch, RemoveCache, RemoveLocal, ReadMetrics, ReadClash, Known, Derive, Fetch,
      FetchFails, Fetched, Optimize, Optimized, Fill, Filled, AppendLocal, AppendCache,
      Finish, Kill, GiveUp, Forget, To, Steps
  <2> QED
    BY <1>0, <2>1
<1>4. \A v \in Workload \ {w} : local'[v] = local[v]
  BY <1>0 DEF Launch, RemoveCache, RemoveLocal, ReadMetrics, ReadClash, Known, Derive, Fetch,
      FetchFails, Fetched, Optimize, Optimized, Fill, Filled, AppendLocal, AppendCache,
      Finish, Kill, GiveUp
<1>5. \A v \in Workload \ {w} : netL'[v] = netL[v]
  BY <1>0 DEF Launch, RemoveCache, RemoveLocal, ReadMetrics, ReadClash, Known, Derive, Fetch,
      FetchFails, Fetched, Optimize, Optimized, Fill, Filled, AppendLocal, AppendCache,
      Finish, Kill, GiveUp
<1> QED
  BY <1>1, <1>2, <1>3, <1>4, <1>5 DEF Apart

LEMMA CompleteFrame ==
  ASSUME CompleteInv, NEW w \in Workload, Apart(w), std' = seen', fault' = fault,
         step'[w] # "rmCache" => CacheSound',
         DerivesSeen(w)', LocalAgrees(w)', step'[w] # "rmLocal" => LocalSound(w)'
  PROVE  CompleteInv'
<1>1. ASSUME NEW v \in Workload \ {w}
      PROVE  DerivesSeen(v)' /\ LocalAgrees(v)' /\ LocalSound(v)'
  BY <1>1 DEF Apart, CompleteInv, DerivesSeen, LocalAgrees, LocalSound, Serving, Writing
<1>2. NoFault'
  BY DEF CompleteInv, NoFault
<1> QED
  BY <1>1, <1>2 DEF CompleteInv

\* Records of one version do not clash.
LEMMA SoundCache ==
  ASSUME PlaceInv, CompleteInv, NEW w \in Workload, step[w] \notin {"off", "rmCache"}, Apart(w)
  PROVE  CacheSound /\ ~Clash(cache)
<1>1. CacheSound
  BY DEF CompleteInv, Apart
<1> QED
  BY <1>1 DEF CacheSound, Clash

LEMMA CompleteQuiet ==
  ASSUME OneRun, RemovalSafe, PlaceInv, SoloInv, CompleteInv, NEW w \in Workload,
         Launch(w) \/ RemoveCache(w) \/ RemoveLocal(w) \/ ReadClash(w) \/ FetchFails(w)
           \/ Finish(w) \/ Kill(w)
  PROVE  CompleteInv'
<1>0. /\ step \in [Workload -> Steps] /\ local \in [Workload -> SUBSET Record]
      /\ Apart(w) /\ (Launch(w) \/ step[w] # "off")
  BY ApartStep DEF PlaceInv, StoreTypeOK
<1>1. step[w] # "off" => std = seen
  BY DEF CompleteInv, Running
<1>2. LocalAgrees(w) /\ (step[w] # "rmLocal" => LocalSound(w))
  BY DEF CompleteInv
<1>3. CASE Launch(w)
  <2>1. /\ step'[w] \in {"rmCache", "read"} /\ step[w] = "off"
        /\ step'[w] = "read" => std = seen
        /\ std' = std /\ seen' = std /\ UNCHANGED <<local, cache, netL, netC, fault>>
    BY <1>0, <1>3 DEF Launch, To
  <2>2. CacheSound
    BY <1>0, <2>1 DEF CompleteInv, Apart
  <2>3. step'[w] # "rmCache" => CacheSound'
    BY <2>1, <2>2 DEF CacheSound
  <2>4. DerivesSeen(w)' /\ LocalAgrees(w)' /\ LocalSound(w)'
    BY <1>2, <2>1 DEF DerivesSeen, LocalAgrees, LocalSound, Serving, Writing
  <2> QED
    BY <1>0, <2>1, <2>3, <2>4, CompleteFrame
<1>4. CASE RemoveCache(w)
  <2>1. /\ step'[w] \in {"rmCache", "rmLocal"} /\ step[w] = "rmCache"
        /\ step'[w] = "rmLocal" => cache' = {}
        /\ UNCHANGED <<std, seen, local, netL, fault>>
    BY <1>0, <1>4 DEF RemoveCache, To
  <2>2. step'[w] # "rmCache" => CacheSound'
    BY <2>1 DEF CacheSound
  <2>3. DerivesSeen(w)' /\ LocalAgrees(w)' /\ LocalSound(w)'
    BY <1>2, <2>1 DEF DerivesSeen, LocalAgrees, LocalSound, Serving, Writing
  <2> QED
    BY <1>0, <1>1, <2>1, <2>2, <2>3, CompleteFrame
<1>5. CASE RemoveLocal(w)
  <2>1. /\ step'[w] \in {"rmLocal", "read"} /\ step[w] = "rmLocal"
        /\ step'[w] = "read" => local'[w] = {}
        /\ local'[w] \subseteq local[w]
        /\ UNCHANGED <<std, seen, cache, netC, fault>>
    BY <1>0, <1>5 DEF RemoveLocal, To
  <2>2. CacheSound'
    BY <1>0, <2>1, SoundCache DEF CacheSound
  <2>3. DerivesSeen(w)' /\ LocalAgrees(w)'
    BY <1>2, <2>1 DEF DerivesSeen, LocalAgrees, Clash, Serving, Writing
  <2>4. step'[w] # "rmLocal" => LocalSound(w)'
    BY <2>1 DEF LocalSound
  <2> QED
    BY <1>0, <1>1, <2>1, <2>2, <2>3, <2>4, CompleteFrame
<1>6. CASE ReadClash(w)
  <2>1. step[w] = "read" /\ (Clash(local[w]) \/ Clash(cache))
    BY <1>6 DEF ReadClash
  <2> QED
    BY <1>0, <1>2, <2>1, SoundCache DEF LocalAgrees
<1>7. CASE FetchFails(w)
  <2>1. PICK u \in FU : Wants(w, u) /\ hit[w][u] # None /\ netC[u] = "none"
    BY <1>7 DEF FetchFails
  <2>2. step[w] = "work" /\ Recorded(cache, u)
    BY <2>1 DEF Wants, SoloInv, MemoryCovers, Serving
  <2> QED
    BY <1>0, <2>1, <2>2, SoundCache DEF CacheSound, Recorded
<1>8. CASE Finish(w) \/ Kill(w)
  <2>1. /\ step[w] \notin {"off", "rmCache", "rmLocal"} /\ Forget(w)
        /\ UNCHANGED <<std, seen, local, cache, netL, netC, fault>>
    BY <1>0, <1>8 DEF Finish, Kill, RemovalSafe
  <2>2. step'[w] = "off"
    BY <1>0, <2>1 DEF Forget, To
  <2>3. CacheSound'
    BY <1>0, <2>1, SoundCache DEF CacheSound
  <2>4. DerivesSeen(w)' /\ LocalAgrees(w)' /\ LocalSound(w)'
    BY <1>2, <2>1, <2>2 DEF DerivesSeen, LocalAgrees, LocalSound, Serving, Writing
  <2> QED
    BY <1>0, <1>1, <2>1, <2>3, <2>4, CompleteFrame
<1> QED
  BY <1>3, <1>4, <1>5, <1>6, <1>7, <1>8

LEMMA CompleteRead ==
  ASSUME OneRun, PlaceInv, SoloInv, CompleteInv, NEW w \in Workload, ReadMetrics(w)
  PROVE  CompleteInv'
<1>0. /\ step \in [Workload -> Steps] /\ op \in [Workload -> Memo] /\ base \in [Workload -> Nat]
      /\ local[w] \in SUBSET Record /\ Apart(w)
  BY ApartStep DEF PlaceInv, StoreTypeOK
<1>1. /\ step[w] = "read" /\ step'[w] = "work" /\ base'[w] = std /\ std = seen
      /\ UNCHANGED <<std, seen, local, cache, netL, netC, fault>>
  BY <1>0 DEF ReadMetrics, To, CompleteInv, Running
<1>2. op'[w] = [u \in Unit |-> ValueIn(local[w], u)]
  BY <1>0 DEF ReadMetrics
<1>3. CacheSound'
  BY <1>0, <1>1, SoundCache DEF CacheSound
<1>4. DerivesSeen(w)'
  BY <1>1 DEF DerivesSeen
<1>5. ASSUME NEW r \in local[w] PROVE op'[w][r.unit] = r.val
  <2>1. r.unit \in Unit /\ Recorded(local[w], r.unit)
    BY <1>0 DEF Record, Recorded
  <2>2. PICK s \in local[w] : s.unit = r.unit /\ ValueIn(local[w], r.unit) = s.val
    BY <1>0, <2>1, ValueInType
  <2>3. s.val = r.val
    BY <2>2 DEF CompleteInv, LocalAgrees, Clash
  <2> QED
    BY <1>2, <2>1, <2>2, <2>3
<1>6. LocalAgrees(w)'
  BY <1>1, <1>5 DEF LocalAgrees, CompleteInv
<1>7. LocalSound(w)'
  BY <1>1 DEF LocalSound, CompleteInv
<1> QED
  BY <1>0, <1>1, <1>3, <1>4, <1>6, <1>7, CompleteFrame

LEMMA CompleteServe ==
  ASSUME OneRun, PlaceInv, SoloInv, CompleteInv, NEW w \in Workload,
         Known(w) \/ Derive(w) \/ Fetch(w) \/ Optimize(w)
  PROVE  CompleteInv'
<1>0. /\ step \in [Workload -> Steps] /\ op \in [Workload -> Memo] /\ netL \in [Workload -> Files]
      /\ local[w] \in SUBSET Record /\ base[w] \in Nat /\ Apart(w)
  BY ApartStep DEF PlaceInv, StoreTypeOK
<1>1. /\ step[w] = "work"
      /\ UNCHANGED <<std, seen, local, cache, netC, hit, base, fault>>
  BY DEF Known, Derive, Fetch, Optimize, Wants, memory
<1>2. std = seen /\ base[w] = seen /\ LocalAgrees(w) /\ LocalSound(w)
  BY <1>1 DEF CompleteInv, Running, DerivesSeen, Serving
<1>3. CacheSound'
  BY <1>0, <1>1, SoundCache DEF CacheSound
<1>4. CASE Known(w)
  <2>1. step' = step /\ op' = op /\ netL' = netL
    BY <1>4 DEF Known
  <2>2. DerivesSeen(w)' /\ LocalAgrees(w)' /\ LocalSound(w)'
    BY <1>1, <1>2, <2>1 DEF DerivesSeen, LocalAgrees, LocalSound
  <2> QED
    BY <1>0, <1>1, <1>2, <1>3, <2>2, CompleteFrame
<1>5. CASE Derive(w)
  <2>1. PICK u \in Copy : Wants(w, u) /\ op[w][u] = None /\ op' = [op EXCEPT ![w][u] = base[w]]
    BY <1>5 DEF Derive
  <2>2. step'[w] = "appendLocal" /\ at' = at /\ netL' = netL
    BY <1>0, <1>5 DEF Derive, To
  <2>3. Cur(w)' = u /\ u \in Unit /\ u \notin FU
    BY <2>1, <2>2, StoreAssumption DEF Cur, Wants, Unit
  <2>4. op'[w][u] = base[w] /\ \A x \in Unit : x # u => op'[w][x] = op[w][x]
    BY <1>0, <2>1, <2>3 DEF Memo
  <2>5. \A r \in local[w] : r.unit \in Unit /\ r.unit # u
    BY <1>0, <1>1, <2>1, <2>3 DEF Record, SoloInv, MemoryCovers, Serving
  <2>6. DerivesSeen(w)'
    BY <1>1, <1>2, <2>2, <2>3, <2>4 DEF DerivesSeen
  <2>7. LocalAgrees(w)' /\ LocalSound(w)'
    BY <1>1, <1>2, <2>2, <2>4, <2>5 DEF LocalAgrees, LocalSound, Serving
  <2> QED
    BY <1>0, <1>1, <1>2, <1>3, <2>6, <2>7, CompleteFrame
<1>6. CASE Fetch(w) \/ Optimize(w)
  <2>1. PICK u \in FU : /\ Wants(w, u) /\ op[w][u] = None
                        /\ netL' = [netL EXCEPT ![w][u] = "torn"]
    BY <1>6 DEF Fetch, Optimize
  <2>2. step'[w] \in {"copying", "optimizing"} /\ op' = op
    BY <1>0, <1>6 DEF Fetch, Optimize, To, memory
  <2>3. \A x \in FU : x # u => netL'[w][x] = netL[w][x]
    BY <1>0, <2>1 DEF Files
  <2>4. \A r \in local[w] : r.unit = u => ~NamedOnce(w, u)
    BY <2>1, RewriteTwice
  <2>5. LocalSound(w)'
    BY <1>1, <1>2, <2>3, <2>4 DEF LocalSound
  <2>6. DerivesSeen(w)' /\ LocalAgrees(w)'
    BY <1>1, <1>2, <2>2 DEF DerivesSeen, LocalAgrees, Serving
  <2> QED
    BY <1>0, <1>1, <1>2, <1>3, <2>5, <2>6, CompleteFrame
<1> QED
  BY <1>4, <1>5, <1>6

LEMMA CompleteWrite ==
  ASSUME OneRun, PlaceInv, SoloInv, SoloInv', CompleteInv, NEW w \in Workload,
         Fetched(w) \/ Optimized(w) \/ Fill(w) \/ Filled(w) \/ AppendLocal(w) \/ AppendCache(w)
  PROVE  CompleteInv'
<1> DEFINE u == Cur(w)
<1>0. /\ step \in [Workload -> Steps] /\ at \in [Workload -> Nat]
      /\ op \in [Workload -> Memo] /\ hit \in [Workload -> Memo]
      /\ netL \in [Workload -> Files] /\ netC \in Files /\ base[w] \in Nat
      /\ local \in [Workload -> SUBSET Record] /\ Apart(w)
  BY ApartStep DEF PlaceInv, StoreTypeOK
<1>1. /\ step[w] \in Writing /\ u \in Unit
      /\ step[w] \in {"copying", "optimizing", "fill", "filling"} => u \in FU
  BY CurIsUnit DEF Fetched, Optimized, Fill, Filled, AppendLocal, AppendCache, Writing
<1>2. std = seen /\ base[w] = seen /\ LocalAgrees(w) /\ LocalSound(w) /\ DerivesSeen(w)
  BY <1>1 DEF CompleteInv, Running, DerivesSeen, Serving, Writing
<1>3. CacheSound
  BY <1>0, <1>1, SoundCache DEF Writing
<1>4. \A r \in local[w] : /\ r.val # None /\ r.unit \in Unit
                          /\ op[w][r.unit] = r.val \/ (op[w][r.unit] = None /\ hit[w][r.unit] = r.val)
  BY <1>0, <1>1, <1>2, StoreAssumption DEF Record, LocalAgrees, Serving
<1>5. Placed(w) /\ NetlistFirst(w) /\ NetlistFirst(w)'
  BY DEF PlaceInv, SoloInv
<1>6. UNCHANGED <<std, seen, base, hit, fault>>
  BY DEF Fetched, Optimized, Fill, Filled, AppendLocal, AppendCache, memory
<1> HIDE DEF u
<1>7. CASE Fetched(w) \/ Optimized(w)
  <2>1. /\ step'[w] \in {"appendLocal", "fill"} /\ step[w] \in {"copying", "optimizing"}
        /\ step'[w] = "appendLocal" => step[w] = "copying"
        /\ UNCHANGED <<local, cache, netC, at, op>>
    BY <1>0, <1>7 DEF Fetched, Optimized, To, memory
  <2>2. u \in FU /\ Cur(w)' = u /\ op[w][u] = None
    BY <1>1, <1>5, <2>1 DEF Placed, Cur, u
  <2>3. netL'[w][u] = "whole"
    BY <1>5, <2>1, <2>2 DEF NetlistFirst
  <2>4. \A x \in FU : x # u => netL'[w][x] = netL[w][x]
    BY <1>0, <1>7 DEF Fetched, Optimized, Files, u, Cur
  <2>5. LocalSound(w)'
    BY <1>2, <2>1, <2>3, <2>4 DEF LocalSound
  <2>6. DerivesSeen(w)' /\ LocalAgrees(w)' /\ CacheSound'
    BY <1>1, <1>2, <1>3, <1>6, <2>1, <2>2 DEF DerivesSeen, LocalAgrees, CacheSound, Serving
  <2> QED
    BY <1>0, <1>2, <1>6, <2>5, <2>6, CompleteFrame
<1>8. CASE Fill(w)
  <2>1. /\ step'[w] = "filling" /\ step[w] = "fill"
        /\ UNCHANGED <<local, cache, netL, at, op>>
    BY <1>0, <1>8 DEF Fill, To, memory
  <2>2. netC' = [netC EXCEPT ![u] = "torn"] /\ u \in FU
    BY <1>1, <1>8, <2>1 DEF Fill, u, Cur
  <2>3. ~Recorded(cache, u)
    BY <1>1, <1>5, <2>1 DEF Placed, u, SoloInv, MemoryCovers, Serving, Writing
  <2>4. CacheSound'
    BY <1>0, <1>3, <1>6, <2>1, <2>2, <2>3 DEF CacheSound, Recorded, Files
  <2>5. DerivesSeen(w)' /\ LocalAgrees(w)' /\ LocalSound(w)'
    BY <1>1, <1>2, <1>6, <2>1 DEF DerivesSeen, LocalAgrees, LocalSound, Serving
  <2> QED
    BY <1>0, <1>2, <1>6, <2>4, <2>5, CompleteFrame
<1>9. CASE Filled(w)
  <2>1. /\ step'[w] = "appendLocal" /\ step[w] = "filling"
        /\ UNCHANGED <<local, cache, netL, at>>
    BY <1>0, <1>9 DEF Filled, To
  <2>2. /\ netC' = [netC EXCEPT ![u] = "whole"] /\ u \in FU
        /\ op' = [op EXCEPT ![w][u] = base[w]] /\ Cur(w)' = u
    BY <1>1, <1>9, <2>1 DEF Filled, u, Cur
  <2>3. op'[w][u] = base[w] /\ \A x \in Unit : x # u => op'[w][x] = op[w][x]
    BY <1>0, <1>1, <2>2 DEF Memo
  <2>4. \A r \in local[w] : r.unit # u
    BY <1>4, <1>5, <2>1 DEF Placed, u
  <2>5. CacheSound'
    BY <1>0, <1>3, <1>6, <2>1, <2>2 DEF CacheSound, Files
  <2>6. DerivesSeen(w)'
    BY <1>2, <1>6, <2>1, <2>2, <2>3 DEF DerivesSeen
  <2>7. LocalAgrees(w)' /\ LocalSound(w)'
    BY <1>1, <1>2, <1>4, <1>6, <2>1, <2>3, <2>4 DEF LocalAgrees, LocalSound, Serving
  <2> QED
    BY <1>0, <1>2, <1>6, <2>5, <2>6, <2>7, CompleteFrame
<1>10. CASE AppendLocal(w)
  <2> DEFINE r == [unit |-> u, val |-> IF op[w][u] = None THEN hit[w][u] ELSE op[w][u]]
  <2>1. /\ local' = [local EXCEPT ![w] = @ \cup {r}]
        /\ UNCHANGED <<cache, netL, netC, op>> /\ step[w] = "appendLocal"
        /\ step'[w] \in {"work", "appendCache"}
        /\ step'[w] = "appendCache" => op[w][u] # None /\ at' = at
    BY <1>0, <1>10 DEF AppendLocal, To, u, Cur
  <2>2. r.unit = u /\ r.val = IF op[w][u] = None THEN hit[w][u] ELSE op[w][u]
    OBVIOUS
  <2> HIDE DEF r
  <2>3. local'[w] = local[w] \cup {r}
    BY <1>0, <2>1
  <2>4. \A s \in local[w] : s.unit = u => s.val = r.val
    BY <1>4, <2>2
  <2>5. ~Clash(local'[w])
    BY <1>2, <2>2, <2>3, <2>4 DEF LocalAgrees, Clash
  <2>6. LocalAgrees(w)'
    BY <1>4, <1>6, <2>1, <2>2, <2>3, <2>5 DEF LocalAgrees
  <2>7. LocalSound(w)'
    BY <1>2, <1>5, <2>1, <2>2, <2>3 DEF LocalSound, NetlistFirst, u
  <2>8. step'[w] = "appendCache" => Cur(w)' = u
    BY <2>1 DEF Cur, u
  <2>9. DerivesSeen(w)'
    BY <1>2, <1>6, <2>1, <2>8 DEF DerivesSeen, u
  <2>10. CacheSound'
    BY <1>3, <1>6, <2>1 DEF CacheSound
  <2> QED
    BY <1>0, <1>2, <1>6, <2>1, <2>6, <2>7, <2>9, <2>10, CompleteFrame
<1>11. CASE AppendCache(w)
  <2>1. /\ step'[w] = "work" /\ step[w] = "appendCache"
        /\ UNCHANGED <<local, netL, netC, op>>
        /\ cache' = cache \cup {[unit |-> u, val |-> op[w][u]]}
    BY <1>0, <1>11 DEF AppendCache, To, u, Cur
  <2>2. op[w][u] = seen /\ (u \in FU => netC[u] = "whole")
    BY <1>2, <1>5, <2>1 DEF DerivesSeen, NetlistFirst, u
  <2>3. CacheSound'
    BY <1>3, <1>6, <2>1, <2>2 DEF CacheSound
  <2>4. DerivesSeen(w)' /\ LocalAgrees(w)' /\ LocalSound(w)'
    BY <1>1, <1>2, <1>6, <2>1 DEF DerivesSeen, LocalAgrees, LocalSound, Serving
  <2> QED
    BY <1>0, <1>2, <1>6, <2>1, <2>3, <2>4, CompleteFrame
<1> QED
  BY <1>7, <1>8, <1>9, <1>10, <1>11

LEMMA CompleteInit == Init => CompleteInv
<1> SUFFICES ASSUME Init PROVE CompleteInv
  OBVIOUS
<1>1. /\ \A w \in Workload : step[w] = "off" /\ local[w] = {}
      /\ std = seen /\ cache = {} /\ NoFault
  BY DEF Init, NoFault
<1>2. ASSUME NEW w \in Workload PROVE DerivesSeen(w) /\ LocalAgrees(w) /\ LocalSound(w)
  BY <1>1 DEF DerivesSeen, LocalAgrees, LocalSound, Clash, Serving, Writing
<1> QED
  BY <1>1, <1>2 DEF CompleteInv, CacheSound

LEMMA CompleteStep ==
  OneRun /\ RemovalSafe /\ PlaceInv /\ SoloInv /\ SoloInv' /\ CompleteInv /\ [Next]_vars
    => CompleteInv'
<1> SUFFICES ASSUME OneRun, RemovalSafe, PlaceInv, SoloInv, SoloInv', CompleteInv, [Next]_vars
             PROVE  CompleteInv'
  OBVIOUS
<1>1. CASE Upgrade \/ UNCHANGED vars
  <2>1. UNCHANGED <<seen, local, cache, netL, netC, step, at, op, hit, base, fault>>
    BY <1>1 DEF Upgrade, vars, memory
  <2>2. Running' # {} => std' = seen'
    BY <1>1, <2>1 DEF Upgrade, vars, CompleteInv, Running
  <2>3. \A w \in Workload : /\ DerivesSeen(w)' /\ LocalAgrees(w)'
                            /\ step'[w] # "rmLocal" => LocalSound(w)'
    BY <2>1 DEF CompleteInv, DerivesSeen, LocalAgrees, LocalSound, Cur
  <2>4. NoFault' /\ ((\A w \in Workload : step'[w] # "rmCache") => CacheSound')
    BY <2>1 DEF CompleteInv, NoFault, CacheSound
  <2> QED
    BY <2>2, <2>3, <2>4 DEF CompleteInv
<1> QED
  BY <1>1, CompleteQuiet, CompleteRead, CompleteServe, CompleteWrite DEF Next

LEMMA StoreComplete == ASSUME OneRun, RemovalSafe PROVE Spec => []CompleteInv
BY PlaceInit, PlaceStep, SoloInit, SoloStep, CompleteInit, CompleteStep, PTL DEF Spec

\* If runs do not overlap and none is killed while -i deletes, every recorded
\* netlist is there and whole, wherever runs are killed.
THEOREM LocalCompleteAlways ==
  ASSUME OneRun, RemovalSafe PROVE Spec => []LocalComplete
<1>1. CompleteInv => LocalComplete
  BY DEF CompleteInv, LocalSound, LocalComplete
<1> QED
  BY <1>1, StoreComplete, PTL

\* The same of the netlists of the cache.
THEOREM CacheCompleteAlways ==
  ASSUME OneRun, RemovalSafe PROVE Spec => []CacheComplete
<1>1. CompleteInv => CacheComplete
  BY DEF CompleteInv, CacheSound, CacheComplete
<1> QED
  BY <1>1, StoreComplete, PTL

\* No run rejects the store that killed runs and upgrades have left.
THEOREM NoFaultAlone ==
  ASSUME OneRun, RemovalSafe PROVE Spec => []NoFault
<1>1. CompleteInv => NoFault
  BY DEF CompleteInv
<1> QED
  BY <1>1, StoreComplete, PTL

-----------------------------------------------------------------------------
(* Any number of runs, but nothing is ever removed.                        *)

\* A netlist that is there stays there.
NetlistsStay ==
  /\ \A u \in FU : netC[u] # "none" => netC'[u] # "none"
  /\ \A v \in Workload : \A u \in FU : netL[v][u] # "none" => netL'[v][u] # "none"

\* What a step of a run does not touch.
Beside(w) ==
  \A v \in Workload \ {w} :
    /\ step'[v] = step[v] /\ at'[v] = at[v] /\ local'[v] = local[v]
    /\ op'[v] = op[v] /\ hit'[v] = hit[v] /\ base'[v] = base[v]

RunStep(w) ==
  \/ Launch(w) \/ RemoveCache(w) \/ RemoveLocal(w) \/ ReadMetrics(w) \/ ReadClash(w)
  \/ Known(w) \/ Derive(w) \/ Fetch(w) \/ FetchFails(w) \/ Fetched(w)
  \/ Optimize(w) \/ Optimized(w) \/ Fill(w) \/ Filled(w)
  \/ AppendLocal(w) \/ AppendCache(w) \/ Finish(w) \/ Kill(w)

LEMMA BesideStep ==
  ASSUME PlaceInv, NEW w \in Workload, RunStep(w)
  PROVE  Beside(w)
<1>0. /\ step \in [Workload -> Steps] /\ at \in [Workload -> Nat]
      /\ op \in [Workload -> Memo] /\ hit \in [Workload -> Memo] /\ base \in [Workload -> Nat]
      /\ local \in [Workload -> SUBSET Record]
  BY DEF PlaceInv, StoreTypeOK
<1> USE DEF Launch, RemoveCache, RemoveLocal, ReadMetrics, ReadClash, Known, Derive, Fetch,
      FetchFails, Fetched, Optimize, Optimized, Fill, Filled, AppendLocal, AppendCache,
      Finish, Kill, GiveUp, Forget, To, Served, memory, RunStep
<1>1. \A v \in Workload \ {w} : step'[v] = step[v]
  BY <1>0
<1>2. \A v \in Workload \ {w} : at'[v] = at[v]
  BY <1>0
<1>3. \A v \in Workload \ {w} : local'[v] = local[v]
  BY <1>0
<1>4. \A v \in Workload \ {w} : op'[v] = op[v]
  BY <1>0
<1>5. \A v \in Workload \ {w} : hit'[v] = hit[v]
  BY <1>0
<1>6. \A v \in Workload \ {w} : base'[v] = base[v]
  BY <1>0
<1> QED
  BY <1>1, <1>2, <1>3, <1>4, <1>5, <1>6 DEF Beside

LEMMA GrowingFrame ==
  ASSUME PlaceInv, GrowingInv, NEW w \in Workload, Beside(w), NetlistsStay,
         std' = std, seen' = seen, std = seen, fault' = fault,
         CacheThere', VersionOf(w)', NetlistThere(w)', LocalThere(w)'
  PROVE  GrowingInv'
<1>1. ASSUME NEW v \in Workload \ {w}
      PROVE  VersionOf(v)' /\ NetlistThere(v)' /\ LocalThere(v)'
  <2>1. VersionOf(v) /\ NetlistThere(v) /\ LocalThere(v)
    BY DEF GrowingInv
  <2>2. VersionOf(v)'
    BY <2>1 DEF VersionOf, Beside
  <2>3. LocalThere(v)'
    BY <2>1 DEF LocalThere, Beside, NetlistsStay
  <2>4. Cur(v)' = Cur(v) /\ step'[v] = step[v] /\ op'[v] = op[v] /\ hit'[v] = hit[v]
    BY DEF Beside, Cur
  <2>5. step[v] \in {"copying", "optimizing", "fill", "filling"} => Cur(v) \in FU
    BY DEF PlaceInv, Placed
  <2>6. NetlistThere(v)'
    BY <2>1, <2>4, <2>5 DEF NetlistThere, NetlistsStay
  <2> QED
    BY <2>2, <2>3, <2>6
<1>2. NoFault'
  BY DEF GrowingInv, NoFault
<1> QED
  BY <1>1, <1>2 DEF GrowingInv

LEMMA GrowingStep ==
  ASSUME ~MayInvalidate, PlaceInv, GrowingInv, NEW w \in Workload, RunStep(w)
  PROVE  GrowingInv'
<1> DEFINE u == Cur(w)
<1>0. /\ step \in [Workload -> Steps] /\ at \in [Workload -> Nat]
      /\ op \in [Workload -> Memo] /\ hit \in [Workload -> Memo] /\ base \in [Workload -> Nat]
      /\ netL \in [Workload -> Files] /\ netC \in Files
      /\ local \in [Workload -> SUBSET Record] /\ cache \in SUBSET Record
  BY DEF PlaceInv, StoreTypeOK
<1>1. Beside(w)
  BY BesideStep
<1>2. VersionOf(w) /\ NetlistThere(w) /\ LocalThere(w) /\ CacheThere /\ Placed(w)
  BY DEF GrowingInv, PlaceInv
<1>3. step[w] # "off" => std = seen
  BY DEF GrowingInv, Running
<1>4. step[w] \in Writing => u \in Unit
  BY CurIsUnit
<1>5. step[w] \in {"copying", "optimizing", "fill", "filling"} => u \in FU
  BY <1>2 DEF Placed
<1> HIDE DEF u
<1>6. CASE Launch(w)
  <2>1. /\ step'[w] = "read" /\ std = seen /\ std' = std /\ seen' = seen
        /\ UNCHANGED <<local, cache, netL, netC, fault>>
    BY <1>0, <1>6 DEF Launch, To
  <2>2. NetlistsStay /\ CacheThere' /\ VersionOf(w)' /\ NetlistThere(w)' /\ LocalThere(w)'
    BY <1>2, <2>1 DEF NetlistsStay, CacheThere, VersionOf, NetlistThere, LocalThere,
      Serving, Writing
  <2> QED
    BY <1>1, <2>1, <2>2, GrowingFrame
<1>7. CASE RemoveCache(w) \/ RemoveLocal(w)
  BY <1>2, <1>7 DEF VersionOf, RemoveCache, RemoveLocal
<1>8. CASE ReadClash(w)
  BY <1>2, <1>8 DEF ReadClash, Clash, VersionOf, CacheThere
<1>9. CASE FetchFails(w)
  BY <1>2, <1>9 DEF FetchFails, Wants, NetlistThere, Serving
<1>10. CASE Finish(w) \/ Kill(w)
  <2>1. /\ step'[w] = "off" /\ std = seen
        /\ UNCHANGED <<std, seen, local, cache, netL, netC, fault>>
    BY <1>0, <1>3, <1>10 DEF Finish, Kill, Forget, To
  <2>2. NetlistsStay /\ CacheThere' /\ VersionOf(w)' /\ NetlistThere(w)' /\ LocalThere(w)'
    BY <1>2, <2>1 DEF NetlistsStay, CacheThere, VersionOf, NetlistThere, LocalThere,
      Serving, Writing
  <2> QED
    BY <1>1, <2>1, <2>2, GrowingFrame
<1>11. CASE ReadMetrics(w)
  <2>1. /\ step'[w] = "work" /\ std = seen /\ base'[w] = std
        /\ UNCHANGED <<std, seen, local, cache, netL, netC, fault>>
    BY <1>0, <1>3, <1>11 DEF ReadMetrics, To
  <2>2. /\ op'[w] = [x \in Unit |-> ValueIn(local[w], x)]
        /\ hit'[w] = [x \in Unit |-> ValueIn(cache, x)]
    BY <1>0, <1>11 DEF ReadMetrics
  <2>3. \A x \in Unit : ValueIn(local[w], x) \in {None, seen}
    BY <1>0, <1>2, ValueInType DEF VersionOf
  <2>4. \A x \in Unit : /\ ValueIn(cache, x) \in {None, seen}
                        /\ ValueIn(cache, x) # None => Recorded(cache, x)
    BY <1>0, <1>2, ValueInType DEF CacheThere
  <2>5. VersionOf(w)'
    BY <1>2, <2>1, <2>2, <2>3, <2>4 DEF VersionOf
  <2>6. NetlistThere(w)'
    BY <1>2, <2>1, <2>2, <2>4 DEF NetlistThere, CacheThere, Recorded, Unit
  <2>7. NetlistsStay /\ CacheThere' /\ LocalThere(w)'
    BY <1>2, <2>1 DEF NetlistsStay, CacheThere, LocalThere
  <2> QED
    BY <1>1, <2>1, <2>5, <2>6, <2>7, GrowingFrame
<1>12. CASE Known(w)
  <2>1. /\ step[w] = "work" /\ std = seen
        /\ UNCHANGED <<std, seen, step, local, cache, netL, netC, op, hit, base, fault>>
    BY <1>3, <1>12 DEF Known, Wants
  <2>2. NetlistsStay /\ CacheThere' /\ VersionOf(w)' /\ NetlistThere(w)' /\ LocalThere(w)'
    BY <1>2, <2>1 DEF NetlistsStay, CacheThere, VersionOf, NetlistThere, LocalThere
  <2> QED
    BY <1>1, <2>1, <2>2, GrowingFrame
<1>13. CASE Derive(w)
  <2>1. PICK c \in Copy : Wants(w, c) /\ op' = [op EXCEPT ![w][c] = base[w]]
    BY <1>13 DEF Derive
  <2>2. /\ step[w] = "work" /\ step'[w] = "appendLocal" /\ std = seen
        /\ UNCHANGED <<std, seen, at, local, cache, netL, netC, hit, base, fault>>
    BY <1>0, <1>3, <1>13, <2>1 DEF Derive, Wants, To
  <2>3. Cur(w)' \notin FU
    BY <2>1, <2>2, StoreAssumption DEF Cur, Wants
  <2>4. \A x \in Unit : op'[w][x] \in {op[w][x], base[w]}
    BY <1>0, <2>1 DEF Memo
  <2>5. VersionOf(w)'
    BY <1>2, <2>2, <2>4 DEF VersionOf, Serving
  <2>6. NetlistThere(w)'
    BY <1>2, <2>2, <2>3 DEF NetlistThere, Serving
  <2>7. NetlistsStay /\ CacheThere' /\ LocalThere(w)'
    BY <1>2, <2>2 DEF NetlistsStay, CacheThere, LocalThere
  <2> QED
    BY <1>1, <2>2, <2>5, <2>6, <2>7, GrowingFrame
<1>14. CASE Fetch(w) \/ Optimize(w)
  <2>1. PICK x \in FU : Wants(w, x) /\ netL' = [netL EXCEPT ![w][x] = "torn"]
    BY <1>14 DEF Fetch, Optimize
  <2>2. /\ step[w] = "work" /\ step'[w] \in {"copying", "optimizing"} /\ std = seen
        /\ UNCHANGED <<std, seen, at, local, cache, netC, op, hit, base, fault>>
    BY <1>0, <1>3, <1>14, <2>1 DEF Fetch, Optimize, Wants, To, memory
  <2>3. Cur(w)' = x /\ netL'[w][x] # "none"
    BY <1>0, <2>1, <2>2 DEF Cur, Wants, Files
  <2>4. \A v \in Workload, y \in FU : netL'[v][y] \in {netL[v][y], "torn"}
    BY <1>0, <2>1 DEF Files
  <2>5. NetlistsStay /\ CacheThere' /\ LocalThere(w)'
    BY <1>2, <2>2, <2>4 DEF NetlistsStay, CacheThere, LocalThere
  <2>6. VersionOf(w)'
    BY <1>2, <2>2 DEF VersionOf, Serving
  <2>7. NetlistThere(w)'
    BY <1>2, <2>2, <2>3 DEF NetlistThere, Serving
  <2> QED
    BY <1>1, <2>2, <2>5, <2>6, <2>7, GrowingFrame
<1>15. CASE Fetched(w) \/ Optimized(w)
  <2>1. /\ step[w] \in {"copying", "optimizing"} /\ step'[w] \in {"appendLocal", "fill"}
        /\ step'[w] = "appendLocal" => step[w] = "copying"
        /\ UNCHANGED <<std, seen, at, local, cache, netC, op, hit, base, fault>>
    BY <1>0, <1>15 DEF Fetched, Optimized, To, memory
  <2>2. u \in FU /\ Cur(w)' = u /\ std = seen
    BY <1>3, <1>5, <2>1 DEF Cur, u
  <2>3. step[w] = "copying" => op[w][u] = None /\ netC[u] # "none"
    BY <1>2, <2>2 DEF Placed, NetlistThere, Serving, Writing, u
  <2>4. PICK f : netL' = [netL EXCEPT ![w][u] = f] /\ f # "none"
    BY <1>15, <2>1, <2>3 DEF Fetched, Optimized, Cur, u
  <2>5. netL'[w][u] = f /\ \A v \in Workload, y \in FU : netL'[v][y] \in {netL[v][y], f}
    BY <1>0, <2>2, <2>4 DEF Files
  <2>6. NetlistsStay /\ CacheThere' /\ LocalThere(w)'
    BY <1>2, <2>1, <2>4, <2>5 DEF NetlistsStay, CacheThere, LocalThere
  <2>7. VersionOf(w)'
    BY <1>2, <2>1 DEF VersionOf, Serving, Writing
  <2>8. NetlistThere(w)'
    BY <1>2, <2>1, <2>2, <2>3, <2>4, <2>5 DEF NetlistThere, Serving, Writing
  <2> QED
    BY <1>1, <2>1, <2>2, <2>6, <2>7, <2>8, GrowingFrame
<1>16. CASE Fill(w)
  <2>1. /\ step[w] = "fill" /\ step'[w] = "filling"
        /\ UNCHANGED <<std, seen, at, local, cache, netL, op, hit, base, fault>>
    BY <1>0, <1>16 DEF Fill, To, memory
  <2>2. u \in FU /\ Cur(w)' = u /\ std = seen /\ netC' = [netC EXCEPT ![u] = "torn"]
    BY <1>3, <1>5, <1>16, <2>1 DEF Fill, Cur, u
  <2>3. netC'[u] # "none" /\ \A y \in FU : netC'[y] \in {netC[y], "torn"}
    BY <1>0, <2>2 DEF Files
  <2>4. NetlistsStay /\ CacheThere' /\ LocalThere(w)'
    BY <1>2, <2>1, <2>3 DEF NetlistsStay, CacheThere, LocalThere
  <2>5. VersionOf(w)'
    BY <1>2, <2>1 DEF VersionOf, Serving, Writing
  <2>6. NetlistThere(w)'
    BY <1>2, <2>1, <2>2, <2>3 DEF NetlistThere, Serving, Writing, u
  <2> QED
    BY <1>1, <2>1, <2>2, <2>4, <2>5, <2>6, GrowingFrame
<1>17. CASE Filled(w)
  <2>1. /\ step[w] = "filling" /\ step'[w] = "appendLocal"
        /\ UNCHANGED <<std, seen, at, local, cache, netL, hit, base, fault>>
    BY <1>0, <1>17 DEF Filled, To
  <2>2. /\ u \in FU /\ Cur(w)' = u /\ std = seen
        /\ netC' = [netC EXCEPT ![u] = "whole"] /\ op' = [op EXCEPT ![w][u] = base[w]]
    BY <1>3, <1>5, <1>17, <2>1 DEF Filled, Cur, u
  <2>3. netC'[u] # "none" /\ \A y \in FU : netC'[y] \in {netC[y], "whole"}
    BY <1>0, <2>2 DEF Files
  <2>4. \A x \in Unit : op'[w][x] \in {op[w][x], base[w]}
    BY <1>0, <2>2 DEF Memo
  <2>5. NetlistsStay /\ CacheThere' /\ LocalThere(w)'
    BY <1>2, <2>1, <2>3 DEF NetlistsStay, CacheThere, LocalThere
  <2>6. VersionOf(w)'
    BY <1>2, <2>1, <2>4 DEF VersionOf, Serving, Writing
  <2>7. NetlistThere(w)'
    BY <1>2, <2>1, <2>2, <2>3 DEF NetlistThere, Serving, Writing, u
  <2> QED
    BY <1>1, <2>1, <2>2, <2>5, <2>6, <2>7, GrowingFrame
<1>18. CASE AppendLocal(w)
  <2> DEFINE r == [unit |-> u, val |-> IF op[w][u] = None THEN hit[w][u] ELSE op[w][u]]
  <2>1. /\ step[w] = "appendLocal" /\ step'[w] \in {"work", "appendCache"}
        /\ step'[w] = "appendCache" => op[w][u] # None /\ at' = at
        /\ local' = [local EXCEPT ![w] = @ \cup {r}]
        /\ UNCHANGED <<std, seen, cache, netL, netC, op, hit, base, fault>>
    BY <1>0, <1>18 DEF AppendLocal, To, Cur, u
  <2>2. r.unit = u /\ r.val = seen
    BY <1>2, <1>4, <2>1 DEF Placed, VersionOf, Serving, Writing, u
  <2> HIDE DEF r
  <2>3. local'[w] = local[w] \cup {r} /\ std = seen
    BY <1>0, <1>3, <2>1
  <2>4. step'[w] = "appendCache" => Cur(w)' = u
    BY <2>1 DEF Cur, u
  <2>5. NetlistsStay /\ CacheThere'
    BY <1>2, <2>1 DEF NetlistsStay, CacheThere
  <2>6. LocalThere(w)'
    BY <1>2, <2>1, <2>2, <2>3 DEF LocalThere, NetlistThere, u
  <2>7. VersionOf(w)'
    BY <1>2, <2>1, <2>2, <2>3 DEF VersionOf, Serving, Writing
  <2>8. NetlistThere(w)'
    BY <1>2, <2>1, <2>4 DEF NetlistThere, Serving, Writing, u
  <2> QED
    BY <1>1, <2>1, <2>3, <2>5, <2>6, <2>7, <2>8, GrowingFrame
<1>19. CASE AppendCache(w)
  <2>1. /\ step[w] = "appendCache" /\ step'[w] = "work"
        /\ cache' = cache \cup {[unit |-> u, val |-> op[w][u]]}
        /\ UNCHANGED <<std, seen, local, netL, netC, op, hit, base, fault>>
    BY <1>0, <1>19 DEF AppendCache, To, Cur, u
  <2>2. op[w][u] = seen /\ (u \in FU => netC[u] # "none") /\ std = seen
    BY <1>2, <1>3, <1>4, <2>1 DEF Placed, VersionOf, NetlistThere, Serving, Writing, u
  <2>3. NetlistsStay /\ CacheThere' /\ LocalThere(w)'
    BY <1>2, <2>1, <2>2 DEF NetlistsStay, CacheThere, LocalThere
  <2>4. VersionOf(w)' /\ NetlistThere(w)'
    BY <1>2, <2>1 DEF VersionOf, NetlistThere, Serving, Writing
  <2> QED
    BY <1>1, <2>1, <2>2, <2>3, <2>4, GrowingFrame
<1> QED
  BY <1>6, <1>7, <1>8, <1>9, <1>10, <1>11, <1>12, <1>13, <1>14, <1>15, <1>16, <1>17, <1>18,
     <1>19 DEF RunStep

LEMMA GrowingInit == Init => GrowingInv
<1> SUFFICES ASSUME Init PROVE GrowingInv
  OBVIOUS
<1>1. /\ \A w \in Workload : step[w] = "off" /\ local[w] = {}
      /\ std = seen /\ cache = {} /\ NoFault
  BY DEF Init, NoFault
<1>2. \A w \in Workload : VersionOf(w) /\ NetlistThere(w) /\ LocalThere(w)
  BY <1>1 DEF VersionOf, NetlistThere, LocalThere, Serving, Writing
<1> QED
  BY <1>1, <1>2 DEF GrowingInv, CacheThere

LEMMA GrowingNext == ~MayInvalidate /\ PlaceInv /\ GrowingInv /\ [Next]_vars => GrowingInv'
<1> SUFFICES ASSUME ~MayInvalidate, PlaceInv, GrowingInv, [Next]_vars PROVE GrowingInv'
  OBVIOUS
<1>1. CASE Upgrade \/ UNCHANGED vars
  <2>1. UNCHANGED <<seen, local, cache, netL, netC, step, at, op, hit, base, fault>>
    BY <1>1 DEF Upgrade, vars, memory
  <2>2. Running' # {} => std' = seen'
    BY <1>1, <2>1 DEF Upgrade, vars, GrowingInv, Running
  <2>3. \A w \in Workload : VersionOf(w)' /\ NetlistThere(w)' /\ LocalThere(w)'
    BY <2>1 DEF GrowingInv, VersionOf, NetlistThere, LocalThere, Cur
  <2>4. CacheThere' /\ NoFault'
    BY <2>1 DEF GrowingInv, CacheThere, NoFault
  <2> QED
    BY <2>2, <2>3, <2>4 DEF GrowingInv
<1> QED
  BY <1>1, GrowingStep DEF Next, RunStep

LEMMA StoreGrows == ASSUME ~MayInvalidate PROVE Spec => []GrowingInv
BY PlaceInit, PlaceStep, GrowingInit, GrowingNext, PTL DEF Spec

\* However many runs overlap and wherever they are killed, as long as none is
\* given -i every recorded netlist exists.
THEOREM RecordedPresentAlways ==
  ASSUME ~MayInvalidate PROVE Spec => []RecordedPresent
<1>1. GrowingInv => RecordedPresent
  BY DEF GrowingInv, LocalThere, CacheThere, RecordedPresent
<1> QED
  BY <1>1, StoreGrows, PTL

\* ... and none of them gives up.
THEOREM NoFaultOverlapping ==
  ASSUME ~MayInvalidate PROVE Spec => []NoFault
<1>1. GrowingInv => NoFault
  BY DEF GrowingInv
<1> QED
  BY <1>1, StoreGrows, PTL
=============================================================================
