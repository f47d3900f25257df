---------------------------- MODULE MetricsStore ----------------------------
(***************************************************************************)
(* Where the metrics and the optimized netlists of functional units are    *)
(* kept between runs of dflowmap, and what survives a run that is killed.  *)
(*                                                                         *)
(* A workload has a directory customF of its own, with a metric file and a *)
(* netlist per functional unit; the workloads of a directory share         *)
(* .dflow_cache, with the same two kinds of files.  A run reads the metric *)
(* files into memory, then serves the elements of its program one by one:  *)
(* from memory, else (functional units only) from the cache, else by       *)
(* computing the metric, which for a functional unit means running the     *)
(* logic optimizer.  A metric file is a set of records: the reader takes   *)
(* equal lines for one.  Every write of a file is a step of its own.       *)
(*                                                                         *)
(* The built-in optimizer is assumed, and no -m option, so that the metric *)
(* file of a workload lies beside its netlists.                            *)
(***************************************************************************)
EXTENDS Integers, Sequences, FiniteSets

CONSTANTS
  Workload,      \* programs translated in one directory
  FU,            \* functional units, by instance name
  Copy,          \* units whose metric is computed from the standard ones
  None,          \* no metric
  Elements(_),   \* workload |-> its units in the order of the program
  MaxRunning,    \* runs that may overlap
  MayInvalidate, \* may a run be given -i?
  MayKill,       \* the steps at which a run may be killed
  MaxStd         \* bound: how often the standard metrics are replaced

Unit == FU \cup Copy

Steps == {"off", "rmCache", "rmLocal", "read", "work", "copying", "optimizing",
          "fill", "filling", "appendLocal", "appendCache"}

ASSUME StoreAssumption ==
  /\ None \notin Nat
  /\ FU \cap Copy = {}
  /\ MayInvalidate \in BOOLEAN
  /\ MayKill \subseteq Steps
  /\ MaxRunning \in Nat /\ MaxStd \in Nat
  /\ \A w \in Workload : Elements(w) \in Seq(Unit)

VARIABLES
  std,     \* the version of the standard metrics: all values derive from it
  seen,    \* the version at the last launch (history)
  local,   \* workload |-> the records of its customF/fu.metrics
  cache,   \* the records of .dflow_cache/fu.metrics
  netL,    \* workload |-> unit |-> its netlist in customF
  netC,    \* unit |-> its netlist in .dflow_cache
  step,    \* workload |-> where its run is, "off" when it has none
  at,      \* workload |-> position of its run in Elements
  op,      \* workload |-> unit |-> opMetrics in memory
  hit,     \* workload |-> unit |-> cachedMetrics in memory
  base,    \* workload |-> the standard metrics its run has read
  fault    \* why a run has given up with exit(-1), if one has

memory == <<at, op, hit, base>>
vars == <<std, seen, local, cache, netL, netC, step, at, op, hit, base, fault>>

Record == [unit : Unit, val : Nat]
NetFile == {"none", "torn", "whole"}
Files == [FU -> NetFile]
Memo == [Unit -> Nat \cup {None}]

Clash(rs) == \E r, s \in rs : r.unit = s.unit /\ r.val # s.val
Recorded(rs, u) == \E r \in rs : r.unit = u
ValueIn(rs, u) ==
  IF Recorded(rs, u) THEN (CHOOSE r \in rs : r.unit = u).val ELSE None

Blank == [u \in Unit |-> None]
Running == {w \in Workload : step[w] # "off"}

Init ==
  /\ std = 0 /\ seen = 0
  /\ local = [w \in Workload |-> {}] /\ cache = {}
  /\ netL = [w \in Workload |-> [u \in FU |-> "none"]]
  /\ netC = [u \in FU |-> "none"]
  /\ step = [w \in Workload |-> "off"]
  /\ at = [w \in Workload |-> 1]
  /\ op = [w \in Workload |-> Blank] /\ hit = [w \in Workload |-> Blank]
  /\ base = [w \in Workload |-> 0]
  /\ fault = "none"

-----------------------------------------------------------------------------
(* A run begins.  -i is needed after the standard metrics were replaced.   *)

To(w, s) == step' = [step EXCEPT ![w] = s]

BugLaunch(w) ==
  /\ step[w] = "off" /\ Cardinality(Running) < MaxRunning
  /\ \/ MayInvalidate /\ To(w, "rmLocal")
     \/ std = seen /\ To(w, "read")
  /\ seen' = std
  /\ UNCHANGED <<std, local, cache, netL, netC, memory, fault>>

Launch(w) ==
  /\ step[w] = "off" /\ Cardinality(Running) < MaxRunning
  /\ \/ MayInvalidate /\ To(w, "rmCache")
     \/ std = seen /\ To(w, "read")
  /\ seen' = std
  /\ UNCHANGED <<std, local, cache, netL, netC, memory, fault>>

\* remove_all deletes a directory file by file, in no order one can rely on.
RemoveCache(w) ==
  /\ step[w] = "rmCache"
  /\ \/ cache # {} /\ cache' = {} /\ UNCHANGED <<netC, step>>
     \/ \E u \in FU : /\ netC[u] # "none"
                      /\ netC' = [netC EXCEPT ![u] = "none"]
                      /\ UNCHANGED <<cache, step>>
     \/ /\ cache = {} /\ \A u \in FU : netC[u] = "none"
        /\ To(w, "rmLocal") /\ UNCHANGED <<cache, netC>>
  /\ UNCHANGED <<std, seen, local, netL, memory, fault>>

RemoveLocal(w) ==
  /\ step[w] = "rmLocal"
  /\ \/ local[w] # {} /\ local' = [local EXCEPT ![w] = {}] /\ UNCHANGED <<netL, step>>
     \/ \E u \in FU : /\ netL[w][u] # "none"
                      /\ netL' = [netL EXCEPT ![w][u] = "none"]
                      /\ UNCHANGED <<local, step>>
     \/ /\ local[w] = {} /\ \A u \in FU : netL[w][u] = "none"
        /\ To(w, "read") /\ UNCHANGED <<local, netL>>
  /\ UNCHANGED <<std, seen, cache, netC, memory, fault>>

Forget(w) ==
  /\ To(w, "off")
  /\ at' = [at EXCEPT ![w] = 1]
  /\ op' = [op EXCEPT ![w] = Blank] /\ hit' = [hit EXCEPT ![w] = Blank]
  /\ base' = [base EXCEPT ![w] = 0]

GiveUp(w, reason) ==
  /\ Forget(w) /\ fault' = reason
  /\ UNCHANGED <<std, seen, local, cache, netL, netC>>

BugReadMetrics(w) ==
  /\ step[w] = "read"
  /\ ~Clash(local[w])
  /\ op' = [op EXCEPT ![w] = [u \in Unit |-> ValueIn(local[w], u)]]
  /\ base' = [base EXCEPT ![w] = std]
  /\ To(w, "work")
  /\ UNCHANGED <<std, seen, local, cache, netL, netC, at, hit, fault>>

\* readMetricsFile: two lines for one unit that differ end the run.
ReadMetrics(w) ==
  /\ step[w] = "read"
  /\ ~Clash(local[w]) /\ ~Clash(cache)
  /\ op' = [op EXCEPT ![w] = [u \in Unit |-> ValueIn(local[w], u)]]
  /\ hit' = [hit EXCEPT ![w] = [u \in Unit |-> ValueIn(cache, u)]]
  /\ base' = [base EXCEPT ![w] = std]
  /\ To(w, "work")
  /\ UNCHANGED <<std, seen, local, cache, netL, netC, at, fault>>

ReadClash(w) ==
  /\ step[w] = "read"
  /\ Clash(local[w]) \/ Clash(cache)
  /\ GiveUp(w, "different record")

-----------------------------------------------------------------------------
(* Serving the element the run is at.                                      *)

Wants(w, u) == step[w] = "work" /\ at[w] \in DOMAIN Elements(w) /\ u = Elements(w)[at[w]]

BugServed(w) == at' = [at EXCEPT ![w] = @ + 2]

Served(w) == at' = [at EXCEPT ![w] = @ + 1]

Known(w) ==
  /\ \E u \in Unit : Wants(w, u) /\ op[w][u] # None
  /\ Served(w)
  /\ UNCHANGED <<std, seen, local, cache, netL, netC, step, op, hit, base, fault>>

\* getOrGenCopyMetric and its like never look into the cache.
Derive(w) ==
  /\ \E u \in Copy : /\ Wants(w, u) /\ op[w][u] = None
                     /\ op' = [op EXCEPT ![w][u] = base[w]]
  /\ To(w, "appendLocal")
  /\ UNCHANGED <<std, seen, local, cache, netL, netC, at, hit, base, fault>>

BugFetch(w) ==
  /\ \E u \in FU : Wants(w, u) /\ op[w][u] = None /\ hit[w][u] # None
  /\ To(w, "appendLocal")
  /\ UNCHANGED <<std, seen, local, cache, netL, netC, memory, fault>>

\* getCachedMetric: the netlist is copied before the record is written.
Fetch(w) ==
  /\ \E u \in FU :
       /\ Wants(w, u) /\ op[w][u] = None /\ hit[w][u] # None
       /\ netC[u] # "none"
       /\ netL' = [netL EXCEPT ![w][u] = "torn"]
  /\ To(w, "copying")
  /\ UNCHANGED <<std, seen, local, cache, netC, memory, fault>>

FetchFails(w) ==
  /\ \E u \in FU : /\ Wants(w, u) /\ op[w][u] = None /\ hit[w][u] # None
                   /\ netC[u] = "none"
  /\ GiveUp(w, "no cached netlist")

\* Another run may rewrite the file while it is copied.
Fetched(w) ==
  /\ step[w] = "copying"
  /\ LET u == Elements(w)[at[w]]
     IN  \E f \in {netC[u]} \cup {x \in {"torn"} : Running # {w}} :
           netL' = [netL EXCEPT ![w][u] = f]
  /\ To(w, "appendLocal")
  /\ UNCHANGED <<std, seen, local, cache, netC, memory, fault>>

\* callLogicOptimizer: netlist, its copy in the cache, memory, local record,
\* cached record, in this order.
Optimize(w) ==
  /\ \E u \in FU : /\ Wants(w, u) /\ op[w][u] = None /\ hit[w][u] = None
                   /\ netL' = [netL EXCEPT ![w][u] = "torn"]
  /\ To(w, "optimizing")
  /\ UNCHANGED <<std, seen, local, cache, netC, memory, fault>>

BugOptimized(w) ==
  /\ step[w] = "optimizing"
  /\ netL' = [netL EXCEPT ![w][Elements(w)[at[w]]] = "whole"]
  /\ cache' = cache \cup {[unit |-> Elements(w)[at[w]], val |-> base[w]]}
  /\ To(w, "fill")
  /\ UNCHANGED <<std, seen, local, netC, memory, fault>>

Optimized(w) ==
  /\ step[w] = "optimizing"
  /\ netL' = [netL EXCEPT ![w][Elements(w)[at[w]]] = "whole"]
  /\ To(w, "fill")
  /\ UNCHANGED <<std, seen, local, cache, netC, memory, fault>>

BugFill(w) ==
  /\ step[w] = "fill"
  /\ op' = [op EXCEPT ![w][Elements(w)[at[w]]] = base[w]]
  /\ To(w, "appendLocal")
  /\ UNCHANGED <<std, seen, local, cache, netL, netC, at, hit, base, fault>>

Fill(w) ==
  /\ step[w] = "fill"
  /\ netC' = [netC EXCEPT ![Elements(w)[at[w]]] = "torn"]
  /\ To(w, "filling")
  /\ UNCHANGED <<std, seen, local, cache, netL, memory, fault>>

Filled(w) ==
  /\ step[w] = "filling"
  /\ netC' = [netC EXCEPT ![Elements(w)[at[w]]] = "whole"]
  /\ op' = [op EXCEPT ![w][Elements(w)[at[w]]] = base[w]]
  /\ To(w, "appendLocal")
  /\ UNCHANGED <<std, seen, local, cache, netL, at, hit, base, fault>>

\* A unit fetched from the cache is recorded locally, but not in opMetrics.
AppendLocal(w) ==
  /\ step[w] = "appendLocal"
  /\ LET u == Elements(w)[at[w]]
         fetched == op[w][u] = None
     IN  /\ local' = [local EXCEPT ![w] = @ \cup
                        {[unit |-> u, val |-> IF fetched THEN hit[w][u] ELSE op[w][u]]}]
         /\ \/ fetched /\ To(w, "work") /\ Served(w)
            \/ ~fetched /\ To(w, "appendCache") /\ UNCHANGED at
  /\ UNCHANGED <<std, seen, cache, netL, netC, op, hit, base, fault>>

AppendCache(w) ==
  /\ step[w] = "appendCache"
  /\ LET u == Elements(w)[at[w]] IN cache' = cache \cup {[unit |-> u, val |-> op[w][u]]}
  /\ To(w, "work") /\ Served(w)
  /\ UNCHANGED <<std, seen, local, netL, netC, op, hit, base, fault>>

Finish(w) ==
  /\ step[w] = "work" /\ at[w] \notin DOMAIN Elements(w)
  /\ Forget(w)
  /\ UNCHANGED <<std, seen, local, cache, netL, netC, fault>>

Kill(w) ==
  /\ step[w] # "off" /\ step[w] \in MayKill
  /\ Forget(w)
  /\ UNCHANGED <<std, seen, local, cache, netL, netC, fault>>

\* A new version of the library is installed.
Upgrade ==
  /\ Running = {} /\ std < MaxStd
  /\ std' = std + 1
  /\ UNCHANGED <<seen, local, cache, netL, netC, step, memory, fault>>

Next ==
  \/ Upgrade
  \/ \E w \in Workload :
       \/ Launch(w) \/ RemoveCache(w) \/ RemoveLocal(w) \/ ReadMetrics(w) \/ ReadClash(w)
       \/ Known(w) \/ Derive(w) \/ Fetch(w) \/ FetchFails(w) \/ Fetched(w)
       \/ Optimize(w) \/ Optimized(w) \/ Fill(w) \/ Filled(w)
       \/ AppendLocal(w) \/ AppendCache(w) \/ Finish(w) \/ Kill(w)

Spec == Init /\ [][Next]_vars
-----------------------------------------------------------------------------
StoreTypeOK ==
  /\ std \in Nat /\ seen \in Nat
  /\ local \in [Workload -> SUBSET Record] /\ cache \subseteq Record
  /\ netL \in [Workload -> Files] /\ netC \in Files
  /\ step \in [Workload -> Steps]
  /\ at \in [Workload -> Nat]
  /\ \A w \in Workload : at[w] \in 1 .. Len(Elements(w)) + 1
  /\ op \in [Workload -> Memo] /\ hit \in [Workload -> Memo]
  /\ base \in [Workload -> Nat]
  /\ fault \in {"none", "different record", "no cached netlist"}

NamedOnce(w, u) ==
  \A i, j \in DOMAIN Elements(w) : Elements(w)[i] = u /\ Elements(w)[j] = u => i = j

\* A later run takes the local record of a functional unit as proof that its
\* netlist is there (getOrGenFUMetric looks no further), so whenever a run is
\* killed, what is recorded in customF has a whole netlist beside it.  The
\* exception is a unit the program names twice: a fetch does not put it into
\* opMetrics, so that the second fetch rewrites a recorded netlist.
LocalComplete ==
  \A w \in Workload : step[w] # "rmLocal" =>
    \A r \in local[w] :
      (r.unit \in FU /\ NamedOnce(w, r.unit)) => netL[w][r.unit] = "whole"

\* The same of the cache, which getCachedMetric copies from.
CacheComplete ==
  (\A w \in Workload : step[w] # "rmCache") =>
    \A r \in cache : r.unit \in FU => netC[r.unit] = "whole"

\* No run gives up: neither "We find different metric record" nor "Fail to
\* copy the optimized netlist file from cache" - the store a killed run leaves
\* is never one the next run rejects.
NoFault == fault = "none"

\* While one run at a time is made, the optimizer never works on a functional
\* unit the cache has a record of: a snapshot of the metric files is enough.
OptimizedOnce ==
  [][\A w \in Workload : \A u \in FU :
       (step[w] = "work" /\ step'[w] = "optimizing" /\ Wants(w, u)) =>
         ~Recorded(cache, u) /\ ~Recorded(local[w], u)]_vars

\* Even when -i is killed half way, a recorded netlist is whole or missing: it
\* is never a torn one, which the next run would copy without a word.
NeverTorn ==
  /\ \A w \in Workload : \A r \in local[w] :
       (r.unit \in FU /\ NamedOnce(w, r.unit)) => netL[w][r.unit] # "torn"
  /\ \A r \in cache : r.unit \in FU => netC[r.unit] # "torn"

\* Runs that overlap may tear a netlist another run is reading, but a record
\* still never points to a netlist that does not exist.
RecordedPresent ==
  /\ \A w \in Workload : \A r \in local[w] : r.unit \in FU => netL[w][r.unit] # "none"
  /\ \A r \in cache : r.unit \in FU => netC[r.unit] # "none"
=============================================================================
