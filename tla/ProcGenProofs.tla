--------------------------- MODULE ProcGenProofs ---------------------------
(***************************************************************************)
(* The two walks of ProcGen agree, for every set of channels and every set *)
(* of dataflow bodies: the second never runs out of COPY outputs and gives *)
(* no two reads the same end.                                              *)
(*                                                                         *)
(* A read is a pair <<element, slot>>.  opUses[c] + 1 is the number of     *)
(* reads of c the first walk has passed, copyUses[c] the number of those   *)
(* the second walk has served; the served are among the counted, so a read *)
(* about to be served finds an output left.                                *)
(*                                                                         *)
(* Then what a finished translation has handed out: the numbers of the     *)
(* generated sinks have no gaps, the outputs of a COPY are all read but    *)
(* those the sinks of its channel leave over, and where no sink shares its *)
(* channel the two walks implement Fanout.                                 *)
(***************************************************************************)
EXTENDS ProcGen, FiniteSetTheorems, TLAPS

-----------------------------------------------------------------------------
(* Slots *)

LEMMA SlotFacts ==
  ASSUME NEW e \in Element,
         e.t \in {"split", "merge"} => e.guard \in Chan
  PROVE  /\ CountedSlots(e) \subseteq 0 .. Len(e.in)
         /\ RequestedSlots(e) \subseteq CountedSlots(e)
         /\ e.t # "sink" => RequestedSlots(e) = CountedSlots(e)
         /\ e.t = "sink" => CountedSlots(e) = DOMAIN e.in /\ RequestedSlots(e) = {}
         /\ \A k \in CountedSlots(e) : SlotChan(e, k) \in Chan
         /\ Len(e.in) \in Nat /\ DOMAIN e.in = 1 .. Len(e.in)
<1>1. /\ e.in \in Seq(Chan) /\ Len(e.in) \in Nat /\ DOMAIN e.in = 1 .. Len(e.in)
      /\ e.t \in Kind
  BY DEF Element
<1>2. GuardSlot(e) \subseteq {0} /\ (0 \in GuardSlot(e) <=> e.t \in {"split", "merge"})
  BY DEF GuardSlot
<1>3. /\ CountedSlots(e) \subseteq 0 .. Len(e.in)
      /\ 0 \in CountedSlots(e) => e.t \in {"split", "merge"}
  BY <1>1, <1>2 DEF CountedSlots
<1>4. /\ RequestedSlots(e) \subseteq CountedSlots(e)
      /\ e.t # "sink" => RequestedSlots(e) = CountedSlots(e)
      /\ e.t = "sink" => CountedSlots(e) = DOMAIN e.in /\ RequestedSlots(e) = {}
  BY <1>1, <1>2 DEF CountedSlots, RequestedSlots, Kind
<1>5. \A k \in CountedSlots(e) : SlotChan(e, k) \in Chan
  BY <1>1, <1>3 DEF SlotChan
<1> QED
  BY <1>1, <1>3, <1>4, <1>5

LEMMA HitsFinite ==
  ASSUME NEW e \in Element, NEW S \in SUBSET (0 .. Len(e.in)), NEW c
  PROVE  /\ IsFiniteSet(Hits(e, S, c))
         /\ Cardinality(Hits(e, S, c)) \in Nat
         /\ Cardinality(Hits(e, S, c)) = 0 <=> Hits(e, S, c) = {}
<1>1. Len(e.in) \in Nat
  BY DEF Element
<1>2. IsFiniteSet(0 .. Len(e.in))
  BY <1>1, FS_Interval
<1>3. Hits(e, S, c) \subseteq 0 .. Len(e.in)
  BY DEF Hits
<1>4. IsFiniteSet(Hits(e, S, c))
  BY <1>2, <1>3, FS_Subset
<1> QED
  BY <1>4, FS_CardinalityType, FS_EmptySet

\* An element's worth of reads is as many as the slots that make them.
LEMMA SiteCount ==
  ASSUME NEW i, NEW S, IsFiniteSet(S)
  PROVE  /\ IsFiniteSet({i} \X S)
         /\ Cardinality({i} \X S) = Cardinality(S)
<1>1. IsFiniteSet({i}) /\ Cardinality({i}) = 1
  BY FS_Singleton
<1>2. Cardinality(S) \in Nat
  BY FS_CardinalityType
<1> QED
  BY <1>1, <1>2, FS_Product

LEMMA DisjointUnion ==
  ASSUME NEW S, NEW T, IsFiniteSet(S), IsFiniteSet(T), S \cap T = {}
  PROVE  /\ IsFiniteSet(S \cup T)
         /\ Cardinality(S \cup T) = Cardinality(S) + Cardinality(T)
<1>1. Cardinality(S) \in Nat /\ Cardinality(T) \in Nat
  BY FS_CardinalityType
<1> QED
  BY <1>1, FS_Union, FS_EmptySet

-----------------------------------------------------------------------------
(* Reads *)

\* The reads of c the first walk counts in the elements of q before n, and
\* those among them that ask for a copy in the second.
Counted(q, n, c) ==
  {s \in (1 .. n - 1) \X Nat : s[2] \in Hits(q[s[1]], CountedSlots(q[s[1]]), c)}
Asked(q, n, c) ==
  {s \in (1 .. n - 1) \X Nat : s[2] \in Hits(q[s[1]], RequestedSlots(q[s[1]]), c)}

LEMMA ElementFacts ==
  ASSUME NEW q \in Programs, NEW n \in DOMAIN q
  PROVE  /\ q[n] \in Element
         /\ q[n].t \in {"split", "merge"} => q[n].guard \in Chan
         /\ Len(q) \in Nat /\ DOMAIN q = 1 .. Len(q)
<1>1. q \in Seq(Element)
  BY ProgramsAssumption
<1> QED
  BY <1>1, ProgramsAssumption

LEMMA CountedStep ==
  ASSUME NEW q \in Programs, NEW n \in DOMAIN q, NEW c,
         IsFiniteSet(Counted(q, n, c))
  PROVE  /\ IsFiniteSet(Counted(q, n + 1, c))
         /\ Cardinality(Counted(q, n + 1, c))
              = Cardinality(Counted(q, n, c))
                + Cardinality(Hits(q[n], CountedSlots(q[n]), c))
<1> DEFINE S == Hits(q[n], CountedSlots(q[n]), c)
<1>1. q[n] \in Element /\ CountedSlots(q[n]) \subseteq 0 .. Len(q[n].in)
      /\ Len(q[n].in) \in Nat /\ n \in Nat \ {0}
  BY ElementFacts, SlotFacts
<1>2. IsFiniteSet(S) /\ S \subseteq Nat
  <2>1. S \subseteq CountedSlots(q[n])
    BY DEF Hits
  <2> QED
    BY <1>1, <2>1, HitsFinite
<1>3. Counted(q, n + 1, c) = Counted(q, n, c) \cup ({n} \X S)
  BY <1>1, <1>2 DEF Counted
<1>4. Counted(q, n, c) \cap ({n} \X S) = {}
  BY <1>1 DEF Counted
<1>5. IsFiniteSet({n} \X S) /\ Cardinality({n} \X S) = Cardinality(S)
  BY <1>2, SiteCount
<1> QED
  BY <1>3, <1>4, <1>5, DisjointUnion

LEMMA AskedStep ==
  ASSUME NEW q \in Programs, NEW n \in DOMAIN q, NEW c,
         IsFiniteSet(Asked(q, n, c))
  PROVE  /\ IsFiniteSet(Asked(q, n + 1, c))
         /\ Cardinality(Asked(q, n + 1, c))
              = Cardinality(Asked(q, n, c))
                + Cardinality(Hits(q[n], RequestedSlots(q[n]), c))
<1> DEFINE S == Hits(q[n], RequestedSlots(q[n]), c)
<1>1. q[n] \in Element /\ RequestedSlots(q[n]) \subseteq 0 .. Len(q[n].in)
      /\ Len(q[n].in) \in Nat /\ n \in Nat \ {0}
  BY ElementFacts, SlotFacts
<1>2. IsFiniteSet(S) /\ S \subseteq Nat
  <2>1. S \subseteq RequestedSlots(q[n])
    BY DEF Hits
  <2> QED
    BY <1>1, <2>1, HitsFinite
<1>3. Asked(q, n + 1, c) = Asked(q, n, c) \cup ({n} \X S)
  BY <1>1, <1>2 DEF Asked
<1>4. Asked(q, n, c) \cap ({n} \X S) = {}
  BY <1>1 DEF Asked
<1>5. IsFiniteSet({n} \X S) /\ Cardinality({n} \X S) = Cardinality(S)
  BY <1>2, SiteCount
<1> QED
  BY <1>3, <1>4, <1>5, DisjointUnion

LEMMA SlotIsCounted ==
  ASSUME NEW q \in Programs, NEW i \in DOMAIN q, NEW k \in CountedSlots(q[i])
  PROVE  <<i, k>> \in Counted(q, Len(q) + 1, SlotChan(q[i], k))
<1>1. /\ CountedSlots(q[i]) \subseteq 0 .. Len(q[i].in) /\ Len(q[i].in) \in Nat
      /\ Len(q) \in Nat /\ i \in 1 .. Len(q)
  BY ElementFacts, SlotFacts
<1>2. k \in Nat /\ k \in Hits(q[i], CountedSlots(q[i]), SlotChan(q[i], k))
  BY <1>1 DEF Hits
<1> QED
  BY <1>1, <1>2 DEF Counted

LEMMA NothingBefore ==
  ASSUME NEW q, NEW c
  PROVE  /\ IsFiniteSet(Counted(q, 1, c)) /\ Cardinality(Counted(q, 1, c)) = 0
         /\ IsFiniteSet(Asked(q, 1, c)) /\ Cardinality(Asked(q, 1, c)) = 0
<1>1. Counted(q, 1, c) = {} /\ Asked(q, 1, c) = {}
  BY DEF Counted, Asked
<1> QED
  BY <1>1, FS_EmptySet

\* What is asked for before n, and slot k of n with the slots asked before it,
\* were all counted.
LEMMA AskedIsCounted ==
  ASSUME NEW q \in Programs, NEW n \in DOMAIN q, NEW k \in RequestedSlots(q[n]),
         NEW c, c = SlotChan(q[n], k),
         IsFiniteSet(Counted(q, Len(q) + 1, c)), IsFiniteSet(Asked(q, n, c))
  PROVE  /\ Cardinality(Asked(q, n, c)) + Cardinality(AskedBefore(q[n], k)) + 1
              <= Cardinality(Counted(q, Len(q) + 1, c))
         /\ IsFiniteSet(AskedBefore(q[n], k))
         /\ Cardinality(AskedBefore(q[n], k)) \in Nat
         /\ <<n, k>> \in Counted(q, Len(q) + 1, c)
<1> DEFINE B == AskedBefore(q[n], k)
           H == Hits(q[n], RequestedSlots(q[n]), c)
           All == Counted(q, Len(q) + 1, c)
<1>1. /\ q[n] \in Element /\ RequestedSlots(q[n]) \subseteq CountedSlots(q[n])
      /\ CountedSlots(q[n]) \subseteq 0 .. Len(q[n].in)
      /\ Len(q[n].in) \in Nat /\ Len(q) \in Nat /\ n \in 1 .. Len(q)
  BY ElementFacts, SlotFacts
<1>2. IsFiniteSet(H)
  BY <1>1, HitsFinite
<1>3. B \subseteq H /\ k \in H /\ k \notin B /\ Rank(q[n], k) \in Int
  <2>1. k \in Nat
    BY <1>1
  <2>2. Rank(q[n], k) \in Int
    BY <1>1, <2>1 DEF Rank
  <2> QED
    BY <2>2 DEF AskedBefore, Hits
<1>4. /\ IsFiniteSet(B) /\ IsFiniteSet(B \cup {k})
      /\ Cardinality(B \cup {k}) = Cardinality(B) + 1 /\ Cardinality(B) \in Nat
  <2>1. IsFiniteSet(B)
    BY <1>2, <1>3, FS_Subset
  <2> QED
    BY <1>3, <2>1, FS_AddElement, FS_CardinalityType
<1>5. Asked(q, n, c) \subseteq All
  <2> SUFFICES ASSUME NEW s \in Asked(q, n, c) PROVE s \in All
    OBVIOUS
  <2>1. s \in (1 .. n - 1) \X Nat /\ s[2] \in Hits(q[s[1]], RequestedSlots(q[s[1]]), c)
    BY DEF Asked
  <2>2. s[1] \in DOMAIN q
    BY <1>1, <2>1
  <2>3. RequestedSlots(q[s[1]]) \subseteq CountedSlots(q[s[1]])
    BY <2>2, ElementFacts, SlotFacts
  <2> QED
    BY <1>1, <2>1, <2>3 DEF Counted, Hits
<1>6. {n} \X (B \cup {k}) \subseteq All
  BY <1>1, <1>3 DEF Counted, Hits
<1>7. Asked(q, n, c) \cap ({n} \X (B \cup {k})) = {}
  BY <1>1 DEF Asked
<1>8. /\ IsFiniteSet({n} \X (B \cup {k}))
      /\ Cardinality({n} \X (B \cup {k})) = Cardinality(B) + 1
  BY <1>4, SiteCount
<1>9. Cardinality(Asked(q, n, c) \cup ({n} \X (B \cup {k})))
        = Cardinality(Asked(q, n, c)) + (Cardinality(B) + 1)
  BY <1>7, <1>8, DisjointUnion
<1>10. Cardinality(Asked(q, n, c) \cup ({n} \X (B \cup {k}))) <= Cardinality(All)
  BY <1>5, <1>6, FS_Subset
<1>11. Cardinality(Asked(q, n, c)) \in Nat
  BY FS_CardinalityType
<1>12. <<n, k>> \in All
  BY <1>6
<1> QED
  BY <1>4, <1>9, <1>10, <1>11, <1>12

-----------------------------------------------------------------------------
(* The inductive invariant *)

\* How many elements the first walk has passed.
Passed == IF phase = "collect" THEN pos ELSE Len(prog) + 1

\* opUses counts the reads passed; a channel no read names is not in the map.
CountInv ==
  phase \in {"collect", "emit", "done"} =>
    \A c \in Chan :
      /\ IsFiniteSet(Counted(prog, Passed, c))
      /\ Cardinality(Counted(prog, Passed, c)) = UsesBefore(c) + 1

\* copyUses counts the reads served, once there is a COPY to serve them.
ServeInv ==
  /\ phase = "collect" => readers = {} /\ \A c \in DOMAIN copyUses : copyUses[c] = 0
  /\ phase \in {"emit", "done"} =>
       \A c \in Chan :
         /\ IsFiniteSet(Asked(prog, pos, c))
         /\ c \in DOMAIN opUses /\ opUses[c] > 0 =>
              copyUses[c] = Cardinality(Asked(prog, pos, c))

CopiesInv ==
  phase \in {"emit", "done"} =>
    /\ DOMAIN copies = {c \in DOMAIN opUses : opUses[c] > 0}
    /\ \A c \in DOMAIN copies : copies[c] = opUses[c] + 1

\* A read is held by a counted slot of a passed element and, if a COPY serves
\* it, by an output already handed out.
ReaderInv ==
  phase \in {"emit", "done", "abort"} =>
    \A r \in readers :
      /\ r.elem \in DOMAIN prog
      /\ phase # "abort" => r.elem < pos
      /\ r.slot \in CountedSlots(prog[r.elem])
      /\ r.at.chan = SlotChan(prog[r.elem], r.slot)
      /\ r.at.chan \in DOMAIN opUses
      /\ IF prog[r.elem].t # "sink" /\ opUses[r.at.chan] > 0
         THEN r.at.out \in 0 .. copyUses[r.at.chan] - 1
         ELSE r.at.out = Direct

IInv ==
  /\ prog \in Programs
  /\ TypeOK
  /\ CountInv /\ ServeInv /\ CopiesInv /\ ReaderInv
  /\ NeverOverused /\ OneReader /\ EndpointExists

-----------------------------------------------------------------------------
(* The first walk *)

LEMMA CollectCounts ==
  ASSUME IInv, CollectElement
  PROVE  CountInv' /\ opUses' \in [DOMAIN opUses' -> Nat] /\ DOMAIN opUses' \subseteq Chan
         /\ DOMAIN copyUses' = DOMAIN opUses'
<1> DEFINE e == prog[pos]
           read == {SlotChan(e, k) : k \in CountedSlots(e)}
<1>1. /\ prog \in Programs /\ pos \in DOMAIN prog /\ phase = "collect"
      /\ prog' = prog /\ phase' = phase /\ pos' = pos + 1
  BY DEF IInv, CollectElement, At
<1>2. /\ e \in Element /\ CountedSlots(e) \subseteq 0 .. Len(e.in)
      /\ read \subseteq Chan
  BY <1>1, ElementFacts, SlotFacts
<1>3. /\ opUses' = [c \in DOMAIN opUses \cup read |->
                      UsesBefore(c) + Cardinality(Hits(e, CountedSlots(e), c))]
      /\ copyUses' = [c \in DOMAIN opUses \cup read |-> 0]
  BY DEF CollectElement
<1>4. ASSUME NEW c \in Chan
      PROVE  /\ Cardinality(Hits(e, CountedSlots(e), c)) \in Nat
             /\ c \in read <=> Cardinality(Hits(e, CountedSlots(e), c)) # 0
  <2>1. /\ Cardinality(Hits(e, CountedSlots(e), c)) \in Nat
        /\ Cardinality(Hits(e, CountedSlots(e), c)) = 0
             <=> Hits(e, CountedSlots(e), c) = {}
    BY <1>2, HitsFinite
  <2>2. c \in read <=> Hits(e, CountedSlots(e), c) # {}
    BY DEF Hits
  <2> QED
    BY <2>1, <2>2
<1>5. /\ DOMAIN opUses \subseteq Chan /\ opUses \in [DOMAIN opUses -> Nat]
  BY DEF IInv, TypeOK
<1>6. \A c \in Chan : UsesBefore(c) \in Nat \cup {-1} /\ (c \in DOMAIN opUses <=> UsesBefore(c) # -1)
  BY <1>5 DEF UsesBefore
<1>7. opUses' \in [DOMAIN opUses' -> Nat] /\ DOMAIN opUses' \subseteq Chan
      /\ DOMAIN copyUses' = DOMAIN opUses'
  BY <1>2, <1>3, <1>4, <1>5, <1>6
<1>8. ASSUME NEW c \in Chan
      PROVE  UsesBefore(c)' = UsesBefore(c) + Cardinality(Hits(e, CountedSlots(e), c))
  BY <1>3, <1>4, <1>6 DEF UsesBefore
<1>9. ASSUME NEW c \in Chan
      PROVE  /\ IsFiniteSet(Counted(prog, pos + 1, c))
             /\ Cardinality(Counted(prog, pos + 1, c)) = UsesBefore(c)' + 1
  <2>1. /\ IsFiniteSet(Counted(prog, pos, c))
        /\ Cardinality(Counted(prog, pos, c)) = UsesBefore(c) + 1
    BY <1>1 DEF IInv, CountInv, Passed
  <2>2. /\ IsFiniteSet(Counted(prog, pos + 1, c))
        /\ Cardinality(Counted(prog, pos + 1, c)) = Cardinality(Counted(prog, pos, c))
             + Cardinality(Hits(e, CountedSlots(e), c))
    BY <1>1, <2>1, CountedStep
  <2> QED
    BY <1>4, <1>6, <1>8, <2>1, <2>2
<1>10. CountInv'
  BY <1>1, <1>9 DEF CountInv, Passed
<1> QED
  BY <1>7, <1>10

-----------------------------------------------------------------------------
(* The second walk *)

\* Slots of one element that read the same channel get different outputs, all
\* below the count the element leaves behind.
LEMMA IndexInjective ==
  ASSUME NEW e \in Element,
         e.t \in {"split", "merge"} => e.guard \in Chan,
         NEW k \in RequestedSlots(e)
  PROVE  /\ Cardinality(AskedBefore(e, k)) \in Nat
         /\ Cardinality(AskedBefore(e, k))
              < Cardinality(Hits(e, RequestedSlots(e), SlotChan(e, k)))
         /\ \A j \in RequestedSlots(e) :
              (SlotChan(e, j) = SlotChan(e, k) /\ j # k) =>
                Cardinality(AskedBefore(e, j)) # Cardinality(AskedBefore(e, k))
<1> DEFINE H == Hits(e, RequestedSlots(e), SlotChan(e, k))
<1>1. /\ RequestedSlots(e) \subseteq 0 .. Len(e.in) /\ Len(e.in) \in Nat
  BY SlotFacts
<1>2. IsFiniteSet(H)
  BY <1>1, HitsFinite
<1>3. ASSUME NEW i \in RequestedSlots(e), SlotChan(e, i) = SlotChan(e, k)
      PROVE  /\ AskedBefore(e, i) = {j \in H : Rank(e, j) < Rank(e, i)}
             /\ i \in H
             /\ IsFiniteSet(AskedBefore(e, i))
             /\ Cardinality(AskedBefore(e, i)) \in Nat
  <2>1. AskedBefore(e, i) = {j \in H : Rank(e, j) < Rank(e, i)} /\ i \in H
    BY <1>3 DEF AskedBefore, Hits
  <2>2. IsFiniteSet(AskedBefore(e, i))
    BY <1>2, <2>1, FS_Subset
  <2> QED
    BY <2>1, <2>2, FS_CardinalityType
<1>4. /\ \A i \in H : Rank(e, i) \in Int
      /\ \A i, j \in H : i # j => Rank(e, i) # Rank(e, j)
  BY <1>1 DEF Rank, Hits
<1>5. ASSUME NEW i \in H, NEW j \in H, Rank(e, i) < Rank(e, j)
      PROVE  Cardinality(AskedBefore(e, i)) < Cardinality(AskedBefore(e, j))
  <2>1. /\ i \in RequestedSlots(e) /\ j \in RequestedSlots(e)
        /\ SlotChan(e, i) = SlotChan(e, k) /\ SlotChan(e, j) = SlotChan(e, k)
    BY DEF Hits
  <2>2. /\ IsFiniteSet(AskedBefore(e, i)) /\ IsFiniteSet(AskedBefore(e, j))
        /\ Cardinality(AskedBefore(e, i)) \in Nat /\ Cardinality(AskedBefore(e, j)) \in Nat
    BY <1>3, <2>1
  <2>3. AskedBefore(e, i) \cup {i} \subseteq AskedBefore(e, j) /\ i \notin AskedBefore(e, i)
    BY <1>3, <1>4, <1>5, <2>1
  <2>4. Cardinality(AskedBefore(e, i) \cup {i}) = Cardinality(AskedBefore(e, i)) + 1
    BY <2>2, <2>3, FS_AddElement
  <2>5. Cardinality(AskedBefore(e, i) \cup {i}) <= Cardinality(AskedBefore(e, j))
    BY <2>2, <2>3, FS_Subset
  <2> QED
    BY <2>2, <2>4, <2>5
<1>6. Cardinality(AskedBefore(e, k)) < Cardinality(H)
  <2>1. /\ AskedBefore(e, k) \cup {k} \subseteq H /\ k \notin AskedBefore(e, k)
        /\ IsFiniteSet(AskedBefore(e, k)) /\ Cardinality(AskedBefore(e, k)) \in Nat
    BY <1>3, <1>4
  <2>2. Cardinality(AskedBefore(e, k) \cup {k}) = Cardinality(AskedBefore(e, k)) + 1
    BY <2>1, FS_AddElement
  <2>3. Cardinality(AskedBefore(e, k) \cup {k}) <= Cardinality(H)
    BY <1>2, <2>1, FS_Subset
  <2>4. Cardinality(H) \in Nat
    BY <1>2, FS_CardinalityType
  <2> QED
    BY <2>1, <2>2, <2>3, <2>4
<1>7. ASSUME NEW j \in RequestedSlots(e), SlotChan(e, j) = SlotChan(e, k), j # k
      PROVE  Cardinality(AskedBefore(e, j)) # Cardinality(AskedBefore(e, k))
  <2>1. /\ j \in H /\ k \in H
        /\ Cardinality(AskedBefore(e, j)) \in Nat /\ Cardinality(AskedBefore(e, k)) \in Nat
    BY <1>3, <1>7
  <2>2. Rank(e, j) < Rank(e, k) \/ Rank(e, k) < Rank(e, j)
    BY <1>4, <1>7, <2>1
  <2> QED
    BY <1>5, <2>1, <2>2
<1> QED
  BY <1>3, <1>6, <1>7

\* A request of the element at hand finds its channel counted and an output
\* left; if no COPY was made, it is the only read there is.
LEMMA RequestFacts ==
  ASSUME IInv, At("emit"),
         NEW k \in RequestedSlots(prog[pos]),
         NEW c, c = SlotChan(prog[pos], k)
  PROVE  /\ c \in Chan /\ c \in DOMAIN opUses
         /\ opUses[c] \in Nat /\ copyUses[c] \in Nat
         /\ opUses[c] > 0 => /\ CopyIndex(prog[pos], k) >= copyUses[c]
                             /\ CopyIndex(prog[pos], k) <= opUses[c]
                             /\ CopyIndex(prog[pos], k) \in Nat
         /\ opUses[c] = 0 => Counted(prog, Len(prog) + 1, c) = {<<pos, k>>}
<1>1. prog \in Programs /\ pos \in DOMAIN prog /\ phase = "emit"
  BY DEF IInv, At
<1>2. /\ prog[pos] \in Element /\ k \in CountedSlots(prog[pos]) /\ c \in Chan
  BY <1>1, ElementFacts, SlotFacts
<1>3. /\ IsFiniteSet(Counted(prog, Len(prog) + 1, c))
      /\ Cardinality(Counted(prog, Len(prog) + 1, c)) = UsesBefore(c) + 1
      /\ IsFiniteSet(Asked(prog, pos, c))
      /\ c \in DOMAIN opUses /\ opUses[c] > 0 =>
           copyUses[c] = Cardinality(Asked(prog, pos, c))
  BY <1>1, <1>2 DEF IInv, CountInv, ServeInv, Passed
<1>4. /\ Cardinality(Asked(prog, pos, c)) + Cardinality(AskedBefore(prog[pos], k)) + 1
           <= Cardinality(Counted(prog, Len(prog) + 1, c))
      /\ Cardinality(AskedBefore(prog[pos], k)) \in Nat
      /\ <<pos, k>> \in Counted(prog, Len(prog) + 1, c)
  BY <1>1, <1>3, AskedIsCounted
<1>5. Cardinality(Asked(prog, pos, c)) \in Nat
  BY <1>3, FS_CardinalityType
<1>6. c \in DOMAIN opUses
  BY <1>3, <1>4, <1>5 DEF UsesBefore
<1>7. opUses[c] \in Nat /\ copyUses[c] \in Nat /\ UsesBefore(c) = opUses[c]
  BY <1>6 DEF IInv, TypeOK, UsesBefore
<1>8. opUses[c] > 0 => /\ CopyIndex(prog[pos], k) >= copyUses[c]
                       /\ CopyIndex(prog[pos], k) <= opUses[c]
                       /\ CopyIndex(prog[pos], k) \in Nat
  BY <1>3, <1>4, <1>5, <1>6, <1>7 DEF CopyIndex
<1>9. ASSUME opUses[c] = 0
      PROVE  Counted(prog, Len(prog) + 1, c) = {<<pos, k>>}
  <2>1. Cardinality(Counted(prog, Len(prog) + 1, c)) = 1
    BY <1>3, <1>7, <1>9
  <2>2. PICK x : Counted(prog, Len(prog) + 1, c) = {x}
    BY <1>3, <2>1, FS_Singleton
  <2> QED
    BY <1>4, <2>2
<1> QED
  BY <1>2, <1>6, <1>7, <1>8, <1>9

LEMMA ServeStep ==
  ASSUME IInv, At("emit"), prog[pos].t # "sink", Serve(prog[pos])
  PROVE  /\ CountInv' /\ ServeInv' /\ CopiesInv' /\ ReaderInv'
         /\ OneReader' /\ EndpointExists'
         /\ readers' \subseteq [elem : Nat, slot : Nat, at : Endpoint]
         /\ copyUses' \in [DOMAIN opUses -> Nat]
<1> DEFINE e == prog[pos]
           new == {[elem |-> pos, slot |-> k, at |-> Allotted(e, k)] : k \in RequestedSlots(e)}
<1>1. /\ prog \in Programs /\ pos \in DOMAIN prog /\ phase = "emit"
      /\ prog' = prog /\ phase' = phase /\ pos' = pos + 1 /\ why' = why
      /\ opUses' = opUses /\ copies' = copies
      /\ readers' = readers \cup new
      /\ copyUses' = [c \in DOMAIN copyUses |->
                        IF opUses[c] > 0
                        THEN copyUses[c] + Cardinality(Hits(e, RequestedSlots(e), c))
                        ELSE copyUses[c]]
  BY DEF IInv, At, Serve
<1>2. /\ e \in Element /\ RequestedSlots(e) \subseteq CountedSlots(e)
      /\ RequestedSlots(e) \subseteq Nat /\ Len(prog) \in Nat /\ pos \in 1 .. Len(prog)
      /\ DOMAIN prog = 1 .. Len(prog)
      /\ RequestedSlots(e) \subseteq 0 .. Len(e.in)
      /\ e.t \in {"split", "merge"} => e.guard \in Chan
  BY <1>1, ElementFacts, SlotFacts
<1>3. /\ DOMAIN opUses \subseteq Chan /\ opUses \in [DOMAIN opUses -> Nat]
      /\ copyUses \in [DOMAIN opUses -> Nat]
      /\ readers \subseteq [elem : Nat, slot : Nat, at : Endpoint]
  BY DEF IInv, TypeOK
<1>4. \A c \in Chan : Cardinality(Hits(e, RequestedSlots(e), c)) \in Nat
  BY <1>2, HitsFinite
<1>5. /\ copyUses' \in [DOMAIN opUses -> Nat]
      /\ \A c \in DOMAIN opUses : copyUses'[c] >= copyUses[c]
  BY <1>1, <1>3, <1>4
<1>6. CountInv'
  BY <1>1 DEF IInv, CountInv, Passed, UsesBefore
<1>7. ServeInv'
  <2> SUFFICES ASSUME NEW c \in Chan
               PROVE  /\ IsFiniteSet(Asked(prog, pos + 1, c))
                      /\ c \in DOMAIN opUses /\ opUses[c] > 0 =>
                           copyUses'[c] = Cardinality(Asked(prog, pos + 1, c))
    BY <1>1 DEF ServeInv
  <2>1. /\ IsFiniteSet(Asked(prog, pos, c))
        /\ c \in DOMAIN opUses /\ opUses[c] > 0 =>
             copyUses[c] = Cardinality(Asked(prog, pos, c))
    BY <1>1 DEF IInv, ServeInv
  <2>2. /\ IsFiniteSet(Asked(prog, pos + 1, c))
        /\ Cardinality(Asked(prog, pos + 1, c)) = Cardinality(Asked(prog, pos, c))
             + Cardinality(Hits(e, RequestedSlots(e), c))
    BY <1>1, <2>1, AskedStep
  <2> QED
    BY <1>1, <1>3, <2>1, <2>2
<1>8. CopiesInv'
  BY <1>1 DEF IInv, CopiesInv
\* What a request is given.
<1>9. ASSUME NEW k \in RequestedSlots(e)
      PROVE  LET c == SlotChan(e, k)
             IN  /\ c \in Chan /\ c \in DOMAIN opUses
                 /\ Allotted(e, k) \in Endpoint /\ Allotted(e, k).chan = c
                 /\ IF opUses[c] > 0
                    THEN /\ Allotted(e, k).out = CopyIndex(e, k)
                         /\ Allotted(e, k).out >= copyUses[c]
                         /\ Allotted(e, k).out <= opUses[c]
                         /\ Allotted(e, k).out < copyUses'[c]
                         /\ Allotted(e, k).out \in Nat
                    ELSE Allotted(e, k).out = Direct
  <2> DEFINE c == SlotChan(e, k)
  <2>1. /\ c \in Chan /\ c \in DOMAIN opUses
        /\ opUses[c] \in Nat /\ copyUses[c] \in Nat
        /\ opUses[c] > 0 => /\ CopyIndex(e, k) >= copyUses[c]
                            /\ CopyIndex(e, k) <= opUses[c]
                            /\ CopyIndex(e, k) \in Nat
    BY RequestFacts
  <2>2. /\ Cardinality(AskedBefore(e, k)) \in Nat
        /\ Cardinality(AskedBefore(e, k)) < Cardinality(Hits(e, RequestedSlots(e), c))
    BY <1>2, IndexInjective
  <2>3. opUses[c] > 0 => CopyIndex(e, k) < copyUses'[c]
    BY <1>1, <1>3, <1>4, <2>1, <2>2 DEF CopyIndex
  <2> QED
    BY <2>1, <2>3 DEF Allotted, Endpoint, Direct
<1>10. readers' \subseteq [elem : Nat, slot : Nat, at : Endpoint]
  <2>1. ASSUME NEW k \in RequestedSlots(e)
        PROVE  [elem |-> pos, slot |-> k, at |-> Allotted(e, k)]
                 \in [elem : Nat, slot : Nat, at : Endpoint]
    <3>1. Allotted(e, k) \in Endpoint /\ pos \in Nat /\ k \in Nat
      BY <1>2, <1>9
    <3> QED
      BY <3>1
  <2>2. new \subseteq [elem : Nat, slot : Nat, at : Endpoint]
    BY <2>1
  <2> QED
    BY <1>1, <1>3, <2>2
<1>11. ReaderInv'
  <2> SUFFICES ASSUME NEW r \in readers'
               PROVE  /\ r.elem \in DOMAIN prog
                      /\ r.elem < pos + 1
                      /\ r.slot \in CountedSlots(prog[r.elem])
                      /\ r.at.chan = SlotChan(prog[r.elem], r.slot)
                      /\ r.at.chan \in DOMAIN opUses
                      /\ IF prog[r.elem].t # "sink" /\ opUses[r.at.chan] > 0
                         THEN r.at.out \in 0 .. copyUses'[r.at.chan] - 1
                         ELSE r.at.out = Direct
    BY <1>1 DEF ReaderInv
  <2>1. CASE r \in readers
    <3>1. /\ r.elem \in DOMAIN prog /\ r.elem < pos
          /\ r.slot \in CountedSlots(prog[r.elem])
          /\ r.at.chan = SlotChan(prog[r.elem], r.slot)
          /\ r.at.chan \in DOMAIN opUses
          /\ IF prog[r.elem].t # "sink" /\ opUses[r.at.chan] > 0
             THEN r.at.out \in 0 .. copyUses[r.at.chan] - 1
             ELSE r.at.out = Direct
      BY <1>1, <2>1 DEF IInv, ReaderInv
    <3>2. r.elem \in Nat /\ copyUses[r.at.chan] \in Nat /\ copyUses'[r.at.chan] \in Nat
          /\ copyUses'[r.at.chan] >= copyUses[r.at.chan]
      BY <1>3, <1>5, <2>1, <3>1
    <3> QED
      BY <1>2, <3>1, <3>2
  <2>2. CASE r \in new
    <3>1. PICK k \in RequestedSlots(e) :
            r = [elem |-> pos, slot |-> k, at |-> Allotted(e, k)]
      BY <2>2
    <3>2. copyUses'[SlotChan(e, k)] \in Nat
      BY <1>5, <1>9
    <3>3. r.elem = pos /\ r.slot = k /\ r.at = Allotted(e, k)
      BY <3>1
    <3>4. /\ pos \in DOMAIN prog /\ pos < pos + 1 /\ prog[pos] = e
          /\ k \in CountedSlots(e) /\ SlotChan(e, k) \in DOMAIN opUses
      BY <1>1, <1>2, <1>9
    <3>5. /\ Allotted(e, k).chan = SlotChan(e, k)
          /\ IF e.t # "sink" /\ opUses[SlotChan(e, k)] > 0
             THEN Allotted(e, k).out \in 0 .. copyUses'[SlotChan(e, k)] - 1
             ELSE Allotted(e, k).out = Direct
      <4>1. PICK c : c = SlotChan(e, k)
        OBVIOUS
      <4>2. /\ Allotted(e, k).chan = c
            /\ opUses[c] > 0 => /\ Allotted(e, k).out < copyUses'[c]
                                /\ Allotted(e, k).out \in Nat
            /\ ~(opUses[c] > 0) => Allotted(e, k).out = Direct
        BY <1>9, <4>1
      <4>3. \A a, b \in Nat : a < b => a \in 0 .. b - 1
        OBVIOUS
      <4>4. opUses[c] > 0 => Allotted(e, k).out \in 0 .. copyUses'[c] - 1
        BY ONLY <3>2, <4>1, <4>2, <4>3
      <4>5. e.t # "sink"
        BY <1>1
      <4> QED
        BY ONLY <4>1, <4>2, <4>4, <4>5
    <3> QED
      BY ONLY <3>3, <3>4, <3>5
  <2> QED
    BY <1>1, <2>1, <2>2
<1>12. OneReader'
  <2> SUFFICES ASSUME NEW r \in readers', prog[r.elem].t # "sink"
               PROVE  /\ r.at.chan \in DOMAIN copies => r.at.out # Direct
                      /\ \A s \in readers' : s.at = r.at => s = r
    BY <1>1 DEF OneReader
  <2>1. \A c \in DOMAIN copies : opUses[c] > 0
    BY <1>1 DEF IInv, CopiesInv
  <2>2. /\ r.elem \in DOMAIN prog /\ r.elem < pos + 1
        /\ r.slot \in CountedSlots(prog[r.elem])
        /\ r.at.chan = SlotChan(prog[r.elem], r.slot)
        /\ r.at.chan \in DOMAIN opUses
        /\ IF opUses[r.at.chan] > 0
           THEN r.at.out \in 0 .. copyUses'[r.at.chan] - 1
           ELSE r.at.out = Direct
    BY <1>1, <1>11 DEF ReaderInv
  <2>3. r.at.chan \in DOMAIN copies => r.at.out # Direct
    <3>1. copyUses'[r.at.chan] \in Nat
      BY <1>5, <2>2
    <3> QED
      BY <2>1, <2>2, <3>1 DEF Direct
  <2>4. ASSUME NEW s \in readers', s.at = r.at
        PROVE  s = r
    <3>1. /\ s.elem \in DOMAIN prog /\ s.elem < pos + 1
          /\ s.slot \in CountedSlots(prog[s.elem])
          /\ s.at.chan = SlotChan(prog[s.elem], s.slot)
          /\ IF prog[s.elem].t # "sink" /\ opUses[s.at.chan] > 0
             THEN s.at.out \in 0 .. copyUses'[s.at.chan] - 1
             ELSE s.at.out = Direct
      BY <1>1, <1>11 DEF ReaderInv
    <3>2. r \in [elem : Nat, slot : Nat, at : Endpoint]
          /\ s \in [elem : Nat, slot : Nat, at : Endpoint]
      BY <1>10
    <3>3. SUFFICES s.elem = r.elem /\ s.slot = r.slot
      BY <2>4, <3>2
    <3>4. CASE opUses[r.at.chan] = 0
      <4>1. <<r.elem, r.slot>> \in Counted(prog, Len(prog) + 1, r.at.chan)
            /\ <<s.elem, s.slot>> \in Counted(prog, Len(prog) + 1, r.at.chan)
        BY <1>1, <2>2, <2>4, <3>1, SlotIsCounted
      <4>2. Cardinality(Counted(prog, Len(prog) + 1, r.at.chan)) = 1
            /\ IsFiniteSet(Counted(prog, Len(prog) + 1, r.at.chan))
        BY <1>1, <1>3, <2>2, <3>4 DEF IInv, CountInv, Passed, UsesBefore
      <4>3. PICK x : Counted(prog, Len(prog) + 1, r.at.chan) = {x}
        BY <4>2, FS_Singleton
      <4> QED
        BY <4>1, <4>3
    <3>5. CASE opUses[r.at.chan] > 0
      <4>1. prog[s.elem].t # "sink" /\ r.at.out # Direct
        <5>1. copyUses'[r.at.chan] \in Nat
          BY <1>5, <2>2
        <5> QED
          BY <2>2, <2>4, <3>1, <3>5, <5>1 DEF Direct
      <4>2. CASE r \in readers /\ s \in readers
        BY <2>4, <4>2 DEF IInv, OneReader
      <4>3. CASE r \in readers /\ s \in new
        <5>1. r.at.out \in 0 .. copyUses[r.at.chan] - 1
          BY <1>1, <3>5, <4>3 DEF IInv, ReaderInv
        <5>2. s.at.out >= copyUses[s.at.chan] /\ copyUses[s.at.chan] \in Nat
          BY <1>3, <1>9, <2>4, <3>5, <4>3
        <5> QED
          BY <2>4, <5>1, <5>2
      <4>4. CASE r \in new /\ s \in readers
        <5>1. s.at.out \in 0 .. copyUses[s.at.chan] - 1
          BY <1>1, <2>4, <3>5, <4>1, <4>4 DEF IInv, ReaderInv
        <5>2. r.at.out >= copyUses[r.at.chan] /\ copyUses[r.at.chan] \in Nat
          BY <1>3, <1>9, <3>5, <4>4
        <5> QED
          BY <2>4, <5>1, <5>2
      <4>5. CASE r \in new /\ s \in new
        <5>1. PICK k \in RequestedSlots(e) :
                r = [elem |-> pos, slot |-> k, at |-> Allotted(e, k)]
          BY <4>5
        <5>2. PICK j \in RequestedSlots(e) :
                s = [elem |-> pos, slot |-> j, at |-> Allotted(e, j)]
          BY <4>5
        <5>3. SlotChan(e, j) = SlotChan(e, k) /\ CopyIndex(e, j) = CopyIndex(e, k)
          BY <1>9, <2>4, <3>5, <5>1, <5>2
        <5>4. /\ Cardinality(AskedBefore(e, j)) \in Nat
              /\ Cardinality(AskedBefore(e, k)) \in Nat
              /\ j # k => Cardinality(AskedBefore(e, j)) # Cardinality(AskedBefore(e, k))
          BY <1>2, <5>3, IndexInjective
        <5>5. copyUses[SlotChan(e, k)] \in Nat
          BY <1>3, <1>9
        <5> QED
          BY <5>1, <5>2, <5>3, <5>4, <5>5 DEF CopyIndex
      <4> QED
        BY <1>1, <4>2, <4>3, <4>4, <4>5
    <3>6. opUses[r.at.chan] \in Nat
      BY <1>3, <2>2
    <3> QED
      BY <3>4, <3>5, <3>6
  <2> QED
    BY <2>3, <2>4
<1>13. EndpointExists'
  <2> SUFFICES ASSUME NEW r \in readers', r.at.out # Direct
               PROVE  r.at.chan \in DOMAIN copies /\ r.at.out \in 0 .. copies[r.at.chan] - 1
    BY <1>1 DEF EndpointExists
  <2>1. CASE r \in readers
    BY <2>1 DEF IInv, EndpointExists
  <2>2. CASE r \in new
    <3>1. PICK k \in RequestedSlots(e) :
            r = [elem |-> pos, slot |-> k, at |-> Allotted(e, k)]
      BY <2>2
    <3>2. /\ opUses[r.at.chan] > 0 /\ r.at.out <= opUses[r.at.chan] /\ r.at.out \in Nat
          /\ r.at.chan \in DOMAIN opUses
      BY <1>9, <3>1
    <3>3. r.at.chan \in DOMAIN copies /\ copies[r.at.chan] = opUses[r.at.chan] + 1
      BY <1>1, <3>2 DEF IInv, CopiesInv
    <3> QED
      BY <1>3, <3>2, <3>3
  <2> QED
    BY <1>1, <2>1, <2>2
<1> QED
  BY <1>5, <1>6, <1>7, <1>8, <1>10, <1>11, <1>12, <1>13

LEMMA SinkStep ==
  ASSUME IInv, EmitSink
  PROVE  /\ CountInv' /\ ServeInv' /\ CopiesInv' /\ ReaderInv'
         /\ OneReader' /\ EndpointExists'
         /\ readers' \subseteq [elem : Nat, slot : Nat, at : Endpoint]
<1> DEFINE e == prog[pos]
           new == {[elem |-> pos, slot |-> k, at |-> [chan |-> e.in[k], out |-> Direct]]
                     : k \in DOMAIN e.in}
<1>1. /\ prog \in Programs /\ pos \in DOMAIN prog /\ phase = "emit" /\ e.t = "sink"
      /\ prog' = prog /\ phase' = phase /\ pos' = pos + 1
      /\ opUses' = opUses /\ copyUses' = copyUses /\ copies' = copies
      /\ readers' = readers \cup new
  BY DEF IInv, At, EmitSink
<1>2. /\ e \in Element /\ CountedSlots(e) = DOMAIN e.in /\ RequestedSlots(e) = {}
      /\ DOMAIN e.in = 1 .. Len(e.in) /\ Len(e.in) \in Nat
      /\ \A k \in DOMAIN e.in : SlotChan(e, k) = e.in[k] /\ e.in[k] \in Chan
      /\ Len(prog) \in Nat /\ DOMAIN prog = 1 .. Len(prog)
  BY <1>1, ElementFacts, SlotFacts DEF SlotChan
<1>3. CountInv' /\ CopiesInv'
  BY <1>1 DEF IInv, CountInv, CopiesInv, Passed, UsesBefore
<1>4. ServeInv'
  <2> SUFFICES ASSUME NEW c \in Chan
               PROVE  /\ IsFiniteSet(Asked(prog, pos + 1, c))
                      /\ c \in DOMAIN opUses /\ opUses[c] > 0 =>
                           copyUses[c] = Cardinality(Asked(prog, pos + 1, c))
    BY <1>1 DEF ServeInv
  <2>1. /\ IsFiniteSet(Asked(prog, pos, c))
        /\ c \in DOMAIN opUses /\ opUses[c] > 0 =>
             copyUses[c] = Cardinality(Asked(prog, pos, c))
    BY <1>1 DEF IInv, ServeInv
  <2>2. /\ IsFiniteSet(Asked(prog, pos + 1, c))
        /\ Cardinality(Asked(prog, pos + 1, c)) = Cardinality(Asked(prog, pos, c))
             + Cardinality(Hits(e, RequestedSlots(e), c))
    BY <1>1, <2>1, AskedStep
  <2>3. Cardinality(Hits(e, RequestedSlots(e), c)) = 0
    <3>1. Hits(e, RequestedSlots(e), c) = {}
      BY <1>2 DEF Hits
    <3> QED
      BY <3>1, FS_EmptySet
  <2>4. Cardinality(Asked(prog, pos, c)) \in Nat
    BY <2>1, FS_CardinalityType
  <2> QED
    BY <2>1, <2>2, <2>3, <2>4
<1>5. ASSUME NEW r \in new
      PROVE  /\ r \in [elem : Nat, slot : Nat, at : Endpoint]
             /\ r.elem = pos /\ r.at.out = Direct
             /\ r.slot \in CountedSlots(e) /\ r.at.chan = SlotChan(e, r.slot)
  <2>1. PICK k \in DOMAIN e.in :
          r = [elem |-> pos, slot |-> k, at |-> [chan |-> e.in[k], out |-> Direct]]
    OBVIOUS
  <2>2. /\ e.in[k] \in Chan /\ k \in Nat /\ k \in CountedSlots(e) /\ pos \in Nat
        /\ SlotChan(e, k) = e.in[k]
    BY <1>1, <1>2
  <2> QED
    BY <2>1, <2>2 DEF Endpoint, Direct
<1>6. readers' \subseteq [elem : Nat, slot : Nat, at : Endpoint]
  BY <1>1, <1>5 DEF IInv, TypeOK
\* Every channel a passed slot reads is in the map of uses.
<1>7. ASSUME NEW i \in DOMAIN prog, NEW k \in CountedSlots(prog[i]), NEW c,
             c = SlotChan(prog[i], k)
      PROVE  /\ c \in Chan /\ c \in DOMAIN opUses /\ opUses[c] \in Nat
             /\ opUses[c] = 0 => Counted(prog, Len(prog) + 1, c) = {<<i, k>>}
  <2>1. c \in Chan
    BY <1>1, <1>7, ElementFacts, SlotFacts
  <2>2. /\ IsFiniteSet(Counted(prog, Len(prog) + 1, c))
        /\ Cardinality(Counted(prog, Len(prog) + 1, c)) = UsesBefore(c) + 1
    BY <1>1, <2>1 DEF IInv, CountInv, Passed
  <2>3. <<i, k>> \in Counted(prog, Len(prog) + 1, c)
    BY <1>1, <1>7, SlotIsCounted
  <2>4. Cardinality(Counted(prog, Len(prog) + 1, c)) # 0
    BY <2>2, <2>3, FS_EmptySet
  <2>5. c \in DOMAIN opUses
    BY <2>2, <2>4 DEF UsesBefore
  <2>6. opUses[c] \in Nat /\ UsesBefore(c) = opUses[c]
    BY <2>5 DEF IInv, TypeOK, UsesBefore
  <2>7. ASSUME opUses[c] = 0
        PROVE  Counted(prog, Len(prog) + 1, c) = {<<i, k>>}
    <3>1. Cardinality(Counted(prog, Len(prog) + 1, c)) = 1
      BY <2>2, <2>6, <2>7
    <3>2. PICK x : Counted(prog, Len(prog) + 1, c) = {x}
      BY <2>2, <3>1, FS_Singleton
    <3> QED
      BY <2>3, <3>2
  <2> QED
    BY <2>1, <2>5, <2>6, <2>7
<1>8. ReaderInv'
  <2> SUFFICES ASSUME NEW r \in readers'
               PROVE  /\ r.elem \in DOMAIN prog
                      /\ r.elem < pos + 1
                      /\ r.slot \in CountedSlots(prog[r.elem])
                      /\ r.at.chan = SlotChan(prog[r.elem], r.slot)
                      /\ r.at.chan \in DOMAIN opUses
                      /\ IF prog[r.elem].t # "sink" /\ opUses[r.at.chan] > 0
                         THEN r.at.out \in 0 .. copyUses[r.at.chan] - 1
                         ELSE r.at.out = Direct
    BY <1>1 DEF ReaderInv
  <2>1. CASE r \in readers
    BY <1>1, <1>2, <2>1 DEF IInv, ReaderInv
  <2>2. CASE r \in new
    <3>1. r.elem = pos /\ r.at.out = Direct /\ r.slot \in CountedSlots(e)
          /\ r.at.chan = SlotChan(e, r.slot)
      BY <1>5, <2>2
    <3>2. r.at.chan \in DOMAIN opUses
      BY <1>1, <1>7, <3>1
    <3> QED
      BY <1>1, <1>2, <3>1, <3>2
  <2> QED
    BY <1>1, <2>1, <2>2
<1>9. OneReader'
  <2> SUFFICES ASSUME NEW r \in readers', prog[r.elem].t # "sink"
               PROVE  /\ r.at.chan \in DOMAIN copies => r.at.out # Direct
                      /\ \A s \in readers' : s.at = r.at => s = r
    BY <1>1 DEF OneReader
  <2>1. r \in readers
    BY <1>1, <1>5
  <2>2. r.at.chan \in DOMAIN copies => r.at.out # Direct
    BY <2>1 DEF IInv, OneReader
  <2>3. ASSUME NEW s \in new, s.at = r.at
        PROVE  FALSE
    <3>1. s.elem = pos /\ s.at.out = Direct /\ s.slot \in CountedSlots(e)
          /\ s.at.chan = SlotChan(e, s.slot)
      BY <1>5
    <3>2. /\ r.elem \in DOMAIN prog /\ r.elem < pos
          /\ r.slot \in CountedSlots(prog[r.elem])
          /\ r.at.chan = SlotChan(prog[r.elem], r.slot)
          /\ r.at.chan \in DOMAIN opUses
          /\ opUses[r.at.chan] > 0 => r.at.out \in 0 .. copyUses[r.at.chan] - 1
      BY <1>1, <2>1 DEF IInv, ReaderInv
    <3>3. opUses[r.at.chan] \in Nat /\ copyUses[r.at.chan] \in Nat
      BY <3>2 DEF IInv, TypeOK
    <3>4. opUses[r.at.chan] = 0
      BY <2>3, <3>1, <3>2, <3>3 DEF Direct
    <3>5. /\ Counted(prog, Len(prog) + 1, r.at.chan) = {<<pos, s.slot>>}
          /\ Counted(prog, Len(prog) + 1, r.at.chan) = {<<r.elem, r.slot>>}
      BY <1>1, <1>7, <2>3, <3>1, <3>2, <3>4
    <3>6. <<pos, s.slot>> = <<r.elem, r.slot>>
      BY <3>5
    <3> QED
      BY <1>2, <3>2, <3>6
  <2>4. \A s \in readers : s.at = r.at => s = r
    BY <2>1 DEF IInv, OneReader
  <2> QED
    BY <1>1, <2>2, <2>3, <2>4
<1>10. EndpointExists'
  BY <1>1, <1>5 DEF IInv, EndpointExists
<1> QED
  BY <1>3, <1>4, <1>6, <1>8, <1>9, <1>10

\* The two exits about the counters are never taken.
LEMMA NoCounterExit ==
  ASSUME IInv, At("emit")
  PROVE  EmitReject(prog[pos]) \in
           {"none", "constBuffer", "badCluster", "noControl", "noMetric"}
<1>1. ASSUME NEW k \in RequestedSlots(prog[pos])
      PROVE  /\ SlotChan(prog[pos], k) \in DOMAIN opUses
             /\ ~(/\ opUses[SlotChan(prog[pos], k)] > 0
                  /\ CopyIndex(prog[pos], k) > opUses[SlotChan(prog[pos], k)])
  <2>1. /\ SlotChan(prog[pos], k) \in DOMAIN opUses
        /\ opUses[SlotChan(prog[pos], k)] \in Nat
        /\ opUses[SlotChan(prog[pos], k)] > 0 =>
             /\ CopyIndex(prog[pos], k) <= opUses[SlotChan(prog[pos], k)]
             /\ CopyIndex(prog[pos], k) \in Nat
    BY RequestFacts
  <2> QED
    BY <2>1
<1> QED
  BY <1>1 DEF EmitReject

-----------------------------------------------------------------------------
(* The theorems *)

LEMMA InitInv == Init => IInv
<1> SUFFICES ASSUME Init PROVE IInv
  OBVIOUS
<1>1. prog \in Programs /\ prog \in Seq(Element) /\ Len(prog) \in Nat
  BY ProgramsAssumption DEF Init
<1>2. TypeOK
  BY <1>1 DEF Init, TypeOK
<1>3. CountInv
  BY NothingBefore DEF Init, CountInv, Passed, UsesBefore
<1>4. ServeInv /\ CopiesInv /\ ReaderInv
  BY DEF Init, ServeInv, CopiesInv, ReaderInv
<1>5. NeverOverused /\ OneReader /\ EndpointExists
  BY DEF Init, NeverOverused, OneReader, EndpointExists
<1> QED
  BY <1>1, <1>2, <1>3, <1>4, <1>5 DEF IInv

LEMMA StepInv == IInv /\ [Next]_vars => IInv'
<1> SUFFICES ASSUME IInv, [Next]_vars PROVE IInv'
  OBVIOUS
<1>0. /\ prog \in Programs /\ TypeOK /\ prog \in Seq(Element) /\ Len(prog) \in Nat
      /\ DOMAIN prog = 1 .. Len(prog) /\ pos \in 1 .. Len(prog) + 1
  BY ProgramsAssumption DEF IInv, TypeOK
<1>1. CASE CollectElement
  <2>1. /\ prog' = prog /\ phase = "collect" /\ phase' = phase /\ why' = why
        /\ pos \in DOMAIN prog /\ pos' = pos + 1
        /\ copies' = copies /\ readers' = readers /\ sinkCnt' = sinkCnt /\ fresh' = fresh
        /\ DOMAIN copyUses' = DOMAIN opUses' /\ DOMAIN opUses \subseteq DOMAIN opUses'
        /\ copyUses' \in [DOMAIN opUses' -> Nat]
        /\ \A c \in DOMAIN copyUses' : copyUses'[c] = 0
    BY <1>1 DEF CollectElement, At
  <2>2. CountInv' /\ opUses' \in [DOMAIN opUses' -> Nat] /\ DOMAIN opUses' \subseteq Chan
    BY <1>1, CollectCounts
  <2>3. TypeOK'
    <3>1. DOMAIN copies \subseteq DOMAIN opUses /\ DOMAIN opUses = DOMAIN copyUses
      BY <1>0 DEF TypeOK
    <3> QED
      BY <1>0, <2>1, <2>2, <3>1 DEF TypeOK
  <2>4. readers = {}
    BY <2>1 DEF IInv, ServeInv
  <2>5. ServeInv' /\ CopiesInv' /\ ReaderInv'
    BY <2>1, <2>4 DEF ServeInv, CopiesInv, ReaderInv
  <2>6. NeverOverused' /\ OneReader' /\ EndpointExists'
    BY <2>1, <2>4 DEF IInv, NeverOverused, OneReader, EndpointExists
  <2> QED
    BY <1>0, <2>1, <2>2, <2>3, <2>5, <2>6 DEF IInv
<1>2. CASE CollectAbort
  <2>1. /\ phase = "collect" /\ phase' = "abort" /\ why' = CollectReject(prog[pos])
        /\ UNCHANGED <<prog, pos, opUses, copyUses, copies, readers, sinkCnt, fresh>>
    BY <1>2 DEF CollectAbort, At, Abort
  <2>2. CollectReject(prog[pos]) \in {"none", "fewInputs", "badCluster", "concatInCluster"}
    BY DEF CollectReject
  <2>3. readers = {}
    BY <2>1 DEF IInv, ServeInv
  <2>4. TypeOK'
    BY <1>0, <2>1, <2>2 DEF TypeOK
  <2>5. CountInv' /\ ServeInv' /\ CopiesInv' /\ ReaderInv'
    BY <2>1, <2>3 DEF CountInv, ServeInv, CopiesInv, ReaderInv
  <2>6. NeverOverused' /\ OneReader' /\ EndpointExists'
    BY <2>1, <2>2, <2>3 DEF NeverOverused, OneReader, EndpointExists
  <2> QED
    BY <1>0, <2>1, <2>4, <2>5, <2>6 DEF IInv
<1>3. CASE CreateCopyProcs
  <2>1. /\ phase = "collect" /\ pos \notin DOMAIN prog
        /\ phase' = "emit" /\ pos' = 1
        /\ copies' = [c \in {d \in DOMAIN opUses : opUses[d] > 0} |-> opUses[c] + 1]
        /\ UNCHANGED <<prog, why, opUses, copyUses, readers, sinkCnt, fresh>>
    BY <1>3 DEF CreateCopyProcs
  <2>2. pos = Len(prog) + 1
    BY <1>0, <2>1
  <2>3. readers = {} /\ \A c \in DOMAIN copyUses : copyUses[c] = 0
    BY <2>1 DEF IInv, ServeInv
  <2>4. /\ opUses \in [DOMAIN opUses -> Nat] /\ copyUses \in [DOMAIN opUses -> Nat]
    BY <1>0 DEF TypeOK
  <2>5. TypeOK'
    <3>1. copies' \in [DOMAIN copies' -> Nat] /\ DOMAIN copies' \subseteq DOMAIN opUses
      BY <2>1, <2>4
    <3>2. pos' \in 1 .. Len(prog) + 1
      BY <1>0, <2>1
    <3> QED
      BY <1>0, <2>1, <3>1, <3>2 DEF TypeOK
  <2>6. CountInv'
    BY <2>1, <2>2 DEF IInv, CountInv, Passed, UsesBefore
  <2>7. ServeInv'
    BY <2>1, <2>3, <2>4, NothingBefore DEF ServeInv
  <2>8. CopiesInv' /\ ReaderInv'
    BY <2>1, <2>3 DEF CopiesInv, ReaderInv
  <2>9. NeverOverused' /\ OneReader' /\ EndpointExists'
    BY <2>1, <2>3 DEF IInv, NeverOverused, OneReader, EndpointExists
  <2> QED
    BY <1>0, <2>1, <2>5, <2>6, <2>7, <2>8, <2>9 DEF IInv
<1>4. CASE EmitFunc \/ EmitCluster \/ EmitMerge \/ EmitMixer
  <2>1. At("emit") /\ prog[pos].t # "sink" /\ Serve(prog[pos])
        /\ sinkCnt' = sinkCnt /\ fresh' = fresh
    BY <1>4 DEF EmitFunc, EmitCluster, EmitMerge, EmitMixer, Plainly
  <2>2. /\ CountInv' /\ ServeInv' /\ CopiesInv' /\ ReaderInv'
        /\ OneReader' /\ EndpointExists'
        /\ readers' \subseteq [elem : Nat, slot : Nat, at : Endpoint]
        /\ copyUses' \in [DOMAIN opUses -> Nat]
    BY <2>1, ServeStep
  <2>3. UNCHANGED <<prog, phase, why, opUses, copies>> /\ pos' = pos + 1
        /\ pos \in DOMAIN prog
    BY <2>1 DEF Serve, At
  <2>4. TypeOK'
    BY <1>0, <2>1, <2>2, <2>3 DEF TypeOK
  <2>5. NeverOverused'
    BY <2>3 DEF IInv, NeverOverused
  <2> QED
    BY <1>0, <2>2, <2>3, <2>4, <2>5 DEF IInv
<1>5. CASE EmitSplit
  <2> DEFINE null == {k \in DOMAIN prog[pos].out : prog[pos].out[k] = NoChan}
             made == {[elem |-> pos, slot |-> k,
                       id |-> sinkCnt + Cardinality({j \in null : j < k})] : k \in null}
  <2>1. At("emit") /\ prog[pos].t # "sink" /\ Serve(prog[pos])
        /\ sinkCnt' = sinkCnt + Cardinality(null) /\ fresh' = fresh \cup made
    BY <1>5 DEF EmitSplit
  <2>2. /\ CountInv' /\ ServeInv' /\ CopiesInv' /\ ReaderInv'
        /\ OneReader' /\ EndpointExists'
        /\ readers' \subseteq [elem : Nat, slot : Nat, at : Endpoint]
        /\ copyUses' \in [DOMAIN opUses -> Nat]
    BY <2>1, ServeStep
  <2>3. UNCHANGED <<prog, phase, why, opUses, copies>> /\ pos' = pos + 1
        /\ pos \in DOMAIN prog
    BY <2>1 DEF Serve, At
  <2>4. IsFiniteSet(null) /\ Cardinality(null) \in Nat /\ null \subseteq Nat
    <3>1. prog[pos].out \in Seq(Chan \cup {NoChan})
      BY <1>0, <2>3, ElementFacts DEF Element
    <3>2. /\ null \subseteq 1 .. Len(prog[pos].out) /\ Len(prog[pos].out) \in Nat
      BY <3>1
    <3>3. IsFiniteSet(1 .. Len(prog[pos].out))
      BY <3>2, FS_Interval
    <3>4. IsFiniteSet(null)
      BY <3>2, <3>3, FS_Subset
    <3> QED
      BY <3>2, <3>4, FS_CardinalityType
  <2>5. sinkCnt' \in Nat /\ fresh' \subseteq [elem : Nat, slot : Nat, id : Nat]
    <3>1. sinkCnt \in Nat /\ pos \in Nat /\ fresh \subseteq [elem : Nat, slot : Nat, id : Nat]
      BY <1>0 DEF TypeOK
    <3>2. ASSUME NEW k \in null
          PROVE  sinkCnt + Cardinality({j \in null : j < k}) \in Nat
      <4>1. IsFiniteSet({j \in null : j < k})
        BY <2>4, FS_Subset
      <4>2. Cardinality({j \in null : j < k}) \in Nat
        BY <4>1, FS_CardinalityType
      <4> QED
        BY <3>1, <4>2
    <3>3. ASSUME NEW f \in made PROVE f \in [elem : Nat, slot : Nat, id : Nat]
      <4>1. PICK k \in null : f = [elem |-> pos, slot |-> k,
                                  id |-> sinkCnt + Cardinality({j \in null : j < k})]
        OBVIOUS
      <4>2. k \in Nat
        BY <2>4
      <4> HIDE DEF null
      <4> QED
        BY <3>1, <3>2, <4>1, <4>2
    <3>4. made \subseteq [elem : Nat, slot : Nat, id : Nat]
      BY <3>3
    <3> HIDE DEF made, null
    <3> QED
      BY <2>1, <2>4, <3>1, <3>4
  <2>6. TypeOK'
    BY <1>0, <2>2, <2>3, <2>5 DEF TypeOK
  <2>7. NeverOverused'
    BY <2>3 DEF IInv, NeverOverused
  <2> QED
    BY <1>0, <2>2, <2>3, <2>6, <2>7 DEF IInv
<1>6. CASE EmitSink
  <2>1. /\ CountInv' /\ ServeInv' /\ CopiesInv' /\ ReaderInv'
        /\ OneReader' /\ EndpointExists'
        /\ readers' \subseteq [elem : Nat, slot : Nat, at : Endpoint]
    BY <1>6, SinkStep
  <2>2. UNCHANGED <<prog, phase, why, opUses, copyUses, copies, sinkCnt, fresh>>
        /\ pos' = pos + 1 /\ pos \in DOMAIN prog
    BY <1>6 DEF EmitSink, At
  <2>3. TypeOK'
    BY <1>0, <2>1, <2>2 DEF TypeOK
  <2>4. NeverOverused'
    BY <2>2 DEF IInv, NeverOverused
  <2> QED
    BY <1>0, <2>1, <2>2, <2>3, <2>4 DEF IInv
<1>7. CASE EmitAbort
  <2>1. /\ At("emit") /\ phase = "emit" /\ phase' = "abort" /\ why' = EmitReject(prog[pos])
        /\ UNCHANGED <<prog, pos, opUses, copyUses, copies, readers, sinkCnt, fresh>>
    BY <1>7 DEF EmitAbort, At, Abort
  <2>2. EmitReject(prog[pos]) \in
          {"none", "constBuffer", "badCluster", "noControl", "noMetric"}
    BY <2>1, NoCounterExit
  <2>3. TypeOK'
    BY <1>0, <2>1, <2>2 DEF TypeOK
  <2>4. CountInv' /\ ServeInv' /\ CopiesInv' /\ ReaderInv'
    BY <2>1 DEF IInv, CountInv, ServeInv, CopiesInv, ReaderInv
  <2>5. NeverOverused' /\ OneReader' /\ EndpointExists'
    BY <2>1, <2>2 DEF IInv, NeverOverused, OneReader, EndpointExists
  <2> QED
    BY <1>0, <2>1, <2>3, <2>4, <2>5 DEF IInv
<1>8. CASE Finish
  <2>1. /\ phase = "emit" /\ phase' = "done"
        /\ UNCHANGED <<prog, why, pos, opUses, copyUses, copies, readers, sinkCnt, fresh>>
    BY <1>8 DEF Finish
  <2>2. TypeOK'
    BY <1>0, <2>1 DEF TypeOK
  <2>3. CountInv' /\ ServeInv' /\ CopiesInv' /\ ReaderInv'
    BY <2>1 DEF IInv, CountInv, ServeInv, CopiesInv, ReaderInv, Passed, UsesBefore
  <2>4. NeverOverused' /\ OneReader' /\ EndpointExists'
    BY <2>1 DEF IInv, NeverOverused, OneReader, EndpointExists
  <2> QED
    BY <1>0, <2>1, <2>2, <2>3, <2>4 DEF IInv
<1>9. CASE UNCHANGED vars
  BY <1>9 DEF vars, IInv, TypeOK, CountInv, ServeInv, CopiesInv, ReaderInv, Passed,
              UsesBefore, NeverOverused, OneReader, EndpointExists
<1> QED
  BY <1>1, <1>2, <1>3, <1>4, <1>5, <1>6, <1>7, <1>8, <1>9 DEF Next

\* The inductive invariant of the translation of a process.
THEOREM Invariance == Spec => []IInv
<1>1. Init => IInv
  BY InitInv
<1>2. IInv /\ [Next]_vars => IInv'
  BY StepInv
<1> QED
  BY <1>1, <1>2, PTL DEF Spec

\* Every variable keeps its type: in particular opUses and copyUses are total
\* on the same channels and never negative.
THEOREM TypeCorrect == Spec => []TypeOK
<1>1. IInv => TypeOK
  BY DEF IInv
<1> QED
  BY <1>1, Invariance, PTL

\* "We use %s more than total uses!" and "We don't know how many times %s is
\* used!" are unreachable, for every dataflow body.
THEOREM CountersAgree == Spec => []NeverOverused
<1>1. IInv => NeverOverused
  BY DEF IInv
<1> QED
  BY <1>1, Invariance, PTL

\* No read but a sink shares its end with another read, for every dataflow body.
THEOREM EndsExclusive == Spec => []OneReader
<1>1. IInv => OneReader
  BY DEF IInv
<1> QED
  BY <1>1, Invariance, PTL

\* No read is attached to an output that createCopyProcs did not make.
THEOREM EndsExist == Spec => []EndpointExists
<1>1. IInv => EndpointExists
  BY DEF IInv
<1> QED
  BY <1>1, Invariance, PTL
-----------------------------------------------------------------------------
(* Serving a finite set in an order hands out every number below its size. *)

Below(S, r, k) == {j \in S : r[j] < r[k]}

LEMMA RanksExhaust ==
  ASSUME NEW S, IsFiniteSet(S), NEW r \in [S -> Int],
         \A i, j \in S : r[i] = r[j] => i = j
  PROVE  /\ \A k \in S : Cardinality(Below(S, r, k)) \in 0 .. Cardinality(S) - 1
         /\ \A i, j \in S :
              Cardinality(Below(S, r, i)) = Cardinality(Below(S, r, j)) => i = j
         /\ \A n \in 0 .. Cardinality(S) - 1 :
              \E k \in S : Cardinality(Below(S, r, k)) = n
<1> DEFINE N == Cardinality(S)
           f == [k \in S |-> Cardinality(Below(S, r, k))]
<1>1. N \in Nat
  BY FS_CardinalityType
<1>2. ASSUME NEW k \in S
      PROVE  /\ IsFiniteSet(Below(S, r, k)) /\ Cardinality(Below(S, r, k)) \in Nat
             /\ Cardinality(Below(S, r, k) \cup {k}) = Cardinality(Below(S, r, k)) + 1
  <2>1. IsFiniteSet(Below(S, r, k))
    BY FS_Subset DEF Below
  <2>2. k \notin Below(S, r, k)
    BY DEF Below
  <2> QED
    BY <2>1, <2>2, FS_AddElement, FS_CardinalityType
<1>3. ASSUME NEW k \in S
      PROVE  Cardinality(Below(S, r, k)) \in 0 .. N - 1
  <2>1. Below(S, r, k) \cup {k} \in SUBSET S
    BY DEF Below
  <2>2. Cardinality(Below(S, r, k) \cup {k}) <= N
    BY <2>1, FS_Subset
  <2>3. /\ Cardinality(Below(S, r, k)) \in Nat
        /\ Cardinality(Below(S, r, k) \cup {k}) = Cardinality(Below(S, r, k)) + 1
    BY <1>2
  <2> HIDE DEF N
  <2> QED
    BY <1>1, <2>2, <2>3
<1>4. ASSUME NEW i \in S, NEW j \in S, r[i] < r[j]
      PROVE  Cardinality(Below(S, r, i)) < Cardinality(Below(S, r, j))
  <2>1. Below(S, r, i) \cup {i} \in SUBSET Below(S, r, j)
    BY <1>4 DEF Below
  <2>2. Cardinality(Below(S, r, i) \cup {i}) <= Cardinality(Below(S, r, j))
    BY <1>2, <2>1, FS_Subset
  <2>3. /\ Cardinality(Below(S, r, i)) \in Nat /\ Cardinality(Below(S, r, j)) \in Nat
        /\ Cardinality(Below(S, r, i) \cup {i}) = Cardinality(Below(S, r, i)) + 1
    BY <1>2
  <2> QED
    BY <2>2, <2>3
<1>5. ASSUME NEW i \in S, NEW j \in S,
             Cardinality(Below(S, r, i)) = Cardinality(Below(S, r, j))
      PROVE  i = j
  <2>1. r[i] \in Int /\ r[j] \in Int
    OBVIOUS
  <2>2. Cardinality(Below(S, r, i)) \in Nat /\ Cardinality(Below(S, r, j)) \in Nat
    BY <1>2
  <2>3. ~(r[i] < r[j]) /\ ~(r[j] < r[i])
    BY <1>4, <1>5, <2>2
  <2> QED
    BY <2>1, <2>3
<1>6. f \in Injection(S, 0 .. N - 1)
  <2>1. f \in [S -> 0 .. N - 1]
    BY <1>3
  <2> QED
    BY <1>5, <2>1 DEF Injection, IsInjective
<1>7. IsFiniteSet(0 .. N - 1) /\ Cardinality(0 .. N - 1) = N
  BY <1>1, FS_Interval
<1>8. f \in Surjection(S, 0 .. N - 1)
  BY <1>6, <1>7, FS_Injection
<1>9. \A n \in 0 .. N - 1 : \E k \in S : f[k] = n
  <2> HIDE DEF f
  <2> QED
    BY <1>8 DEF Surjection
<1> QED
  BY <1>3, <1>5, <1>9

-----------------------------------------------------------------------------
(* Generated sinks *)

NullOutputs(e) == {k \in DOMAIN e.out : e.out[k] = NoChan}

LEMMA NullRanks ==
  ASSUME NEW q \in Programs, NEW n \in DOMAIN q, NEW null, null = NullOutputs(q[n])
  PROVE  /\ IsFiniteSet(null) /\ Cardinality(null) \in Nat
         /\ \A k \in null : Cardinality({j \in null : j < k}) \in 0 .. Cardinality(null) - 1
         /\ \A i, k \in null : Cardinality({j \in null : j < i})
                                 = Cardinality({j \in null : j < k}) => i = k
         /\ \A m \in 0 .. Cardinality(null) - 1 :
              \E k \in null : Cardinality({j \in null : j < k}) = m
<1>1. q[n].out \in Seq(Chan \cup {NoChan})
  BY ElementFacts DEF Element
<1>2. null \subseteq 1 .. Len(q[n].out) /\ Len(q[n].out) \in Nat
  BY <1>1 DEF NullOutputs
<1>3. IsFiniteSet(null)
  <2>1. IsFiniteSet(1 .. Len(q[n].out))
    BY <1>2, FS_Interval
  <2> QED
    BY <1>2, <2>1, FS_Subset
<1>4. null \subseteq Int
  BY <1>2
<1> DEFINE r == [k \in null |-> k]
           L(k) == {j \in null : j < k}
<1>5. r \in [null -> Int] /\ \A i, j \in null : r[i] = r[j] => i = j
  BY <1>4
<1>6. \A k \in null : Below(null, r, k) = L(k)
  BY DEF Below
<1>7. /\ \A k \in null : Cardinality(Below(null, r, k)) \in 0 .. Cardinality(null) - 1
      /\ \A i, j \in null :
           Cardinality(Below(null, r, i)) = Cardinality(Below(null, r, j)) => i = j
      /\ \A m \in 0 .. Cardinality(null) - 1 :
           \E k \in null : Cardinality(Below(null, r, k)) = m
  <2> HIDE DEF r
  <2> QED
    BY <1>3, <1>5, RanksExhaust
<1>8. Cardinality(null) \in Nat
  BY <1>3, FS_CardinalityType
<1>9. /\ \A k \in null : Cardinality(L(k)) \in 0 .. Cardinality(null) - 1
      /\ \A i, k \in null : Cardinality(L(i)) = Cardinality(L(k)) => i = k
      /\ \A m \in 0 .. Cardinality(null) - 1 : \E k \in null : Cardinality(L(k)) = m
  <2> HIDE DEF r, L
  <2> QED
    BY <1>6, <1>7
<1> QED
  BY <1>3, <1>8, <1>9

\* A split numbers its own sinks after all that were there.
LEMMA SplitNumbers ==
  ASSUME TypeOK, prog \in Programs, SinksDistinct, EmitSplit
  PROVE  SinksDistinct'
<1> DEFINE null == NullOutputs(prog[pos])
           L(k) == {j \in null : j < k}
           n == Cardinality(null)
           made == {[elem |-> pos, slot |-> k, id |-> sinkCnt + Cardinality(L(k))] : k \in null}
<1>1. pos \in DOMAIN prog /\ fresh' = fresh \cup made /\ sinkCnt' = sinkCnt + n
  BY DEF EmitSplit, At, NullOutputs
<1>2. /\ n \in Nat
      /\ \A k \in null : Cardinality(L(k)) \in 0 .. n - 1
      /\ \A i, k \in null : Cardinality(L(i)) = Cardinality(L(k)) => i = k
      /\ \A m \in 0 .. n - 1 : \E k \in null : Cardinality(L(k)) = m
  BY <1>1, NullRanks
<1>3. sinkCnt \in Nat
  BY DEF TypeOK
<1>4. /\ \A f, g \in fresh : f.id = g.id => f = g
      /\ {f.id : f \in fresh} = 0 .. sinkCnt - 1
  BY DEF SinksDistinct
<1> HIDE DEF null, L, n
<1>5. ASSUME NEW f \in made
      PROVE  \E k \in null : /\ f = [elem |-> pos, slot |-> k, id |-> sinkCnt + Cardinality(L(k))]
                             /\ f.id = sinkCnt + Cardinality(L(k))
                             /\ f.id \in sinkCnt .. sinkCnt + n - 1
  <2>1. PICK k \in null :
               f = [elem |-> pos, slot |-> k, id |-> sinkCnt + Cardinality(L(k))]
    OBVIOUS
  <2>2. Cardinality(L(k)) \in 0 .. n - 1
    BY <1>2
  <2>3. f.id = sinkCnt + Cardinality(L(k))
    BY <2>1
  <2> QED
    BY <1>2, <1>3, <2>1, <2>2, <2>3
<1>6. ASSUME NEW f \in fresh
      PROVE  f.id \in 0 .. sinkCnt - 1
  BY <1>4
<1>7. ASSUME NEW f \in fresh', NEW g \in fresh', f.id = g.id
      PROVE  f = g
  <2>1. CASE f \in fresh /\ g \in fresh
    BY <1>4, <1>7, <2>1
  <2>2. CASE f \in made /\ g \in made
    <3>1. PICK k \in null :
                 /\ f = [elem |-> pos, slot |-> k, id |-> sinkCnt + Cardinality(L(k))]
                 /\ f.id = sinkCnt + Cardinality(L(k))
      BY <1>5, <2>2
    <3>2. PICK i \in null :
                 /\ g = [elem |-> pos, slot |-> i, id |-> sinkCnt + Cardinality(L(i))]
                 /\ g.id = sinkCnt + Cardinality(L(i))
      BY <1>5, <2>2
    <3>3. Cardinality(L(k)) \in Int /\ Cardinality(L(i)) \in Int
      BY <1>2
    <3>4. Cardinality(L(k)) = Cardinality(L(i))
      BY <1>3, <1>7, <3>1, <3>2, <3>3
    <3> QED
      BY <1>2, <3>1, <3>2, <3>4
  <2>3. CASE f \in fresh /\ g \in made
    BY <1>3, <1>5, <1>6, <1>7, <2>3
  <2>4. CASE f \in made /\ g \in fresh
    BY <1>3, <1>5, <1>6, <1>7, <2>4
  <2> QED
    BY <1>1, <2>1, <2>2, <2>3, <2>4
<1>8. ASSUME NEW m \in 0 .. sinkCnt + n - 1
      PROVE  \E f \in fresh' : f.id = m
  <2>1. CASE m < sinkCnt
    <3>1. m \in 0 .. sinkCnt - 1
      BY <1>2, <1>3, <2>1
    <3>2. m \in {f.id : f \in fresh}
      BY <1>4, <3>1
    <3> QED
      BY <1>1, <3>2
  <2>2. CASE ~(m < sinkCnt)
    <3>1. m - sinkCnt \in 0 .. n - 1
      BY <1>2, <1>3, <2>2
    <3>2. PICK k \in null : Cardinality(L(k)) = m - sinkCnt
      BY <1>2, <3>1
    <3>3. sinkCnt + Cardinality(L(k)) = m
      BY <1>2, <1>3, <3>2
    <3>4. [elem |-> pos, slot |-> k, id |-> sinkCnt + Cardinality(L(k))] \in fresh'
      BY <1>1
    <3> QED
      BY <3>3, <3>4
  <2> QED
    BY <2>1, <2>2
<1>9. ASSUME NEW f \in fresh'
      PROVE  f.id \in 0 .. sinkCnt + n - 1
  <2>1. CASE f \in fresh
    BY <1>2, <1>3, <1>6, <2>1
  <2>2. CASE f \in made
    BY <1>2, <1>3, <1>5, <2>2
  <2> QED
    BY <1>1, <2>1, <2>2
<1>10. {f.id : f \in fresh'} = 0 .. sinkCnt' - 1
  <2>1. \A x : x \in {f.id : f \in fresh'} <=> x \in 0 .. sinkCnt + n - 1
    <3> HIDE DEF made
    <3> QED
      BY <1>8, <1>9
  <2>2. {f.id : f \in fresh'} = 0 .. sinkCnt + n - 1
    BY ONLY <2>1, Zenon
  <2>3. sinkCnt' - 1 = sinkCnt + n - 1
    <3>1. sinkCnt' = sinkCnt + n
      BY <1>1
    <3>2. sinkCnt \in Int /\ n \in Int
      BY <1>2, <1>3
    <3> QED
      BY ONLY <3>1, <3>2
  <2> QED
    BY ONLY <2>2, <2>3
<1> QED
  BY <1>7, <1>10 DEF SinksDistinct

LEMMA SinksInit == Init => SinksDistinct
<1> SUFFICES ASSUME Init PROVE SinksDistinct
  OBVIOUS
<1>1. fresh = {} /\ sinkCnt = 0
  BY DEF Init
<1>2. 0 .. sinkCnt - 1 = {}
  BY <1>1
<1> QED
  BY <1>1, <1>2 DEF SinksDistinct

LEMMA SinksStep == IInv /\ SinksDistinct /\ [Next]_vars => SinksDistinct'
<1> SUFFICES ASSUME IInv, SinksDistinct, [Next]_vars PROVE SinksDistinct'
  OBVIOUS
<1>1. CASE EmitSplit
  BY <1>1, SplitNumbers DEF IInv
<1>2. CASE ~EmitSplit
  <2>1. fresh' = fresh /\ sinkCnt' = sinkCnt
    BY <1>2 DEF Next, vars, CollectElement, CollectAbort, CreateCopyProcs, EmitFunc,
         EmitCluster, EmitMerge, EmitMixer, Plainly, EmitSink, EmitAbort, Abort, Finish
  <2> QED
    BY <2>1 DEF SinksDistinct
<1> QED
  BY <1>1, <1>2

\* Every "*" output of every split gets a channel of its own, and the numbers
\* of these channels have no gaps, for every dataflow body.
THEOREM SinksDistinctAlways == Spec => []SinksDistinct
<1>1. Init => SinksDistinct
  BY SinksInit
<1>2. IInv /\ SinksDistinct /\ [Next]_vars => SinksDistinct'
  BY SinksStep
<1> QED
  BY <1>1, <1>2, Invariance, PTL DEF Spec

-----------------------------------------------------------------------------
(* What has been handed out *)

\* A slot is attached once.
OnePerSlot == \A r, s \in readers : (r.elem = s.elem /\ r.slot = s.slot) => r = s

\* Every read of an element passed is attached.
PassedAttached ==
  \A i \in DOMAIN prog : i < pos =>
    \A k \in CountedSlots(prog[i]) : \E r \in readers : r.elem = i /\ r.slot = k

\* The outputs a COPY has handed out have a reader.
HandedOutRead ==
  \A c \in DOMAIN copies : \A k \in 0 .. copyUses[c] - 1 :
    \E r \in readers : r.at = [chan |-> c, out |-> k]

HeldInv ==
  /\ phase \in {"emit", "done"} => OnePerSlot /\ PassedAttached /\ HandedOutRead
  /\ phase = "done" => pos = Len(prog) + 1

\* The slots of one element that read c are served one output each, and none
\* in between is passed over.
LEMMA IndexExhausts ==
  ASSUME NEW e \in Element,
         e.t \in {"split", "merge"} => e.guard \in Chan,
         NEW c, NEW H, H = Hits(e, RequestedSlots(e), c)
  PROVE  /\ IsFiniteSet(H) /\ Cardinality(H) \in Nat
         /\ \A n \in 0 .. Cardinality(H) - 1 :
              \E k \in H : Cardinality(AskedBefore(e, k)) = n
<1> DEFINE r == [k \in H |-> Rank(e, k)]
<1>1. /\ RequestedSlots(e) \subseteq 0 .. Len(e.in) /\ Len(e.in) \in Nat
  BY SlotFacts
<1>2. IsFiniteSet(H) /\ Cardinality(H) \in Nat
  BY <1>1, HitsFinite
<1>3. /\ \A i \in H : Rank(e, i) \in Int
      /\ \A i, j \in H : i # j => Rank(e, i) # Rank(e, j)
  BY <1>1 DEF Rank, Hits
<1>4. r \in [H -> Int] /\ \A i, j \in H : r[i] = r[j] => i = j
  BY <1>3
<1>5. ASSUME NEW k \in H
      PROVE  Below(H, r, k) = AskedBefore(e, k)
  BY DEF Below, AskedBefore, Hits
<1>6. \A n \in 0 .. Cardinality(H) - 1 : \E k \in H : Cardinality(Below(H, r, k)) = n
  <2> HIDE DEF r
  <2> QED
    BY <1>2, <1>4, RanksExhaust
<1> HIDE DEF r
<1> QED
  BY <1>2, <1>5, <1>6

LEMMA ServeHolds ==
  ASSUME IInv, HeldInv, At("emit"), prog[pos].t # "sink", Serve(prog[pos])
  PROVE  HeldInv'
<1> DEFINE e == prog[pos]
           new == {[elem |-> pos, slot |-> k, at |-> Allotted(e, k)] : k \in RequestedSlots(e)}
<1>1. /\ prog \in Programs /\ pos \in DOMAIN prog /\ phase = "emit"
      /\ prog' = prog /\ phase' = phase /\ pos' = pos + 1
      /\ copies' = copies /\ readers' = readers \cup new
      /\ copyUses' = [c \in DOMAIN copyUses |->
                        IF opUses[c] > 0
                        THEN copyUses[c] + Cardinality(Hits(e, RequestedSlots(e), c))
                        ELSE copyUses[c]]
  BY DEF IInv, At, Serve
<1>2. /\ e \in Element /\ RequestedSlots(e) = CountedSlots(e)
      /\ e.t \in {"split", "merge"} => e.guard \in Chan
      /\ Len(prog) \in Nat /\ DOMAIN prog = 1 .. Len(prog)
  BY <1>1, ElementFacts, SlotFacts
<1>3. OnePerSlot /\ PassedAttached /\ HandedOutRead
  BY <1>1 DEF HeldInv
<1>4. \A r \in readers : r.elem < pos /\ r.elem \in Int
  BY <1>1, <1>2 DEF IInv, ReaderInv
<1>5. OnePerSlot'
  <2> SUFFICES ASSUME NEW r \in readers', NEW s \in readers',
                      r.elem = s.elem, r.slot = s.slot
               PROVE  r = s
    BY DEF OnePerSlot
  <2>1. \A x \in new : x.elem = pos
                       /\ x = [elem |-> pos, slot |-> x.slot, at |-> Allotted(e, x.slot)]
    OBVIOUS
  <2>2. pos \in Int
    BY <1>1, <1>2
  <2>3. CASE r \in readers
    <3>1. s \in readers
      BY <1>1, <1>4, <2>1, <2>2, <2>3
    <3> QED
      BY <1>3, <2>3, <3>1 DEF OnePerSlot
  <2>4. CASE r \in new
    <3>1. s \in new
      BY <1>1, <1>4, <2>1, <2>2, <2>4
    <3> QED
      BY <2>1, <2>4, <3>1
  <2> QED
    BY <1>1, <2>3, <2>4
<1>6. PassedAttached'
  <2> SUFFICES ASSUME NEW i \in DOMAIN prog, i < pos + 1, NEW k \in CountedSlots(prog[i])
               PROVE  \E r \in readers' : r.elem = i /\ r.slot = k
    BY <1>1 DEF PassedAttached
  <2>1. CASE i < pos
    BY <1>1, <1>3, <2>1 DEF PassedAttached
  <2>2. CASE i = pos
    <3>1. [elem |-> pos, slot |-> k, at |-> Allotted(e, k)] \in readers'
      BY <1>1, <1>2, <2>2
    <3> QED
      BY <2>2, <3>1
  <2> QED
    BY <1>1, <1>2, <2>1, <2>2
<1>7. HandedOutRead'
  <2> SUFFICES ASSUME NEW c \in DOMAIN copies, NEW n \in 0 .. copyUses'[c] - 1
               PROVE  \E r \in readers' : r.at = [chan |-> c, out |-> n]
    BY <1>1 DEF HandedOutRead
  <2> DEFINE H == Hits(e, RequestedSlots(e), c)
  <2>1. c \in DOMAIN opUses /\ opUses[c] > 0
    BY <1>1 DEF IInv, CopiesInv
  <2>2. copyUses[c] \in Nat /\ copyUses'[c] = copyUses[c] + Cardinality(H)
    <3>1. copyUses \in [DOMAIN opUses -> Nat]
      BY DEF IInv, TypeOK
    <3> QED
      BY <1>1, <2>1, <3>1
  <2>3. /\ Cardinality(H) \in Nat
        /\ \A m \in 0 .. Cardinality(H) - 1 : \E k \in H : Cardinality(AskedBefore(e, k)) = m
    BY <1>2, IndexExhausts
  <2> HIDE DEF H
  <2>4. CASE n < copyUses[c]
    <3>1. n \in 0 .. copyUses[c] - 1
      BY <2>2, <2>4
    <3> QED
      BY <1>1, <1>3, <3>1 DEF HandedOutRead
  <2>5. CASE ~(n < copyUses[c])
    <3>1. n - copyUses[c] \in 0 .. Cardinality(H) - 1
      BY <2>2, <2>3, <2>5
    <3>2. PICK k \in H : Cardinality(AskedBefore(e, k)) = n - copyUses[c]
      BY <2>3, <3>1
    <3>3. k \in RequestedSlots(e) /\ SlotChan(e, k) = c
      BY DEF H, Hits
    <3>4. copyUses[c] + Cardinality(AskedBefore(e, k)) = n
      BY <2>2, <3>2
    <3>5. Allotted(e, k) = [chan |-> c, out |-> n]
      BY <2>1, <3>3, <3>4 DEF Allotted, CopyIndex
    <3>6. [elem |-> pos, slot |-> k, at |-> Allotted(e, k)] \in readers'
      BY <1>1, <3>3
    <3> QED
      BY <3>5, <3>6
  <2> QED
    BY <2>4, <2>5
<1> QED
  BY <1>1, <1>5, <1>6, <1>7 DEF HeldInv

LEMMA SinkHolds ==
  ASSUME IInv, HeldInv, EmitSink
  PROVE  HeldInv'
<1> DEFINE e == prog[pos]
           new == {[elem |-> pos, slot |-> k, at |-> [chan |-> e.in[k], out |-> Direct]]
                     : k \in DOMAIN e.in}
<1>1. /\ prog \in Programs /\ pos \in DOMAIN prog /\ phase = "emit" /\ e.t = "sink"
      /\ prog' = prog /\ phase' = phase /\ pos' = pos + 1
      /\ copies' = copies /\ copyUses' = copyUses /\ readers' = readers \cup new
  BY DEF IInv, EmitSink, At
<1>2. /\ CountedSlots(e) = DOMAIN e.in
      /\ Len(prog) \in Nat /\ DOMAIN prog = 1 .. Len(prog)
  BY <1>1, ElementFacts, SlotFacts
<1>3. OnePerSlot /\ PassedAttached /\ HandedOutRead
  BY <1>1 DEF HeldInv
<1>4. \A r \in readers : r.elem < pos /\ r.elem \in Int
  BY <1>1, <1>2 DEF IInv, ReaderInv
<1>5. OnePerSlot'
  <2> SUFFICES ASSUME NEW r \in readers', NEW s \in readers',
                      r.elem = s.elem, r.slot = s.slot
               PROVE  r = s
    BY DEF OnePerSlot
  <2>1. \A x \in new : x = [elem |-> pos, slot |-> x.slot,
                            at |-> [chan |-> e.in[x.slot], out |-> Direct]]
    OBVIOUS
  <2>2. pos \in Int /\ \A x \in new : x.elem = pos
    BY <1>1, <1>2
  <2>3. CASE r \in readers
    <3>1. s \in readers
      BY <1>1, <1>4, <2>2, <2>3
    <3> QED
      BY <1>3, <2>3, <3>1 DEF OnePerSlot
  <2>4. CASE r \in new
    <3>1. s \in new
      BY <1>1, <1>4, <2>2, <2>4
    <3> QED
      BY <2>1, <2>4, <3>1
  <2> QED
    BY <1>1, <2>3, <2>4
<1>6. PassedAttached'
  <2> SUFFICES ASSUME NEW i \in DOMAIN prog, i < pos + 1, NEW k \in CountedSlots(prog[i])
               PROVE  \E r \in readers' : r.elem = i /\ r.slot = k
    BY <1>1 DEF PassedAttached
  <2>1. CASE i < pos
    BY <1>1, <1>3, <2>1 DEF PassedAttached
  <2>2. CASE i = pos
    <3>1. [elem |-> pos, slot |-> k, at |-> [chan |-> e.in[k], out |-> Direct]] \in readers'
      BY <1>1, <1>2, <2>2
    <3> QED
      BY <2>2, <3>1
  <2> QED
    BY <1>1, <1>2, <2>1, <2>2
<1>7. HandedOutRead'
  BY <1>1, <1>3 DEF HandedOutRead
<1> QED
  BY <1>1, <1>5, <1>6, <1>7 DEF HeldInv

LEMMA HeldInit == Init => HeldInv
  BY DEF Init, HeldInv

LEMMA HeldStep == IInv /\ HeldInv /\ [Next]_vars => HeldInv'
<1> SUFFICES ASSUME IInv, HeldInv, [Next]_vars PROVE HeldInv'
  OBVIOUS
<1>0. /\ prog \in Seq(Element) /\ Len(prog) \in Nat /\ DOMAIN prog = 1 .. Len(prog)
      /\ pos \in 1 .. Len(prog) + 1
      /\ copyUses \in [DOMAIN opUses -> Nat]
      /\ phase = "collect" => readers = {} /\ \A c \in DOMAIN copyUses : copyUses[c] = 0
  BY DEF IInv, TypeOK, ServeInv
<1>1. CASE EmitFunc \/ EmitCluster \/ EmitMerge \/ EmitMixer \/ EmitSplit
  <2>1. At("emit") /\ prog[pos].t # "sink" /\ Serve(prog[pos])
    BY <1>1 DEF EmitFunc, EmitCluster, EmitMerge, EmitMixer, EmitSplit, Plainly
  <2> QED
    BY <2>1, ServeHolds
<1>2. CASE EmitSink
  BY <1>2, SinkHolds
<1>3. CASE CreateCopyProcs
  <2>1. /\ phase = "collect" /\ phase' = "emit" /\ pos' = 1
        /\ readers' = readers /\ prog' = prog /\ copyUses' = copyUses
        /\ DOMAIN copies' \subseteq DOMAIN opUses
    BY <1>3 DEF CreateCopyProcs
  <2>2. OnePerSlot'
    BY <1>0, <2>1 DEF OnePerSlot
  <2>3. PassedAttached'
    BY <1>0, <2>1 DEF PassedAttached
  <2>4. HandedOutRead'
    <3>1. \A c \in DOMAIN copies' : copyUses'[c] = 0
      BY <1>0, <2>1
    <3>2. \A c \in DOMAIN copies' : 0 .. copyUses'[c] - 1 = {}
      BY <3>1
    <3> QED
      BY <3>2 DEF HandedOutRead
  <2> QED
    BY <2>1, <2>2, <2>3, <2>4 DEF HeldInv
<1>4. CASE Finish
  <2>1. /\ phase = "emit" /\ phase' = "done" /\ pos \notin DOMAIN prog
        /\ UNCHANGED <<prog, pos, copyUses, copies, readers>>
    BY <1>4 DEF Finish
  <2>2. pos = Len(prog) + 1
    BY <1>0, <2>1
  <2> QED
    BY <2>1, <2>2 DEF HeldInv, OnePerSlot, PassedAttached, HandedOutRead
<1>5. CASE CollectElement
  BY <1>5 DEF CollectElement, At, HeldInv
<1>6. CASE CollectAbort \/ EmitAbort
  BY <1>6 DEF CollectAbort, EmitAbort, Abort, HeldInv
<1>7. CASE UNCHANGED vars
  BY <1>7 DEF vars, HeldInv, OnePerSlot, PassedAttached, HandedOutRead
<1> QED
  BY <1>1, <1>2, <1>3, <1>4, <1>5, <1>6, <1>7 DEF Next

LEMMA HeldAlways == Spec => [](IInv /\ HeldInv)
<1>1. Init => IInv /\ HeldInv
  BY InitInv, HeldInit
<1>2. (IInv /\ HeldInv) /\ [Next]_vars => (IInv /\ HeldInv)'
  BY StepInv, HeldStep
<1> QED
  BY <1>1, <1>2, PTL DEF Spec

-----------------------------------------------------------------------------
(* What is left over *)

SinkReads(q, c) ==
  {i \in DOMAIN q : q[i].t = "sink" /\ \E k \in DOMAIN q[i].in : q[i].in[k] = c}

\* A read that is counted and does not ask is the one read of a sink.
LEMMA UnaskedAreSinks ==
  ASSUME NEW q \in Programs, NEW c, NEW n, n = Len(q) + 1,
         IsFiniteSet(Counted(q, n, c))
  PROVE  /\ IsFiniteSet(SinkReads(q, c))
         /\ Asked(q, n, c) \subseteq Counted(q, n, c)
         /\ Cardinality(SinkReads(q, c))
              = Cardinality(Counted(q, n, c)) - Cardinality(Asked(q, n, c))
<1> DEFINE S == SinkReads(q, c)
<1>1. Len(q) \in Nat /\ DOMAIN q = 1 .. Len(q) /\ q \in Seq(Element)
  BY ProgramsAssumption
<1>2. ASSUME NEW i \in 1 .. n - 1
      PROVE  /\ i \in DOMAIN q
             /\ RequestedSlots(q[i]) \subseteq CountedSlots(q[i])
             /\ q[i].t # "sink" => RequestedSlots(q[i]) = CountedSlots(q[i])
             /\ q[i].t = "sink" => /\ CountedSlots(q[i]) = {1} /\ DOMAIN q[i].in = {1}
                                   /\ RequestedSlots(q[i]) = {}
  <2>1. i \in DOMAIN q
    BY <1>1
  <2>2. /\ RequestedSlots(q[i]) \subseteq CountedSlots(q[i])
        /\ q[i].t # "sink" => RequestedSlots(q[i]) = CountedSlots(q[i])
        /\ q[i].t = "sink" => CountedSlots(q[i]) = DOMAIN q[i].in /\ RequestedSlots(q[i]) = {}
        /\ DOMAIN q[i].in = 1 .. Len(q[i].in)
    BY <2>1, ElementFacts, SlotFacts
  <2>3. q[i].t = "sink" => Len(q[i].in) = 1
    BY <2>1, ProgramsAssumption
  <2>4. q[i].t = "sink" => DOMAIN q[i].in = {1}
    <3>1. 1 .. 1 = {1}
      OBVIOUS
    <3> QED
      BY <2>2, <2>3, <3>1
  <2> QED
    BY <2>1, <2>2, <2>4
<1>3. Asked(q, n, c) \subseteq Counted(q, n, c)
  BY <1>2 DEF Asked, Counted, Hits
<1>4. Counted(q, n, c) \ Asked(q, n, c) = S \X {1}
  <2>1. ASSUME NEW i \in 1 .. n - 1, NEW k \in Nat
        PROVE  (/\ k \in Hits(q[i], CountedSlots(q[i]), c)
                /\ k \notin Hits(q[i], RequestedSlots(q[i]), c)) <=> (i \in S /\ k = 1)
    <3>1. CASE q[i].t = "sink"
      <4>1. CountedSlots(q[i]) = {1} /\ DOMAIN q[i].in = {1} /\ RequestedSlots(q[i]) = {}
            /\ i \in DOMAIN q
        BY <1>2, <3>1
      <4>2. SlotChan(q[i], 1) = q[i].in[1]
        BY DEF SlotChan
      <4> QED
        BY <3>1, <4>1, <4>2 DEF Hits, SinkReads
    <3>2. CASE q[i].t # "sink"
      BY <1>2, <3>2 DEF Hits, SinkReads
    <3> QED
      BY <3>1, <3>2
  <2>2. S \subseteq 1 .. n - 1
    BY <1>1 DEF SinkReads
  <2> HIDE DEF S
  <2>3. \A x \in (1 .. n - 1) \X Nat :
          x \in Counted(q, n, c) \ Asked(q, n, c) <=> x \in S \X {1}
    BY <2>1 DEF Counted, Asked
  <2>4. Counted(q, n, c) \subseteq (1 .. n - 1) \X Nat
    BY DEF Counted
  <2>5. S \X {1} \subseteq (1 .. n - 1) \X Nat
    <3>1. {1} \subseteq Nat
      OBVIOUS
    <3> QED
      BY ONLY <2>2, <3>1, Zenon
  <2> QED
    BY <2>3, <2>4, <2>5
<1>5. IsFiniteSet(S)
  <2>1. IsFiniteSet(1 .. Len(q)) /\ S \subseteq 1 .. Len(q)
    BY <1>1, FS_Interval DEF SinkReads
  <2> QED
    BY <2>1, FS_Subset
<1>6. Cardinality(S \X {1}) = Cardinality(S)
  <2>1. IsFiniteSet({1}) /\ Cardinality({1}) = 1 /\ Cardinality(S) \in Nat
    BY <1>5, FS_Singleton, FS_CardinalityType
  <2>2. Cardinality(S \X {1}) = Cardinality(S) * Cardinality({1})
    BY <1>5, <2>1, FS_Product
  <2> HIDE DEF S
  <2> QED
    BY <2>1, <2>2
<1>7. Cardinality(Counted(q, n, c) \ Asked(q, n, c))
        = Cardinality(Counted(q, n, c)) - Cardinality(Asked(q, n, c))
  <2>1. Counted(q, n, c) \cap Asked(q, n, c) = Asked(q, n, c)
    BY <1>3
  <2>2. Cardinality(Counted(q, n, c) \ Asked(q, n, c))
          = Cardinality(Counted(q, n, c)) - Cardinality(Counted(q, n, c) \cap Asked(q, n, c))
    BY FS_Difference
  <2> QED
    BY <2>1, <2>2, Zenon
<1> QED
  BY <1>3, <1>4, <1>5, <1>6, <1>7

LEMMA UnreadOutputs ==
  ASSUME IInv, HeldInv, phase = "done", NEW c \in DOMAIN copies
  PROVE  /\ {k \in 0 .. copies[c] - 1 : \A r \in readers : r.at # [chan |-> c, out |-> k]}
              = copyUses[c] .. copies[c] - 1
         /\ copies[c] - copyUses[c] = Cardinality(SinkReads(prog, c))
         /\ copies[c] \in Nat /\ copyUses[c] \in Nat /\ copyUses[c] <= copies[c]
<1>1. /\ prog \in Programs /\ pos = Len(prog) + 1 /\ HandedOutRead
      /\ c \in DOMAIN opUses /\ opUses[c] > 0 /\ copies[c] = opUses[c] + 1
  BY DEF IInv, HeldInv, CopiesInv
<1>2. opUses[c] \in Nat /\ copyUses[c] \in Nat /\ c \in Chan
  BY <1>1 DEF IInv, TypeOK
<1>3. /\ IsFiniteSet(Counted(prog, pos, c)) /\ IsFiniteSet(Asked(prog, pos, c))
      /\ Cardinality(Counted(prog, pos, c)) = copies[c]
      /\ Cardinality(Asked(prog, pos, c)) = copyUses[c]
  BY <1>1, <1>2 DEF IInv, CountInv, ServeInv, Passed, UsesBefore
<1>4. /\ Asked(prog, pos, c) \subseteq Counted(prog, pos, c)
      /\ Cardinality(SinkReads(prog, c))
           = Cardinality(Counted(prog, pos, c)) - Cardinality(Asked(prog, pos, c))
  BY <1>1, <1>3, UnaskedAreSinks
<1>5. copyUses[c] <= copies[c]
  BY <1>3, <1>4, FS_Subset
<1>6. ASSUME NEW k \in 0 .. copies[c] - 1
      PROVE  (\A r \in readers : r.at # [chan |-> c, out |-> k])
               <=> k \in copyUses[c] .. copies[c] - 1
  <2>1. CASE k < copyUses[c]
    <3>1. k \in 0 .. copyUses[c] - 1
      BY <1>1, <1>2, <2>1
    <3>2. \E r \in readers : r.at = [chan |-> c, out |-> k]
      BY <1>1, <3>1 DEF HandedOutRead
    <3>3. k \notin copyUses[c] .. copies[c] - 1
      BY <1>2, <2>1
    <3> QED
      BY <3>2, <3>3
  <2>2. CASE ~(k < copyUses[c])
    <3>1. ASSUME NEW r \in readers, r.at = [chan |-> c, out |-> k]
          PROVE  FALSE
      <4>1. r.at.chan = c /\ r.at.out = k
        BY <3>1
      <4>2. r.at.out \in 0 .. copyUses[c] - 1 \/ r.at.out = Direct
        BY <4>1 DEF IInv, ReaderInv
      <4> QED
        BY <1>1, <1>2, <2>2, <4>1, <4>2 DEF Direct
    <3>2. k \in copyUses[c] .. copies[c] - 1
      BY <1>1, <1>2, <2>2
    <3> QED
      BY <3>1, <3>2
  <2> QED
    BY <2>1, <2>2
<1>7. copyUses[c] .. copies[c] - 1 \subseteq 0 .. copies[c] - 1
  BY <1>1, <1>2
<1> QED
  BY <1>1, <1>2, <1>3, <1>4, <1>5, <1>6, <1>7

\* Once a process is translated, the outputs of a COPY that nobody reads are
\* exactly as many as the sinks of its channel, for every dataflow body.
THEOREM OutputsReadAlways == Spec => []OutputsRead
<1>1. IInv /\ HeldInv => OutputsRead
  <2> SUFFICES ASSUME IInv, HeldInv, phase = "done", NEW c \in DOMAIN copies
               PROVE  Cardinality({k \in 0 .. copies[c] - 1 :
                                     \A r \in readers : r.at # [chan |-> c, out |-> k]})
                        = Cardinality(SinksOf(c))
    BY DEF OutputsRead
  <2>1. SinksOf(c) = SinkReads(prog, c)
    BY DEF SinksOf, SinkReads
  <2>2. copies[c] \in Int /\ copyUses[c] \in Int /\ copyUses[c] <= copies[c]
    BY UnreadOutputs
  <2>3. Cardinality(copyUses[c] .. copies[c] - 1) = copies[c] - copyUses[c]
    BY <2>2, FS_Interval
  <2> QED
    BY <2>1, <2>3, UnreadOutputs
<1> QED
  BY <1>1, HeldAlways, PTL

-----------------------------------------------------------------------------
(* The walks implement Fanout.                                             *)

\* The one read of a sunk channel.
LEMMA SunkAlone ==
  ASSUME UnsharedSinks, NEW q \in Programs, NEW i \in DOMAIN q, q[i].t = "sink",
         NEW j \in DOMAIN q, NEW k \in CountedSlots(q[j]),
         SlotChan(q[j], k) = q[i].in[1]
  PROVE  j = i /\ k = 1 /\ q[i].in[1] \in Chan
<1>1. j = i
  BY DEF UnsharedSinks
<1>2. CountedSlots(q[i]) = DOMAIN q[i].in /\ DOMAIN q[i].in = 1 .. Len(q[i].in)
      /\ SlotChan(q[j], k) \in Chan
  BY ElementFacts, SlotFacts
<1>3. Len(q[i].in) = 1
  BY ProgramsAssumption
<1> QED
  BY <1>1, <1>2, <1>3

\* So no COPY is made for it.
LEMMA SunkUncopied ==
  ASSUME IInv, UnsharedSinks, phase \in {"emit", "done"},
         NEW i \in DOMAIN prog, prog[i].t = "sink"
  PROVE  prog[i].in[1] \notin DOMAIN copies
<1> DEFINE c == prog[i].in[1]
<1>1. prog \in Programs /\ prog \in Seq(Element) /\ Len(prog) \in Nat
      /\ DOMAIN prog = 1 .. Len(prog)
  BY ProgramsAssumption DEF IInv
<1>2. /\ CountedSlots(prog[i]) = DOMAIN prog[i].in
      /\ DOMAIN prog[i].in = 1 .. Len(prog[i].in)
  BY <1>1, ElementFacts, SlotFacts
<1>3. Len(prog[i].in) = 1
  BY <1>1, ProgramsAssumption
<1>4. 1 \in CountedSlots(prog[i]) /\ SlotChan(prog[i], 1) = c
  BY <1>2, <1>3 DEF SlotChan
<1>5. c \in Chan
  BY <1>1, <1>4, SunkAlone
<1>6. Counted(prog, Len(prog) + 1, c) \subseteq {<<i, 1>>}
  <2> SUFFICES ASSUME NEW s \in Counted(prog, Len(prog) + 1, c)
               PROVE  s = <<i, 1>>
    OBVIOUS
  <2>1. s \in (1 .. Len(prog) + 1 - 1) \X Nat
        /\ s[2] \in Hits(prog[s[1]], CountedSlots(prog[s[1]]), c)
    BY DEF Counted
  <2>2. s[1] \in DOMAIN prog /\ s[2] \in CountedSlots(prog[s[1]])
        /\ SlotChan(prog[s[1]], s[2]) = c
    BY <1>1, <2>1 DEF Hits
  <2>3. s[1] = i /\ s[2] = 1
    BY <1>1, <2>2, SunkAlone
  <2> QED
    BY <2>1, <2>3
<1>7. Cardinality(Counted(prog, Len(prog) + 1, c)) <= 1
  <2>1. IsFiniteSet({<<i, 1>>}) /\ Cardinality({<<i, 1>>}) = 1
    BY FS_Singleton
  <2> QED
    BY <1>6, <2>1, FS_Subset
<1>8. Cardinality(Counted(prog, Len(prog) + 1, c)) = UsesBefore(c) + 1
  BY <1>5 DEF IInv, CountInv, Passed
<1>9. ASSUME c \in DOMAIN copies
      PROVE  FALSE
  <2>1. c \in DOMAIN opUses /\ opUses[c] > 0
    BY <1>9 DEF IInv, CopiesInv
  <2>2. opUses[c] \in Nat /\ UsesBefore(c) = opUses[c]
    BY <2>1 DEF IInv, TypeOK, UsesBefore
  <2> QED
    BY <1>7, <1>8, <2>1, <2>2
<1> QED
  BY <1>9

LEMMA EndsLaidOut ==
  ASSUME phase \in {"emit", "done"}
  PROVE  /\ \A c \in DOMAIN opUses :
              /\ c \in DOMAIN copies =>
                   \A k \in 0 .. copies[c] - 1 : [chan |-> c, out |-> k] \in LaidOut
              /\ c \notin DOMAIN copies => [chan |-> c, out |-> Direct] \in LaidOut
         /\ \A x \in LaidOut :
              \E c \in DOMAIN opUses :
                IF c \in DOMAIN copies
                THEN \E k \in 0 .. copies[c] - 1 : x = [chan |-> c, out |-> k]
                ELSE x = [chan |-> c, out |-> Direct]
<1> DEFINE E(c) == IF c \in DOMAIN copies
                   THEN {[chan |-> c, out |-> k] : k \in 0 .. copies[c] - 1}
                   ELSE {[chan |-> c, out |-> Direct]}
<1>1. LaidOut = UNION {E(c) : c \in DOMAIN opUses}
  BY DEF LaidOut
<1>2. \A x : x \in LaidOut <=> \E c \in DOMAIN opUses : x \in E(c)
  <2> HIDE DEF E
  <2> QED
    BY <1>1
<1>3. \A c : c \in DOMAIN copies =>
               \A x : x \in E(c) <=> \E k \in 0 .. copies[c] - 1 : x = [chan |-> c, out |-> k]
  OBVIOUS
<1>4. \A c : c \notin DOMAIN copies =>
               \A x : x \in E(c) <=> x = [chan |-> c, out |-> Direct]
  OBVIOUS
<1> HIDE DEF E
<1> QED
  BY <1>2, <1>3, <1>4

LEMMA WantedReads ==
  /\ \A i \in DOMAIN prog : \A k \in CountedSlots(prog[i]) :
       [elem |-> i, slot |-> k, chan |-> SlotChan(prog[i], k)] \in Wanted
  /\ \A w \in Wanted : \E i \in DOMAIN prog : \E k \in CountedSlots(prog[i]) :
       w = [elem |-> i, slot |-> k, chan |-> SlotChan(prog[i], k)]
<1> DEFINE W(i) == {[elem |-> i, slot |-> k, chan |-> SlotChan(prog[i], k)] :
                      k \in CountedSlots(prog[i])}
<1>1. Wanted = UNION {W(i) : i \in DOMAIN prog}
  BY DEF Wanted
<1>2. \A x : x \in Wanted <=> \E i \in DOMAIN prog : x \in W(i)
  <2> HIDE DEF W
  <2> QED
    BY <1>1
<1>3. \A i : \A x : x \in W(i) <=> \E k \in CountedSlots(prog[i]) :
               x = [elem |-> i, slot |-> k, chan |-> SlotChan(prog[i], k)]
  OBVIOUS
<1> HIDE DEF W
<1> QED
  BY <1>2, <1>3

\* What is attached is attached as Fanout wants it.
LEMMA MatchedHolds ==
  ASSUME IInv, HeldInv, UnsharedSinks, phase \in {"emit", "done"}
  PROVE  F!Matched(readers)
<1>0. prog \in Programs /\ OnePerSlot
  BY DEF IInv, HeldInv
<1>1. ASSUME NEW g \in readers
      PROVE  /\ g.elem \in DOMAIN prog /\ g.slot \in CountedSlots(prog[g.elem])
             /\ g.at.chan = SlotChan(prog[g.elem], g.slot)
             /\ g.at.chan \in DOMAIN opUses
             /\ g.at = [chan |-> g.at.chan, out |-> g.at.out]
  <2>1. g.at \in Endpoint
    BY DEF IInv, TypeOK
  <2> QED
    BY <2>1 DEF IInv, ReaderInv, Endpoint
<1>2. ASSUME NEW g \in readers, prog[g.elem].t = "sink"
      PROVE  g.slot = 1 /\ g.at.chan = prog[g.elem].in[1]
  <2>1. /\ CountedSlots(prog[g.elem]) = DOMAIN prog[g.elem].in
        /\ DOMAIN prog[g.elem].in = 1 .. Len(prog[g.elem].in)
    BY <1>0, <1>1, <1>2, ElementFacts, SlotFacts
  <2>2. Len(prog[g.elem].in) = 1
    BY <1>0, <1>1, <1>2, ProgramsAssumption
  <2>3. g.slot \in 1 .. 1
    BY <1>1, <2>1, <2>2
  <2>4. g.slot = 1
    BY <2>3
  <2>5. SlotChan(prog[g.elem], 1) = prog[g.elem].in[1]
    BY DEF SlotChan
  <2>6. g.at.chan = SlotChan(prog[g.elem], g.slot)
    BY <1>1
  <2> QED
    BY ONLY <2>4, <2>5, <2>6, Zenon
<1>3. ASSUME NEW g \in readers
      PROVE  g.at \in LaidOut
  <2>1. CASE g.at.out = Direct
    <3>1. g.at.chan \notin DOMAIN copies
      <4>1. CASE prog[g.elem].t = "sink"
        BY <1>1, <1>2, <4>1, SunkUncopied
      <4>2. CASE prog[g.elem].t # "sink"
        BY <2>1, <4>2 DEF IInv, OneReader
      <4> QED
        BY <4>1, <4>2
    <3> QED
      BY <1>1, <2>1, <3>1, EndsLaidOut
  <2>2. CASE g.at.out # Direct
    <3>1. g.at.chan \in DOMAIN copies /\ g.at.out \in 0 .. copies[g.at.chan] - 1
      BY <2>2 DEF IInv, EndpointExists
    <3> QED
      BY <1>1, <3>1, EndsLaidOut
  <2> QED
    BY <2>1, <2>2
<1>4. ASSUME NEW g \in readers
      PROVE  [elem |-> g.elem, slot |-> g.slot, chan |-> g.at.chan] \in Wanted
  BY <1>1, WantedReads
<1>5. ASSUME NEW f \in readers, NEW g \in readers, f.at = g.at
      PROVE  f.elem = g.elem /\ f.slot = g.slot
  <2>1. CASE prog[f.elem].t # "sink" \/ prog[g.elem].t # "sink"
    BY <1>5, <2>1 DEF IInv, OneReader
  <2>2. CASE prog[f.elem].t = "sink" /\ prog[g.elem].t = "sink"
    <3>1. SlotChan(prog[f.elem], f.slot) = prog[g.elem].in[1]
      BY <1>1, <1>2, <1>5, <2>2
    <3> QED
      BY <1>0, <1>1, <1>2, <2>2, <3>1, SunkAlone
  <2> QED
    BY <2>1, <2>2
<1>6. ASSUME NEW f \in readers, NEW g \in readers, f.elem = g.elem, f.slot = g.slot
      PROVE  f.at = g.at
  BY <1>0, <1>6 DEF OnePerSlot
<1> QED
  BY <1>3, <1>4, <1>5, <1>6 DEF F!Matched

\* As many ends are laid out for a channel as it has reads.
LEMMA ReadsNumbered ==
  ASSUME NEW c, prog \in Programs, NEW n, n = Len(prog) + 1,
         IsFiniteSet(Counted(prog, n, c))
  PROVE  Cardinality({w \in Wanted : w.chan = c}) = Cardinality(Counted(prog, n, c))
<1> DEFINE C == Counted(prog, n, c)
           W == {w \in Wanted : w.chan = c}
           g == [s \in C |-> [elem |-> s[1], slot |-> s[2], chan |-> c]]
<1>1. Len(prog) \in Nat /\ DOMAIN prog = 1 .. Len(prog) /\ prog \in Seq(Element)
  BY ProgramsAssumption
<1>2. ASSUME NEW s \in C
      PROVE  /\ s = <<s[1], s[2]>>
             /\ [elem |-> s[1], slot |-> s[2], chan |-> c] \in W
  <2>1. s \in (1 .. n - 1) \X Nat /\ s[2] \in Hits(prog[s[1]], CountedSlots(prog[s[1]]), c)
    BY DEF Counted
  <2>2. s[1] \in DOMAIN prog /\ s[2] \in CountedSlots(prog[s[1]])
        /\ SlotChan(prog[s[1]], s[2]) = c
    BY <1>1, <2>1 DEF Hits
  <2>3. [elem |-> s[1], slot |-> s[2], chan |-> c] \in Wanted
    BY <2>2, WantedReads
  <2> QED
    BY <2>1, <2>3
<1>3. ASSUME NEW w \in W
      PROVE  \E s \in C : w = [elem |-> s[1], slot |-> s[2], chan |-> c]
  <2>0. PICK i \in DOMAIN prog : \E k \in CountedSlots(prog[i]) :
               w = [elem |-> i, slot |-> k, chan |-> SlotChan(prog[i], k)]
    BY WantedReads
  <2>1. PICK k \in CountedSlots(prog[i]) :
               w = [elem |-> i, slot |-> k, chan |-> SlotChan(prog[i], k)]
    BY <2>0
  <2>2. SlotChan(prog[i], k) = c
    BY <2>1
  <2>3. <<i, k>> \in C
    BY <2>2, SlotIsCounted
  <2> QED
    BY <2>1, <2>2, <2>3
<1>4. g \in Bijection(C, W)
  <2> HIDE DEF C, W
  <2>1. g \in [C -> W]
    BY <1>2
  <2>2. \A s, t \in C : g[s] = g[t] => s = t
    BY <1>2
  <2>3. \A w \in W : \E s \in C : g[s] = w
    BY <1>3
  <2> HIDE DEF g
  <2> QED
    BY <2>1, <2>2, <2>3 DEF Bijection, Injection, Surjection, IsInjective
<1> HIDE DEF g
<1>5. ExistsBijection(C, W)
  BY <1>4 DEF ExistsBijection
<1> QED
  BY <1>5, FS_Bijection

LEMMA EndsNumbered ==
  ASSUME phase \in {"emit", "done"}, NEW c,
         DOMAIN copies = {d \in DOMAIN opUses : opUses[d] > 0},
         c \in DOMAIN opUses => opUses[c] \in Nat,
         c \in DOMAIN copies => copies[c] = opUses[c] + 1
  PROVE  Cardinality({x \in LaidOut : x.chan = c}) = UsesBefore(c) + 1
<1> DEFINE X == {x \in LaidOut : x.chan = c}
<1>1. CASE c \notin DOMAIN opUses
  <2>1. X = {}
    BY <1>1, EndsLaidOut
  <2>2. UsesBefore(c) + 1 = 0
    BY <1>1 DEF UsesBefore
  <2> QED
    BY <2>1, <2>2, FS_EmptySet
<1>2. CASE c \in DOMAIN opUses /\ c \notin DOMAIN copies
  <2>1. X = {[chan |-> c, out |-> Direct]}
    <3>1. [chan |-> c, out |-> Direct] \in X
      BY <1>2, EndsLaidOut
    <3>2. ASSUME NEW x \in X PROVE x = [chan |-> c, out |-> Direct]
      BY <1>2, EndsLaidOut
    <3> HIDE DEF X
    <3> QED
      BY <3>1, <3>2
  <2>2. UsesBefore(c) = 0
    BY <1>2 DEF UsesBefore
  <2>3. Cardinality({[chan |-> c, out |-> Direct]}) = 1
    BY FS_Singleton
  <2> HIDE DEF X
  <2>4. Cardinality(X) = UsesBefore(c) + 1
    BY <2>1, <2>2, <2>3
  <2> QED
    BY <2>4 DEF X
<1>3. CASE c \in DOMAIN copies
  <2> DEFINE N == 0 .. copies[c] - 1
             g == [k \in N |-> [chan |-> c, out |-> k]]
  <2>1. c \in DOMAIN opUses /\ UsesBefore(c) = opUses[c] /\ copies[c] = UsesBefore(c) + 1
        /\ copies[c] \in Nat
    BY <1>3 DEF UsesBefore
  <2>2. ASSUME NEW k \in N PROVE [chan |-> c, out |-> k] \in X
    BY <1>3, <2>1, EndsLaidOut
  <2>3. ASSUME NEW x \in X PROVE \E k \in N : x = [chan |-> c, out |-> k]
    BY <1>3, EndsLaidOut
  <2>4. IsFiniteSet(N) /\ Cardinality(N) = copies[c]
    <3>1. ASSUME NEW m \in Nat
          PROVE  IsFiniteSet(0 .. m - 1) /\ Cardinality(0 .. m - 1) = m
      <4>1. 0 \in Int /\ m - 1 \in Int
        OBVIOUS
      <4>2. /\ IsFiniteSet(0 .. m - 1)
            /\ Cardinality(0 .. m - 1) = IF 0 > m - 1 THEN 0 ELSE (m - 1) - 0 + 1
        BY <4>1, FS_Interval
      <4> QED
        BY <4>2
    <3> QED
      BY <2>1, <3>1
  <2>5. g \in Bijection(N, X)
    <3> HIDE DEF N, X
    <3>1. g \in [N -> X] /\ \A j, k \in N : g[j] = g[k] => j = k
      BY <2>2
    <3>2. \A x \in X : \E k \in N : g[k] = x
      BY <2>3
    <3> HIDE DEF g
    <3> QED
      BY <3>1, <3>2 DEF Bijection, Injection, Surjection, IsInjective
  <2> HIDE DEF g, N
  <2>6. ExistsBijection(N, X)
    BY <2>5 DEF ExistsBijection
  <2>7. Cardinality(X) = Cardinality(N)
    BY <2>4, <2>6, FS_Bijection
  <2> QED
    BY <2>1, <2>4, <2>7
<1> QED
  BY <1>1, <1>2, <1>3

\* Passing the second walk over is all of Fanout's closing condition.
LEMMA NothingLeft ==
  ASSUME IInv, HeldInv, UnsharedSinks, phase \in {"emit", "done"}, pos = Len(prog) + 1
  PROVE  /\ \A w \in Wanted : \E h \in readers : h.elem = w.elem /\ h.slot = w.slot
         /\ \A x \in LaidOut : \E h \in readers : h.at = x
<1>0. /\ prog \in Programs /\ prog \in Seq(Element) /\ Len(prog) \in Nat
      /\ DOMAIN prog = 1 .. Len(prog) /\ PassedAttached /\ HandedOutRead
  BY ProgramsAssumption DEF IInv, HeldInv
<1>1. ASSUME NEW i \in DOMAIN prog, NEW k \in CountedSlots(prog[i])
      PROVE  \E r \in readers : r.elem = i /\ r.slot = k
  BY <1>0 DEF PassedAttached
<1>2. ASSUME NEW w \in Wanted
      PROVE  \E h \in readers : h.elem = w.elem /\ h.slot = w.slot
  <2>1. PICK i \in DOMAIN prog : \E k \in CountedSlots(prog[i]) :
               w = [elem |-> i, slot |-> k, chan |-> SlotChan(prog[i], k)]
    BY WantedReads
  <2>2. PICK k \in CountedSlots(prog[i]) :
               w = [elem |-> i, slot |-> k, chan |-> SlotChan(prog[i], k)]
    BY <2>1
  <2>3. w.elem = i /\ w.slot = k
    BY <2>2
  <2> QED
    BY <1>1, <2>3
<1>3. ASSUME NEW c \in DOMAIN opUses
      PROVE  /\ c \in Chan /\ opUses[c] \in Nat /\ UsesBefore(c) = opUses[c]
             /\ IsFiniteSet(Counted(prog, pos, c))
             /\ Cardinality(Counted(prog, pos, c)) = opUses[c] + 1
             /\ opUses[c] > 0 => copyUses[c] = Cardinality(Asked(prog, pos, c))
  <2>1. c \in Chan /\ opUses[c] \in Nat /\ UsesBefore(c) = opUses[c]
    BY DEF IInv, TypeOK, UsesBefore
  <2> QED
    BY <2>1 DEF IInv, CountInv, ServeInv, Passed
<1>4. ASSUME NEW c \in DOMAIN copies, NEW k \in 0 .. copies[c] - 1
      PROVE  \E h \in readers : h.at = [chan |-> c, out |-> k]
  <2>1. c \in DOMAIN opUses /\ opUses[c] > 0 /\ copies[c] = opUses[c] + 1
    BY DEF IInv, CopiesInv
  <2>2. SinkReads(prog, c) = {}
    <3> SUFFICES ASSUME NEW i \in SinkReads(prog, c) PROVE FALSE
      OBVIOUS
    <3>1. i \in DOMAIN prog /\ prog[i].t = "sink" /\ \E j \in DOMAIN prog[i].in : prog[i].in[j] = c
      BY DEF SinkReads
    <3>2. PICK j \in DOMAIN prog[i].in : prog[i].in[j] = c
      BY <3>1
    <3>3. Len(prog[i].in) = 1 /\ DOMAIN prog[i].in = 1 .. Len(prog[i].in)
      BY <1>0, <3>1, ProgramsAssumption, ElementFacts, SlotFacts
    <3>4. j \in 1 .. 1
      BY <3>3
    <3>5. prog[i].in[1] = c
      BY <3>2, <3>4
    <3> QED
      BY <3>1, <3>5, SunkUncopied
  <2>3. Cardinality(SinkReads(prog, c)) = 0
    BY <2>2, FS_EmptySet
  <2>4. /\ Asked(prog, pos, c) \subseteq Counted(prog, pos, c)
        /\ Cardinality(SinkReads(prog, c))
             = Cardinality(Counted(prog, pos, c)) - Cardinality(Asked(prog, pos, c))
    BY <1>0, <1>3, <2>1, UnaskedAreSinks
  <2>5. Cardinality(Asked(prog, pos, c)) \in Nat
    BY <1>3, <2>1, <2>4, FS_Subset, FS_CardinalityType
  <2>6. copyUses[c] = copies[c]
    BY <1>3, <2>1, <2>3, <2>4, <2>5
  <2> QED
    BY <1>0, <2>6 DEF HandedOutRead
<1>5. ASSUME NEW c \in DOMAIN opUses, c \notin DOMAIN copies
      PROVE  \E h \in readers : h.at = [chan |-> c, out |-> Direct]
  <2>1. opUses[c] = 0
    BY <1>3, <1>5 DEF IInv, CopiesInv
  <2>2. Counted(prog, pos, c) # {}
    BY <1>3, <2>1, FS_EmptySet
  <2>3. PICK s : s \in Counted(prog, pos, c)
    BY <2>2
  <2>4. s \in (1 .. pos - 1) \X Nat /\ s[2] \in Hits(prog[s[1]], CountedSlots(prog[s[1]]), c)
    BY <2>3 DEF Counted
  <2>5. s[1] \in DOMAIN prog /\ s[2] \in CountedSlots(prog[s[1]])
        /\ SlotChan(prog[s[1]], s[2]) = c
    BY <1>0, <2>4 DEF Hits
  <2>6. PICK r \in readers : r.elem = s[1] /\ r.slot = s[2]
    BY <1>1, <2>5
  <2>7. r.at.chan = c /\ r.at.out = Direct
    BY <2>1, <2>5, <2>6 DEF IInv, ReaderInv
  <2>8. r.at \in Endpoint
    BY DEF IInv, TypeOK
  <2>9. r.at = [chan |-> c, out |-> Direct]
    BY <2>7, <2>8 DEF Endpoint
  <2> QED
    BY <2>9
<1>6. ASSUME NEW x \in LaidOut
      PROVE  \E h \in readers : h.at = x
  BY <1>4, <1>5, EndsLaidOut
<1> QED
  BY <1>2, <1>6

LEMMA FanoutInit == IInv /\ Init => F!Init
<1> SUFFICES ASSUME IInv, Init PROVE F!Init
  OBVIOUS
<1>1. AbstractStage = "counting" /\ LaidOut = {} /\ readers = {}
  BY DEF Init, AbstractStage, LaidOut
<1>2. ASSUME NEW w \in Wanted PROVE w.chan \in Chan
  <2>1. PICK i \in DOMAIN prog : \E k \in CountedSlots(prog[i]) :
               w = [elem |-> i, slot |-> k, chan |-> SlotChan(prog[i], k)]
    BY WantedReads
  <2>2. PICK k \in CountedSlots(prog[i]) :
               w = [elem |-> i, slot |-> k, chan |-> SlotChan(prog[i], k)]
    BY <2>1
  <2>3. SlotChan(prog[i], k) \in Chan
    BY ElementFacts, SlotFacts DEF IInv
  <2> QED
    BY <2>2, <2>3
<1> QED
  BY <1>1, <1>2 DEF F!Init

\* createCopyProcs lays out as many ends for a channel as it is read.
EndsMatchReads ==
  phase \in {"emit", "done"} =>
    \A c \in Chan : Cardinality({x \in LaidOut : x.chan = c})
                      = Cardinality({w \in Wanted : w.chan = c})

AttachedMatch == phase \in {"emit", "done"} => F!Matched(readers)

LEMMA EndsMatchHolds == IInv => EndsMatchReads
<1> SUFFICES ASSUME IInv, phase \in {"emit", "done"}, NEW c \in Chan
             PROVE  Cardinality({x \in LaidOut : x.chan = c})
                      = Cardinality({w \in Wanted : w.chan = c})
  BY DEF EndsMatchReads
<1>1. /\ DOMAIN copies = {d \in DOMAIN opUses : opUses[d] > 0}
      /\ c \in DOMAIN opUses => opUses[c] \in Nat
      /\ c \in DOMAIN copies => copies[c] = opUses[c] + 1
  BY DEF IInv, CopiesInv, TypeOK
<1>2. /\ IsFiniteSet(Counted(prog, Len(prog) + 1, c))
      /\ Cardinality(Counted(prog, Len(prog) + 1, c)) = UsesBefore(c) + 1
  BY DEF IInv, CountInv, Passed
<1>3. Cardinality({x \in LaidOut : x.chan = c}) = UsesBefore(c) + 1
  BY <1>1, EndsNumbered
<1>4. Cardinality({w \in Wanted : w.chan = c}) = Cardinality(Counted(prog, Len(prog) + 1, c))
  BY <1>2, ReadsNumbered DEF IInv
<1> QED
  BY <1>2, <1>3, <1>4

\* Fanout counts as this module does.
LEMMA SameCardinality == \A S : F!Cardinality(S) = Cardinality(S)
  BY DEF Cardinality, F!Cardinality

\* Every step of the walks is a step of Fanout or none.
LEMMA FanoutStep ==
  ASSUME IInv, HeldInv, EndsMatchReads', AttachedMatch', UnsharedSinks, [Next]_vars
  PROVE  [F!Next]_(F!vars)
<1>0. pos \in 1 .. Len(prog) + 1 /\ DOMAIN prog = 1 .. Len(prog) /\ Len(prog) \in Nat
  BY DEF IInv, TypeOK
<1>1. CASE CollectElement
  <2>1. phase = "collect" /\ phase' = "collect" /\ prog' = prog /\ readers' = readers
    BY <1>1 DEF CollectElement, At
  <2> QED
    BY <2>1 DEF F!vars, AbstractStage, Wanted, LaidOut
<1>2. CASE CollectAbort \/ EmitAbort
  <2>1. phase \in {"collect", "emit"} /\ phase' = "abort" /\ prog' = prog
    BY <1>2 DEF CollectAbort, EmitAbort, Abort, At
  <2>2. F!Fail
    BY <2>1 DEF F!Fail, AbstractStage, Wanted
  <2> QED
    BY <2>2 DEF F!Next
<1>3. CASE CreateCopyProcs
  <2>1. /\ phase = "collect" /\ phase' = "emit" /\ prog' = prog /\ readers' = readers
    BY <1>3 DEF CreateCopyProcs
  <2>2. AbstractStage = "counting" /\ AbstractStage' = "attaching" /\ Wanted' = Wanted
    BY <2>1 DEF AbstractStage, Wanted
  <2>3. \A c \in Chan : Cardinality({x \in LaidOut' : x.chan = c})
                          = Cardinality({w \in Wanted' : w.chan = c})
    BY <2>1 DEF EndsMatchReads
  <2>4. \A c \in Chan : Cardinality({x \in LaidOut' : x.chan = c}) = Cardinality(F!WantedOn(c))
    <3> TAKE c \in Chan
    <3>1. F!WantedOn(c) = {w \in Wanted' : w.chan = c}
      BY <2>2 DEF F!WantedOn
    <3>2. Cardinality({x \in LaidOut' : x.chan = c})
            = Cardinality({w \in Wanted' : w.chan = c})
      BY <2>3
    <3> QED
      BY ONLY <3>1, <3>2
  <2>5. F!LayOut
    BY <2>1, <2>2, <2>4, SameCardinality DEF F!LayOut
  <2> QED
    BY <2>5 DEF F!Next
<1>4. CASE EmitFunc \/ EmitCluster \/ EmitMerge \/ EmitMixer \/ EmitSplit \/ EmitSink
  <2>1. /\ phase = "emit" /\ phase' = "emit" /\ readers \subseteq readers'
        /\ UNCHANGED <<prog, opUses, copies>>
    BY <1>4 DEF EmitFunc, EmitCluster, EmitMerge, EmitMixer, EmitSplit, EmitSink, Plainly,
                Serve, At
  <2>2. /\ AbstractStage = "attaching" /\ AbstractStage' = AbstractStage
        /\ Wanted' = Wanted /\ LaidOut' = LaidOut
    BY <2>1 DEF AbstractStage, Wanted, LaidOut
  <2>3. F!Matched(readers')
    BY <2>1, <2>2 DEF AttachedMatch, F!Matched
  <2>4. F!Attach
    BY <2>1, <2>2, <2>3 DEF F!Attach
  <2> QED
    BY <2>4 DEF F!Next
<1>5. CASE Finish
  <2>1. /\ phase = "emit" /\ phase' = "done" /\ pos = Len(prog) + 1
        /\ UNCHANGED <<prog, opUses, copies, readers>>
    BY <1>0, <1>5 DEF Finish
  <2>2. /\ AbstractStage = "attaching" /\ AbstractStage' = "closed"
        /\ Wanted' = Wanted /\ LaidOut' = LaidOut
    BY <2>1 DEF AbstractStage, Wanted, LaidOut
  <2>3. /\ \A w \in Wanted : \E h \in readers : h.elem = w.elem /\ h.slot = w.slot
        /\ \A x \in LaidOut : \E h \in readers : h.at = x
    BY <2>1, NothingLeft
  <2>4. F!Close
    BY <2>1, <2>2, <2>3 DEF F!Close
  <2> QED
    BY <2>4 DEF F!Next
<1>6. CASE UNCHANGED vars
  BY <1>6 DEF vars, F!vars, AbstractStage, Wanted, LaidOut
<1> QED
  BY <1>1, <1>2, <1>3, <1>4, <1>5, <1>6 DEF Next

\* Where no sink shares its channel, the two walks do what Fanout promises:
\* every read gets an end of its own, and a finished process has none left.
THEOREM WalksImplementFanout == ASSUME UnsharedSinks PROVE Spec => FanoutSpec
<1>1. IInv /\ Init => F!Init
  BY FanoutInit
<1>2. IInv /\ HeldInv => EndsMatchReads /\ AttachedMatch
  BY EndsMatchHolds, MatchedHolds DEF AttachedMatch
<1>3. IInv /\ HeldInv /\ EndsMatchReads' /\ AttachedMatch' /\ [Next]_vars => [F!Next]_(F!vars)
  BY FanoutStep
<1> QED
  BY <1>1, <1>2, <1>3, HeldAlways, PTL DEF Spec, FanoutSpec, F!Spec
=============================================================================
