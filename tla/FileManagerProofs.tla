------------------------ MODULE FileManagerProofs -------------------------
(***************************************************************************)
(* The file manager, for every number of ants, length of the file, size of *)
(* the pieces and every crash.                                             *)
(*                                                                         *)
(* First the operators of the segment index, for every index and every     *)
(* piece: what OrderIndex, MergeIndex, Unmark, GetTask, WriteData,         *)
(* ReadIndex and SumBytes keep.  None of them loses a byte, lets two       *)
(* segments touch, or leaves two marks of one ant.  Where the operators    *)
(* recurse over the segments, a lemma states the turn of the loop, and     *)
(* Iterated and Induct do the induction, on a set of numbers.              *)
(*                                                                         *)
(* Then the actions: Spec keeps IInv; the properties of FileManager and    *)
(* the refinement of Download follow from it.                              *)
(* BytesTrue is not inductive by itself. SavedHeld is needed because a     *)
(* piece may give the part file the length at which a restart accepts it;  *)
(* Growing because the index file is rewritten while the task believes in  *)
(* a length that is shorter than the part file; and Growing holds because  *)
(* of Solo: while no length is known only one ant is at work, behind the   *)
(* only segment.  ErrorHasCause needs EInv besides: an ant that GetTask    *)
(* refuses leaves a marked segment to an ant that is still at work; and    *)
(* MarksAlive MInv: while its piece is being saved an ant is where it will *)
(* go on, and that is not ahead of its mark either.                        *)
(***************************************************************************)
EXTENDS FileManager, FiniteSetTheorems, SequenceTheorems, WellFoundedInduction,
        TLAPS

(* Every set of natural numbers that is not empty has a least element.     *)
LEMMA Least ==
  ASSUME NEW S, S \subseteq Nat, S # {}
  PROVE  \E x \in S : \A y \in S : x <= y
<1> DEFINE R == OpToRel(<, Nat)
<1>1. IsWellFoundedOn(R, Nat)
  BY NatLessThanWellFounded
<1>2. \A x, y \in Nat : y < x => <<y, x>> \in R
  BY DEF OpToRel
<1> HIDE DEF R
<1>3. \E x \in S : \A y \in S : ~(<<y, x>> \in R)
  BY <1>1, WFMin
<1>4. PICK x \in S : \A y \in S : ~(<<y, x>> \in R)
  BY <1>3
<1>5. \A y \in S : ~(y < x) /\ x \in Nat /\ y \in Nat
  BY <1>2, <1>4
<1> QED
  BY <1>5

(* Induction, for a set.                                                   *)
LEMMA Induct ==
  ASSUME NEW S, 0 \in S, \A n \in Nat : n \in S => n + 1 \in S
  PROVE  \A n \in Nat : n \in S
<1> DEFINE T == {n \in Nat : n \notin S}
<1> SUFFICES ASSUME T # {} PROVE FALSE
  OBVIOUS
<1>1. PICK x \in T : \A y \in T : x <= y
  BY Least
<1>2. x # 0 /\ x - 1 \in Nat /\ x - 1 \notin T
  BY <1>1
<1> QED
  BY <1>2

(* f is built from base: its i-th value is G[i] of the one before.         *)
Iterates(f, base, N, G) ==
  f[0] = base /\ \A i \in 1 .. N : f[i] = G[i][f[i - 1]]

(* A sequence of values, each computed from the one before, exists.        *)
LEMMA Iterated ==
  ASSUME NEW V, NEW base \in V, NEW N \in Nat, NEW G \in [Nat -> [V -> V]]
  PROVE  \E f \in [0 .. N -> V] : Iterates(f, base, N, G)
<1> DEFINE Is(f, n) == f[0] = base /\ \A i \in 1 .. n : f[i] = G[i][f[i - 1]]
           S == {n \in Nat : \E f \in [0 .. n -> V] : Is(f, n)}
<1>1. 0 \in S
  <2> DEFINE f == [i \in 0 .. 0 |-> base]
  <2>1. f \in [0 .. 0 -> V] /\ Is(f, 0)
    OBVIOUS
  <2> QED
    BY <2>1
<1>2. ASSUME NEW n \in Nat, n \in S
      PROVE  n + 1 \in S
  <2>1. PICK f \in [0 .. n -> V] : Is(f, n)
    BY <1>2
  <2> DEFINE g == [i \in 0 .. n + 1 |-> IF i = n + 1 THEN G[n + 1][f[n]] ELSE f[i]]
  <2>2. f[n] \in V /\ G[n + 1] \in [V -> V]
    OBVIOUS
  <2>3. g \in [0 .. n + 1 -> V]
    BY <2>2
  <2>4. g[0] = base
    BY <2>1
  <2>5. ASSUME NEW i \in 1 .. n + 1
        PROVE  g[i] = G[i][g[i - 1]]
    BY <2>1
  <2>6. Is(g, n + 1)
    BY <2>4, <2>5
  <2> HIDE DEF g
  <2> QED
    BY <2>3, <2>6
<1> HIDE DEF S
<1>3. N \in S
  BY <1>1, <1>2, Induct
<1> QED
  BY <1>3 DEF S, Iterates

(* What MergeTurn works on.                                                *)
Acc == [done : Seq(Segments), last : Segments]

(* A turn of MergeIndex keeps the type of what it works on.                *)
LEMMA MergeTurnType ==
  ASSUME NEW acc \in Acc, NEW s \in Segments
  PROVE  MergeTurn(acc, s) \in Acc
<1>1. /\ acc.done \in Seq(Segments) /\ acc.last \in Segments
      /\ acc = [done |-> acc.done, last |-> acc.last]
  BY DEF Acc
<1>2. Join(acc.last, s) \in Segments
  BY <1>1 DEF Join, Segments
<1>3. [acc EXCEPT !.last = Join(acc.last, s)] \in Acc
  BY <1>2 DEF Acc
<1>4. Append(acc.done, acc.last) \in Seq(Segments)
  BY <1>1
<1> QED
  BY <1>1, <1>3, <1>4 DEF MergeTurn, Acc

(* Merging is the function its recursion describes: one turn per segment.  *)
LEMMA MergingDef ==
  ASSUME NEW segs \in Seq(Segments), segs # << >>
  PROVE  /\ Merging(segs) \in [1 .. Len(segs) -> Acc]
         /\ Merging(segs)[1] = [done |-> << >>, last |-> segs[1]]
         /\ \A i \in 2 .. Len(segs) :
              Merging(segs)[i] = MergeTurn(Merging(segs)[i - 1], segs[i])
<1>1. Len(segs) \in Nat /\ Len(segs) # 0 /\ DOMAIN segs = 1 .. Len(segs)
  OBVIOUS
<1> DEFINE base == [done |-> << >>, last |-> segs[1]]
           G == [i \in Nat |-> [a \in Acc |-> IF i + 1 \in 1 .. Len(segs) THEN MergeTurn(a, segs[i + 1]) ELSE a]]
           N == Len(segs) - 1
<1>2. base \in Acc
  BY <1>1 DEF Acc
<1>3. G \in [Nat -> [Acc -> Acc]]
  BY MergeTurnType
<1>a. PICK f \in [0 .. N -> Acc] : Iterates(f, base, N, G)
  <2>1. N \in Nat
    BY <1>1
  <2> HIDE DEF base, G, N
  <2> QED
    BY <1>2, <1>3, <2>1, Iterated
<1>4. f[0] = base /\ \A i \in 1 .. N : f[i] = G[i][f[i - 1]]
  BY <1>a DEF Iterates
<1> DEFINE Is(acc) == acc = [i \in DOMAIN segs |->
              IF i = 1 THEN [done |-> << >>, last |-> segs[1]]
              ELSE MergeTurn(acc[i - 1], segs[i])]
           g == [i \in DOMAIN segs |-> f[i - 1]]
<1>5. Is(g)
  <2>1. ASSUME NEW i \in DOMAIN segs, i # 1
        PROVE g[i] = MergeTurn(g[i - 1], segs[i])
    <3>1. i - 1 \in 1 .. N /\ i - 1 \in Nat /\ i - 1 \in DOMAIN segs /\ i - 2 \in 0 .. N
      BY <1>1, <2>1
    <3>2. f[i - 1] = G[i - 1][f[i - 1 - 1]]
      BY <1>4, <3>1
    <3>3. f[i - 1 - 1] \in Acc /\ i - 1 - 1 = i - 2
      BY <1>1, <1>4, <3>1
    <3>4. f[i - 1] = MergeTurn(f[i - 1 - 1], segs[i])
      BY <1>1, <3>1, <3>2, <3>3
    <3>5. g[i] = f[i - 1] /\ g[i - 1] = f[i - 1 - 1]
      BY <3>1
    <3> QED
      BY <3>4, <3>5
  <2>2. g[1] = [done |-> << >>, last |-> segs[1]]
    BY <1>1, <1>4
  <2> HIDE DEF g
  <2>3. g = [i \in DOMAIN segs |-> g[i]]
    BY DEF g
  <2> QED
    BY <2>1, <2>2, <2>3
<1>6. Merging(segs) = CHOOSE acc : Is(acc)
  BY DEF Merging
<1>7. Is(Merging(segs))
  BY <1>5, <1>6
<1>8. \A i \in 1 .. Len(segs) : Merging(segs)[i] \in Acc
  <2> DEFINE S == {n \in Nat : n + 1 \in 1 .. Len(segs) => Merging(segs)[n + 1] \in Acc}
  <2>1. 0 \in S
    BY <1>1, <1>2, <1>7
  <2>2. ASSUME NEW n \in Nat, n \in S
        PROVE n + 1 \in S
    BY <1>1, <1>7, <2>2, MergeTurnType
  <2> HIDE DEF S
  <2>3. \A n \in Nat : n \in S
    BY <2>1, <2>2, Induct
  <2> QED
    BY <1>1, <2>3 DEF S
<1>9. DOMAIN Merging(segs) = 1 .. Len(segs)
        /\ Merging(segs) = [i \in 1 .. Len(segs) |-> Merging(segs)[i]]
  BY <1>1, <1>7
<1>10. \A i \in 2 .. Len(segs) :
         Merging(segs)[i] = MergeTurn(Merging(segs)[i - 1], segs[i])
  <2> TAKE i \in 2 .. Len(segs)
  <2>1. i \in DOMAIN segs /\ i # 1
    BY <1>1
  <2> QED
    BY <1>7, <2>1
<1>11. Merging(segs)[1] = [done |-> << >>, last |-> segs[1]]
  BY <1>1, <1>7
<1> HIDE DEF Is
<1> QED
  BY <1>8, <1>9, <1>10, <1>11
-----------------------------------------------------------------------------
(* The types of an index, its segments and their fields.                   *)
LEMMA SegTypes ==
  ASSUME NEW segs \in Seq(Segments)
  PROVE  /\ Len(segs) \in Nat /\ DOMAIN segs = 1 .. Len(segs)
         /\ \A i \in DOMAIN segs :
              /\ i \in Nat /\ segs[i] \in Segments
              /\ segs[i].start \in Nat /\ segs[i].end \in Nat
              /\ segs[i].mark \in Ants \cup {NoAnt}
              /\ segs[i] = [start |-> segs[i].start, end |-> segs[i].end,
                            mark |-> segs[i].mark]
<1>1. Len(segs) \in Nat /\ DOMAIN segs = 1 .. Len(segs)
  OBVIOUS
<1>2. ASSUME NEW i \in DOMAIN segs
      PROVE  i \in Nat /\ segs[i] \in Segments
  BY <1>1
<1> QED
  BY <1>1, <1>2 DEF Segments

(* A byte is in some segment.                                              *)
Has(segs, b) == \E i \in DOMAIN segs : segs[i].start <= b /\ b < segs[i].end

(* The bytes of an index, without their union.                             *)
LEMMA BytesHas ==
  ASSUME NEW segs \in Seq(Segments)
  PROVE  /\ \A b : b \in Bytes(segs) <=> b \in Nat /\ Has(segs, b)
         /\ Bytes(segs) \subseteq Nat
<1>1. \A i \in DOMAIN segs : segs[i].start \in Nat /\ segs[i].end \in Nat
  BY SegTypes
<1>2. ASSUME NEW b
      PROVE  b \in Bytes(segs) <=> b \in Nat /\ Has(segs, b)
  <2>1. b \in Bytes(segs) <=>
          \E i \in DOMAIN segs : b \in segs[i].start .. segs[i].end - 1
    BY DEF Bytes, ToSet
  <2>2. \A i \in DOMAIN segs :
          b \in segs[i].start .. segs[i].end - 1 <=>
            b \in Nat /\ segs[i].start <= b /\ b < segs[i].end
    BY <1>1
  <2> QED
    BY <2>1, <2>2 DEF Has
<1> QED
  BY <1>2

(* The segments may come to overlap, but their starts are in order.        *)
Sorted(segs) ==
  /\ \A i \in DOMAIN segs : segs[i].start <= segs[i].end
  /\ \A i, j \in DOMAIN segs : i <= j => segs[i].start <= segs[j].start

(* An index in order is sorted by start.                                   *)
LEMMA OrderedSorted ==
  ASSUME NEW segs \in Seq(Segments), Ordered(segs)
  PROVE  Sorted(segs)
<1>1. \A i \in DOMAIN segs : segs[i].start \in Nat /\ segs[i].end \in Nat /\ i \in Nat
  BY SegTypes
<1> QED
  BY <1>1 DEF Ordered, Sorted

(* A segment behind the others: what the index holds, and when it is in    *)
(* order.                                                                  *)
LEMMA AppendSegs ==
  ASSUME NEW d \in Seq(Segments), NEW e \in Segments
  PROVE  /\ Append(d, e) \in Seq(Segments) /\ Len(Append(d, e)) = Len(d) + 1
         /\ DOMAIN Append(d, e) = 1 .. Len(d) + 1
         /\ Append(d, e)[Len(d) + 1] = e
         /\ \A k \in 1 .. Len(d) : Append(d, e)[k] = d[k]
         /\ \A b : Has(Append(d, e), b) <=>
                     Has(d, b) \/ (e.start <= b /\ b < e.end)
         /\ Ordered(Append(d, e)) <=>
              /\ Ordered(d) /\ e.start <= e.end
              /\ \A k \in DOMAIN d : d[k].end < e.start
<1> DEFINE a == Append(d, e)
<1>1. /\ a \in Seq(Segments) /\ Len(a) = Len(d) + 1 /\ Len(d) \in Nat
      /\ DOMAIN a = 1 .. Len(d) + 1 /\ DOMAIN d = 1 .. Len(d)
      /\ a[Len(d) + 1] = e
      /\ \A k \in 1 .. Len(d) : a[k] = d[k]
  OBVIOUS
<1>2. \A k : k \in DOMAIN a <=> k \in DOMAIN d \/ k = Len(d) + 1
  BY <1>1
<1>3. Len(d) + 1 \notin DOMAIN d
  BY <1>1
<1> HIDE DEF a
<1>4. \A b : Has(a, b) <=> Has(d, b) \/ (e.start <= b /\ b < e.end)
  BY <1>1, <1>2, <1>3 DEF Has
<1>5. \A k \in DOMAIN d : k < Len(d) + 1 /\ ~(Len(d) + 1 < k)
  BY <1>1
<1>6. ~(Len(d) + 1 < Len(d) + 1)
  BY <1>1
<1>7. Ordered(a) <=> /\ Ordered(d) /\ e.start <= e.end
                     /\ \A k \in DOMAIN d : d[k].end < e.start
  BY <1>1, <1>2, <1>3, <1>5, <1>6 DEF Ordered
<1> QED
  BY <1>1, <1>4, <1>7 DEF a

(* A byte is in this segment.                                              *)
In(s, b) == s.start <= b /\ b < s.end

(* A segment that MergeIndex makes has its start from one of the first n   *)
(* segments, and its end and its mark from one.                            *)
From(s, segs, n) ==
  /\ \E j \in 1 .. n : /\ s.mark = segs[j].mark /\ s.end = segs[j].end
                       /\ s.start <= segs[j].start
  /\ \E j \in 1 .. n : s.start = segs[j].start

(* What MergeIndex has made of the first n segments: d is done, and e is   *)
(* the one it joins others to.                                             *)
MergedAs(d, e, segs, n) ==
  /\ Ordered(d) /\ e.start <= e.end
  /\ \A k \in DOMAIN d : d[k].end < e.start
  /\ Len(d) < n
  /\ \A b \in Nat : Has(d, b) \/ In(e, b) <=> \E j \in 1 .. n : In(segs[j], b)
  /\ \A k \in DOMAIN d : From(d[k], segs, n)
  /\ From(e, segs, n)
  /\ e.start <= segs[n].start

(* A segment made of the first n is made of the first n + 1.               *)
LEMMA FromMore ==
  ASSUME NEW s, NEW segs, NEW n \in Nat, From(s, segs, n)
  PROVE  From(s, segs, n + 1)
<1>1. \A j \in 1 .. n : j \in 1 .. n + 1
  OBVIOUS
<1> QED
  BY <1>1 DEF From

(* A turn keeps what MergeIndex has made so far: the segments passed are   *)
(* in order and apart, and no byte is lost or added.                       *)
LEMMA TurnKeeps ==
  ASSUME NEW segs \in Seq(Segments), Sorted(segs),
         NEW n \in Nat, n \in DOMAIN segs, n + 1 \in DOMAIN segs,
         NEW d \in Seq(Segments), NEW e \in Segments, MergedAs(d, e, segs, n),
         NEW s \in Segments, s = segs[n + 1],
         NEW j \in Segments, j = Join(e, s)
  PROVE  /\ Apart(e, s) => MergedAs(Append(d, e), s, segs, n + 1)
         /\ Apart(e, s) /\ Vacant(e) => MergedAs(d, s, segs, n + 1)
         /\ ~Apart(e, s) => MergedAs(d, j, segs, n + 1)
<1>1. /\ Len(d) \in Nat /\ DOMAIN d = 1 .. Len(d)
      /\ \A k \in DOMAIN d : d[k].end \in Nat /\ d[k].start \in Nat
      /\ e.start \in Nat /\ e.end \in Nat /\ s.start \in Nat /\ s.end \in Nat
      /\ j.start \in Nat /\ j.end \in Nat
      /\ segs[n].start \in Nat
  BY SegTypes DEF Segments
<1>2. s.start <= s.end /\ e.start <= s.start
  <2>1. e.start <= segs[n].start /\ segs[n].start <= s.start /\ s.start <= s.end
    BY DEF MergedAs, Sorted
  <2> QED
    BY <1>1, <2>1
<1>3. \A i : i \in 1 .. n + 1 <=> i \in 1 .. n \/ i = n + 1
  OBVIOUS
<1>4. \A b : (\E i \in 1 .. n + 1 : In(segs[i], b)) <=>
             (\E i \in 1 .. n : In(segs[i], b)) \/ In(s, b)
  BY <1>3
<1>5. From(s, segs, n + 1)
  <2>1. n + 1 \in 1 .. n + 1 /\ s.start <= s.start
    BY <1>1
  <2> QED
    BY <2>1 DEF From
<1>6. /\ \A k \in DOMAIN d : From(d[k], segs, n + 1)
      /\ From(e, segs, n + 1)
  BY FromMore DEF MergedAs
<1>7. ASSUME Apart(e, s)
      PROVE  MergedAs(Append(d, e), s, segs, n + 1)
  <2> DEFINE a == Append(d, e)
  <2>1. /\ Len(a) = Len(d) + 1 /\ DOMAIN a = 1 .. Len(d) + 1
        /\ a[Len(d) + 1] = e /\ \A k \in 1 .. Len(d) : a[k] = d[k]
        /\ \A b : Has(a, b) <=> Has(d, b) \/ In(e, b)
        /\ Ordered(a)
    BY AppendSegs DEF MergedAs, In
  <2>2. \A k \in DOMAIN a : k = Len(d) + 1 \/ k \in DOMAIN d
    BY <1>1, <2>1
  <2> HIDE DEF a
  <2>3. e.end < s.start
    BY <1>7 DEF Apart
  <2>4. \A k \in DOMAIN d : d[k].end < s.start
    BY <1>1, <2>3, SMTT(30) DEF MergedAs
  <2>5. \A k \in DOMAIN a : a[k].end < s.start /\ From(a[k], segs, n + 1)
    BY <1>1, <1>6, <2>1, <2>2, <2>3, <2>4
  <2>6. Len(a) < n + 1
    BY <1>1, <2>1 DEF MergedAs
  <2>7. \A b \in Nat : Has(a, b) \/ In(s, b) <=> \E i \in 1 .. n + 1 : In(segs[i], b)
    BY <1>4, <2>1 DEF MergedAs
  <2>8. s.start <= segs[n + 1].start /\ Ordered(a)
    BY <1>1, <2>1
  <2>9. MergedAs(a, s, segs, n + 1)
    BY <1>2, <1>5, <2>5, <2>6, <2>7, <2>8 DEF MergedAs
  <2> QED
    BY <2>9 DEF a
<1>8. ASSUME Apart(e, s), Vacant(e)
      PROVE  MergedAs(d, s, segs, n + 1)
  <2>1. e.end < s.start /\ e.start = e.end
    BY <1>8 DEF Apart, Vacant
  <2>2. \A k \in DOMAIN d : d[k].end < s.start
    BY <1>1, <2>1 DEF MergedAs
  <2>3. \A b \in Nat : ~In(e, b)
    BY <1>1, <2>1 DEF In
  <2>4. \A b \in Nat : Has(d, b) \/ In(s, b) <=> \E i \in 1 .. n + 1 : In(segs[i], b)
    BY <1>4, <2>3 DEF MergedAs
  <2>5. Len(d) < n + 1
    BY <1>1 DEF MergedAs
  <2> QED
    BY <1>1, <1>2, <1>5, <1>6, <2>2, <2>4, <2>5 DEF MergedAs
<1>9. ASSUME ~Apart(e, s)
      PROVE  MergedAs(d, j, segs, n + 1)
  <2>1. s.start <= e.end
    BY <1>1, <1>9 DEF Apart
  <2>2. /\ j.start = e.start
        /\ \/ j.end = s.end /\ j.mark = s.mark /\ e.end < s.end
           \/ j = e /\ s.end <= e.end
    BY <1>1 DEF Join, Segments
  <2>3. j.start <= j.end /\ \A k \in DOMAIN d : d[k].end < j.start
    BY <1>1, <1>2, <2>2 DEF MergedAs
  <2>4. \A b \in Nat : In(j, b) <=> In(e, b) \/ In(s, b)
    BY <1>1, <1>2, <2>1, <2>2 DEF In, MergedAs
  <2>5. \A b \in Nat : Has(d, b) \/ In(j, b) <=> \E i \in 1 .. n + 1 : In(segs[i], b)
    BY <1>4, <2>4 DEF MergedAs
  <2>6. From(j, segs, n + 1)
    <3>1. CASE j = e
      BY <1>6, <3>1
    <3>2. CASE j.end = s.end /\ j.mark = s.mark
      <4>1. PICK i \in 1 .. n + 1 : e.start = segs[i].start
        BY <1>6 DEF From
      <4>2. \E k \in 1 .. n + 1 : j.start = segs[k].start
        BY <2>2, <4>1
      <4>3. n + 1 \in 1 .. n + 1
        OBVIOUS
      <4>4. /\ j.mark = segs[n + 1].mark /\ j.end = segs[n + 1].end
            /\ j.start <= segs[n + 1].start
        BY <1>2, <2>2, <3>2
      <4> QED
        BY <4>2, <4>3, <4>4 DEF From
    <3> QED
      BY <2>2, <3>1, <3>2
  <2>7. Len(d) < n + 1
    BY <1>1 DEF MergedAs
  <2> QED
    BY <1>1, <1>2, <1>6, <2>2, <2>3, <2>5, <2>6, <2>7 DEF MergedAs
<1> QED
  BY <1>7, <1>8, <1>9

(* MergeIndex leaves segments that are ordered and apart, with the bytes   *)
(* they had.                                                               *)
MergeKeeps(segs, out) ==
  /\ out \in Seq(Segments) /\ Len(out) <= Len(segs)
  /\ Ordered(out)
  /\ Bytes(out) = Bytes(segs)
  /\ \A k \in DOMAIN out : From(out[k], segs, Len(segs))
  /\ out = << >> => Len(segs) <= 1

(* After every turn the index holds the bytes of the segments passed.      *)
LEMMA MergeFolds ==
  ASSUME NEW segs \in Seq(Segments), Sorted(segs), NEW n \in 1 .. Len(segs)
  PROVE  LET acc == Merging(segs)[n]
         IN  acc \in Acc /\ MergedAs(acc.done, acc.last, segs, n)
<1> DEFINE M == Merging(segs)
           S == {m \in Nat : m + 1 \in 1 .. Len(segs) =>
                   M[m + 1] \in Acc /\ MergedAs(M[m + 1].done, M[m + 1].last, segs, m + 1)}
<1>1. /\ Len(segs) \in Nat /\ DOMAIN segs = 1 .. Len(segs) /\ segs # << >>
      /\ \A i \in DOMAIN segs :
           segs[i] \in Segments /\ segs[i].start \in Nat /\ segs[i].end \in Nat
  BY SegTypes
<1>2. /\ M \in [1 .. Len(segs) -> Acc]
      /\ M[1] = [done |-> << >>, last |-> segs[1]]
      /\ \A i \in 2 .. Len(segs) : M[i] = MergeTurn(M[i - 1], segs[i])
  BY <1>1, MergingDef
<1> HIDE DEF M
<1>3. 0 \in S
  <2>1. 1 \in DOMAIN segs
    BY <1>1
  <2>2. MergedAs(<< >>, segs[1], segs, 1)
    BY <1>1, <2>1 DEF MergedAs, Ordered, From, Has, In, Sorted
  <2> QED
    BY <1>1, <1>2, <2>1, <2>2
<1>4. ASSUME NEW m \in Nat, m \in S
      PROVE  m + 1 \in S
  <2> SUFFICES ASSUME m + 2 \in 1 .. Len(segs)
               PROVE  M[m + 2] \in Acc /\ MergedAs(M[m + 2].done, M[m + 2].last, segs, m + 2)
    OBVIOUS
  <2>1. /\ m + 1 \in DOMAIN segs /\ m + 2 \in DOMAIN segs /\ m + 2 \in 2 .. Len(segs)
        /\ m + 1 \in Nat /\ m + 1 + 1 = m + 2 /\ m + 2 - 1 = m + 1
    BY <1>1
  <2> DEFINE acc == M[m + 1]
             s == segs[m + 2]
  <2>2. acc \in Acc /\ MergedAs(acc.done, acc.last, segs, m + 1)
    BY <1>1, <1>4, <2>1
  <2>3. M[m + 2] = MergeTurn(acc, s) /\ s \in Segments
    BY <1>1, <1>2, <2>1
  <2>4. /\ acc.done \in Seq(Segments) /\ acc.last \in Segments
        /\ Join(acc.last, s) \in Segments /\ MergeTurn(acc, s) \in Acc
    BY <2>2, <2>3, MergeTurnType DEF Acc, Join, Segments
  <2>5. /\ Apart(acc.last, s) => MergedAs(Append(acc.done, acc.last), s, segs, m + 2)
        /\ Apart(acc.last, s) /\ Vacant(acc.last) => MergedAs(acc.done, s, segs, m + 2)
        /\ ~Apart(acc.last, s) => MergedAs(acc.done, Join(acc.last, s), segs, m + 2)
    BY <2>1, <2>2, <2>3, <2>4, TurnKeeps
  <2> QED
    BY <2>2, <2>3, <2>4, <2>5 DEF MergeTurn, Acc
<1> HIDE DEF S
<1>5. \A m \in Nat : m \in S
  BY <1>3, <1>4, Induct
<1>6. n - 1 \in Nat /\ n - 1 + 1 = n
  BY <1>1
<1> QED
  BY <1>5, <1>6 DEF S, M

(* MergeIndex of segments sorted by start.                                 *)
LEMMA Merged ==
  ASSUME NEW segs \in Seq(Segments), Sorted(segs)
  PROVE  MergeKeeps(segs, MergeIndex(segs))
<1> DEFINE acc == Merging(segs)[Len(segs)]
           out == Append(acc.done, acc.last)
<1>1. /\ Len(segs) \in Nat /\ DOMAIN segs = 1 .. Len(segs)
      /\ segs # << >> => Len(segs) \in 1 .. Len(segs)
      /\ segs = << >> => Len(segs) = 0
      /\ \A i \in DOMAIN segs : segs[i] \in Segments
  BY SegTypes
<1>2. CASE segs = << >> \/ (Len(segs) = 1 /\ Vacant(segs[1]))
  <2>1. MergeIndex(segs) = << >>
    BY <1>2 DEF MergeIndex
  <2>2. \A b : ~Has(<< >>, b)
    BY DEF Has
  <2>3. \A b \in Nat : ~Has(segs, b)
    BY <1>1, <1>2, SegTypes DEF Has, Vacant
  <2>4. << >> \in Seq(Segments)
    OBVIOUS
  <2>5. Bytes(<< >>) = Bytes(segs)
    BY <2>2, <2>3, <2>4, BytesHas
  <2>6. Ordered(<< >>) /\ Len(<< >>) <= Len(segs) /\ Len(segs) <= 1
    BY <1>1, <1>2 DEF Ordered
  <2> QED
    BY <2>1, <2>4, <2>5, <2>6 DEF MergeKeeps
<1>3. CASE ~(segs = << >> \/ (Len(segs) = 1 /\ Vacant(segs[1])))
  <2>1. MergeIndex(segs) = out
    BY <1>3 DEF MergeIndex
  <2>2. acc \in Acc /\ MergedAs(acc.done, acc.last, segs, Len(segs))
    BY <1>1, <1>3, MergeFolds
  <2>3. acc.done \in Seq(Segments) /\ acc.last \in Segments
    BY <2>2 DEF Acc
  <2> HIDE DEF acc
  <2>4. /\ out \in Seq(Segments) /\ Len(out) = Len(acc.done) + 1
        /\ DOMAIN out = 1 .. Len(acc.done) + 1
        /\ out[Len(acc.done) + 1] = acc.last
        /\ \A k \in 1 .. Len(acc.done) : out[k] = acc.done[k]
        /\ \A b : Has(out, b) <=> Has(acc.done, b) \/ In(acc.last, b)
        /\ Ordered(out)
    BY <2>2, <2>3, AppendSegs DEF MergedAs, In
  <2>5. Len(acc.done) \in Nat /\ DOMAIN acc.done = 1 .. Len(acc.done)
    BY <2>3
  <2> HIDE DEF out
  <2>6. Len(out) <= Len(segs) /\ out # << >>
    BY <1>1, <2>2, <2>4, <2>5 DEF MergedAs
  <2>7. \A b \in Nat : Has(out, b) <=> Has(segs, b)
    BY <1>1, <2>2, <2>4 DEF MergedAs, Has, In
  <2>8. Bytes(out) = Bytes(segs)
    BY <2>4, <2>7, BytesHas
  <2>9. \A k \in DOMAIN out : From(out[k], segs, Len(segs))
    <3>1. \A k \in DOMAIN out : k = Len(acc.done) + 1 \/ k \in DOMAIN acc.done
      BY <2>4, <2>5
    <3> QED
      BY <2>2, <2>4, <2>5, <3>1 DEF MergedAs
  <2> QED
    BY <2>1, <2>4, <2>6, <2>8, <2>9 DEF MergeKeeps
<1> QED
  BY <1>2, <1>3

-----------------------------------------------------------------------------
(* The first n numbers are n.                                              *)
LEMMA UpTo ==
  ASSUME NEW n \in Nat
  PROVE  IsFiniteSet(1 .. n) /\ Cardinality(1 .. n) = n
<1>1. 1 .. n = {} => n = 0
  OBVIOUS
<1>2. n = 0 \/ n >= 1
  OBVIOUS
<1> QED
  BY <1>1, <1>2, FS_Interval

(* OrderIndex, of segments in order.                                       *)
LEMMA OrderSame ==
  ASSUME NEW segs \in Seq(Segments),
         \A i, j \in DOMAIN segs : i < j => segs[i].start < segs[j].start
  PROVE  OrderIndex(segs) = segs
<1> DEFINE Before(j, i) == \/ segs[j].start < segs[i].start
                           \/ segs[j].start = segs[i].start /\ j <= i
           Rank(i) == Cardinality({j \in DOMAIN segs : Before(j, i)})
<1>1. /\ Len(segs) \in Nat /\ DOMAIN segs = 1 .. Len(segs)
      /\ \A i \in DOMAIN segs : i \in Nat /\ segs[i].start \in Nat
  BY SegTypes
<1>2. ASSUME NEW i \in DOMAIN segs
      PROVE  Rank(i) = i
  <2>1. \A j \in DOMAIN segs : Before(j, i) <=> j <= i
    <3> TAKE j \in DOMAIN segs
    <3>1. j < i \/ j = i \/ i < j
      BY <1>1
    <3> QED
      BY <1>1, <3>1
  <2>2. {j \in DOMAIN segs : Before(j, i)} = 1 .. i
    BY <1>1, <2>1
  <2>3. Cardinality(1 .. i) = i
    BY <1>1, FS_Interval
  <2> QED
    BY <2>2, <2>3
<1> HIDE DEF Rank
<1>3. \A k \in DOMAIN segs : (CHOOSE i \in DOMAIN segs : Rank(i) = k) = k
  BY <1>2
<1>4. OrderIndex(segs) = [k \in DOMAIN segs |-> segs[CHOOSE i \in DOMAIN segs : Rank(i) = k]]
  BY DEF OrderIndex, Rank
<1>5. OrderIndex(segs) = [k \in DOMAIN segs |-> segs[k]]
  BY <1>3, <1>4
<1> QED
  BY <1>1, <1>5

(* The index with a segment put behind the first k.                        *)
Insert(segs, s, k) ==
  [i \in 1 .. Len(segs) + 1 |->
     IF i <= k THEN segs[i] ELSE IF i = k + 1 THEN s ELSE segs[i - 1]]

(* OrderIndex, of a segment behind others in order: it goes to its place.  *)
LEMMA OrderNew ==
  ASSUME NEW segs \in Seq(Segments), NEW s \in Segments, NEW n, n = Len(segs),
         \A i, j \in DOMAIN segs : i < j => segs[i].start < segs[j].start,
         NEW k \in 0 .. n,
         \A i \in 1 .. k : segs[i].start < s.start,
         \A i \in k + 1 .. n : s.start < segs[i].start
  PROVE  OrderIndex(Append(segs, s)) = Insert(segs, s, k)
<1> DEFINE a == Append(segs, s)
           Before(j, i) == \/ a[j].start < a[i].start
                           \/ a[j].start = a[i].start /\ j <= i
           Below(i) == {j \in DOMAIN a : Before(j, i)}
           Place(i) == IF i <= k THEN i ELSE IF i = n + 1 THEN k + 1 ELSE i + 1
           At(p) == IF p <= k THEN p ELSE IF p = k + 1 THEN n + 1 ELSE p - 1
<1>1. n \in Nat /\ k \in Nat /\ k <= n /\ DOMAIN segs = 1 .. n /\ s.start \in Nat
  BY DEF Segments
<1>2. \A i \in 1 .. n : segs[i].start \in Nat
  BY <1>1, SegTypes
<1>3. /\ DOMAIN a = 1 .. n + 1 /\ a[n + 1] = s /\ \A i \in 1 .. n : a[i] = segs[i]
  BY <1>1, AppendSegs
<1> HIDE DEF a
<1>4. /\ \A i, j \in 1 .. n : i < j => a[i].start < a[j].start
      /\ \A i \in 1 .. n : a[i].start \in Nat
      /\ \A i \in 1 .. n : i <= k => a[i].start < s.start
      /\ \A i \in 1 .. n : k < i => s.start < a[i].start
  <2>1. \A i \in 1 .. n : (i <= k => i \in 1 .. k) /\ (k < i => i \in k + 1 .. n)
    BY <1>1
  <2>2. /\ \A i \in 1 .. n : i <= k => segs[i].start < s.start
        /\ \A i \in 1 .. n : k < i => s.start < segs[i].start
    BY <2>1
  <2> QED
    BY <1>1, <1>2, <1>3, <2>2
<1>5. /\ \A i, j \in 1 .. n : Before(j, i) <=> j <= i
      /\ \A i \in 1 .. n : Before(n + 1, i) <=> k < i
      /\ \A i \in 1 .. n : Before(i, n + 1) <=> i <= k
      /\ Before(n + 1, n + 1)
  <2>1. ASSUME NEW i \in 1 .. n, NEW j \in 1 .. n
        PROVE  Before(j, i) <=> j <= i
    <3>1. j < i \/ j = i \/ i < j
      BY <1>1
    <3> QED
      BY <1>4, <3>1
  <2>2. ASSUME NEW i \in 1 .. n
        PROVE  /\ Before(n + 1, i) <=> k < i
               /\ Before(i, n + 1) <=> i <= k
    BY <1>1, <1>3, <1>4
  <2> QED
    BY <1>1, <1>3, <2>1, <2>2
<1> HIDE DEF Before
<1>6. ASSUME NEW i \in 1 .. n + 1
      PROVE  Cardinality(Below(i)) = Place(i)
  <2>1. \A j : j \in Below(i) <=> (j \in 1 .. n \/ j = n + 1) /\ Before(j, i)
    BY <1>1, <1>3
  <2> HIDE DEF Below
  <2>2. CASE i <= k
    <3>0. i \in 1 .. n /\ ~(k < i) /\ i \in Nat
      BY <1>1, <2>2
    <3>a. \A j : j \in Below(i) <=> j \in 1 .. n /\ j <= i
      BY <1>5, <2>1, <3>0
    <3>b. \A j : j \in 1 .. n /\ j <= i <=> j \in 1 .. i
      BY <1>1, <3>0
    <3>1. Below(i) = 1 .. i
      BY <3>a, <3>b, Zenon
    <3> QED
      BY <2>2, <3>1, UpTo
  <2>3. CASE k < i /\ i <= n
    <3>1. Below(i) = (1 .. i) \cup {n + 1}
      BY <1>1, <1>5, <2>1, <2>3
    <3>2. IsFiniteSet(1 .. i) /\ Cardinality(1 .. i) = i /\ n + 1 \notin 1 .. i
      BY <1>1, <2>3, UpTo
    <3>3. Cardinality((1 .. i) \cup {n + 1}) = i + 1
      BY <3>2, FS_AddElement
    <3> QED
      BY <1>1, <2>3, <3>1, <3>3
  <2>4. CASE i = n + 1
    <3>1. Below(i) = (1 .. k) \cup {n + 1}
      BY <1>1, <1>5, <2>1, <2>4
    <3>2. IsFiniteSet(1 .. k) /\ Cardinality(1 .. k) = k /\ n + 1 \notin 1 .. k
      BY <1>1, UpTo
    <3>3. Cardinality((1 .. k) \cup {n + 1}) = k + 1
      BY <3>2, FS_AddElement
    <3>4. ~(i <= k)
      BY <1>1, <2>4
    <3> QED
      BY <2>4, <3>1, <3>3, <3>4
  <2> QED
    BY <1>1, <2>2, <2>3, <2>4
<1>7. ASSUME NEW p \in 1 .. n + 1
      PROVE  (CHOOSE i \in DOMAIN a : Cardinality(Below(i)) = p) = At(p)
  <2>1. At(p) \in 1 .. n + 1 /\ Place(At(p)) = p
    BY <1>1
  <2>2. \A i \in 1 .. n + 1 : Place(i) = p => i = At(p)
    BY <1>1
  <2> HIDE DEF At, Place, Below
  <2> QED
    BY <1>3, <1>6, <2>1, <2>2
<1>8. OrderIndex(a) =
        [p \in DOMAIN a |-> a[CHOOSE i \in DOMAIN a : Cardinality(Below(i)) = p]]
  BY DEF OrderIndex, Below, Before
<1> HIDE DEF Below
<1>9. OrderIndex(a) = [p \in 1 .. n + 1 |-> a[At(p)]]
  <2> HIDE DEF At
  <2> QED
    BY <1>3, <1>7, <1>8, Zenon
<1>10. \A p \in 1 .. n + 1 :
        a[At(p)] = IF p <= k THEN segs[p] ELSE IF p = k + 1 THEN s ELSE segs[p - 1]
  BY <1>1, <1>3
<1> QED
  BY <1>9, <1>10 DEF Insert, a

(* A new segment goes between the ones it is apart from.                   *)
LEMMA Added ==
  ASSUME NEW segs \in Seq(Segments), Ordered(segs), NEW t \in Ants, NEW pos \in Nat,
         \A i \in DOMAIN segs : segs[i].end < pos \/ pos < segs[i].start
  PROVE  LET out == AddNewIndex(segs, t, pos)
         IN  /\ out \in Seq(Segments) /\ Len(out) = Len(segs) + 1
             /\ Ordered(out)
             /\ Bytes(out) = Bytes(segs)
             /\ \E k \in 0 .. Len(segs) : out = Insert(segs, Seg(pos, pos, t), k)
<1> DEFINE s == Seg(pos, pos, t)
           n == Len(segs)
           Later == {i \in 1 .. n + 1 : i = n + 1 \/ pos < segs[i].start}
<1>1. /\ n \in Nat /\ DOMAIN segs = 1 .. n
      /\ \A i \in 1 .. n : /\ segs[i].start \in Nat /\ segs[i].end \in Nat
                           /\ segs[i] \in Segments
  BY SegTypes
<1>2. s \in Segments /\ s.start = pos /\ s.end = pos
  BY DEF Seg, Segments
<1>3. /\ \A i, j \in 1 .. n : i < j => segs[i].start < segs[j].start
      /\ \A i, j \in 1 .. n : i < j => segs[i].end < segs[j].start
      /\ \A i \in 1 .. n : segs[i].start <= segs[i].end
      /\ \A i \in 1 .. n : segs[i].end < pos \/ pos < segs[i].start
  <2>1. /\ \A i, j \in 1 .. n : i < j => segs[i].end < segs[j].start
        /\ \A i \in 1 .. n : segs[i].start <= segs[i].end
    BY <1>1 DEF Ordered
  <2> QED
    BY <1>1, <2>1
<1>4. PICK h \in Later : \A j \in Later : h <= j
  <2>1. n + 1 \in Later /\ Later \subseteq Nat
    BY <1>1
  <2> HIDE DEF Later
  <2> QED
    BY <2>1, Least
<1> DEFINE k == h - 1
<1>5. k \in 0 .. n /\ h \in 1 .. n + 1 /\ h = k + 1
  BY <1>1, <1>4
<1>6. /\ \A i \in 1 .. k : segs[i].end < pos
      /\ \A i \in k + 1 .. n : pos < segs[i].start
  <2>1. ASSUME NEW i \in 1 .. k
        PROVE  segs[i].end < pos
    <3>1. i \notin Later /\ i \in 1 .. n
      BY <1>1, <1>4, <1>5, <2>1
    <3> QED
      BY <1>1, <1>3, <3>1
  <2>2. ASSUME NEW i \in k + 1 .. n
        PROVE  pos < segs[i].start
    <3>1. h \in 1 .. n /\ pos < segs[h].start /\ i \in 1 .. n
      BY <1>1, <1>4, <1>5, <2>2
    <3>2. h = i \/ h < i
      BY <1>1, <1>5, <2>2
    <3> QED
      BY <1>1, <1>3, <3>1, <3>2
  <2> QED
    BY <2>1, <2>2
<1> HIDE DEF k
<1>7. \A i \in 1 .. k : segs[i].start < pos
  BY <1>1, <1>3, <1>5, <1>6
<1> DEFINE out == AddNewIndex(segs, t, pos)
<1>8. out = Insert(segs, s, k)
  <2> HIDE DEF s
  <2>1. OrderIndex(Append(segs, s)) = Insert(segs, s, k)
    BY <1>1, <1>2, <1>3, <1>5, <1>6, <1>7, OrderNew
  <2> QED
    BY <2>1 DEF AddNewIndex, s
<1> HIDE DEF s, out
<1>9. /\ DOMAIN out = 1 .. n + 1
      /\ \A i \in 1 .. n + 1 : i <= k => out[i] = segs[i] /\ i \in 1 .. k
      /\ out[k + 1] = s
      /\ \A i \in 1 .. n + 1 : k + 1 < i => out[i] = segs[i - 1] /\ i - 1 \in k + 1 .. n
  BY <1>1, <1>5, <1>8 DEF Insert
<1>10. /\ out \in Seq(Segments) /\ Len(out) = n + 1
  <2>1. \A i \in 1 .. n + 1 : out[i] \in Segments
    BY <1>1, <1>2, <1>5, <1>9
  <2>2. out = [i \in 1 .. n + 1 |-> out[i]]
    BY <1>8, <1>9 DEF Insert
  <2> QED
    BY <1>1, <2>1, <2>2
<1>11. Ordered(out)
  <2>1. \A i \in DOMAIN out : i <= k \/ i = k + 1 \/ k + 1 < i
    BY <1>1, <1>5, <1>9
  <2>2. \A i \in DOMAIN out : out[i].start <= out[i].end
    BY <1>1, <1>2, <1>3, <1>5, <1>9, <2>1, SMTT(30)
  <2>3. ASSUME NEW i \in DOMAIN out, NEW j \in DOMAIN out, i < j
        PROVE  out[i].end < out[j].start
    <3>1. i \in Nat /\ j \in Nat /\ k \in Nat
      BY <1>1, <1>5, <1>9
    <3>2. CASE j <= k
      BY <1>1, <1>3, <1>5, <1>9, <2>3, <3>1, <3>2
    <3>3. CASE j = k + 1
      <4>1. i <= k /\ i \in 1 .. k /\ out[i] = segs[i]
        BY <1>9, <2>3, <3>1, <3>3
      <4> QED
        BY <1>2, <1>6, <1>9, <3>3, <4>1
    <3>4. CASE k + 1 < j /\ i <= k
      <4>1. out[i] = segs[i] /\ out[j] = segs[j - 1] /\ i < j - 1
              /\ i \in 1 .. n /\ j - 1 \in 1 .. n
        BY <1>1, <1>5, <1>9, <3>1, <3>4
      <4> QED
        BY <1>3, <4>1
    <3>5. CASE k + 1 < j /\ i = k + 1
      <4>1. out[i] = s /\ out[j] = segs[j - 1] /\ j - 1 \in k + 1 .. n
        BY <1>9, <3>5
      <4> QED
        BY <1>2, <1>6, <4>1
    <3>6. CASE k + 1 < j /\ k + 1 < i
      <4>1. out[i] = segs[i - 1] /\ out[j] = segs[j - 1] /\ i - 1 < j - 1
              /\ i - 1 \in 1 .. n /\ j - 1 \in 1 .. n
        BY <1>1, <1>5, <1>9, <2>3, <3>1, <3>6
      <4> QED
        BY <1>3, <4>1
    <3> QED
      BY <2>1, <3>2, <3>3, <3>4, <3>5, <3>6
  <2> QED
    BY <2>2, <2>3 DEF Ordered
<1>12. Bytes(out) = Bytes(segs)
  <2>1. ASSUME NEW b \in Nat, Has(segs, b)
        PROVE  Has(out, b)
    <3>1. PICK i \in 1 .. n : In(segs[i], b)
      BY <1>1, <2>1 DEF Has, In
    <3>2. CASE i <= k
      BY <1>1, <1>5, <1>9, <3>1, <3>2 DEF Has, In
    <3>3. CASE k < i
      <4>1. i + 1 \in 1 .. n + 1 /\ k + 1 < i + 1 /\ i + 1 - 1 = i
        BY <1>1, <1>5, <3>3
      <4>2. out[i + 1] = segs[i]
        BY <1>9, <4>1
      <4> QED
        BY <1>9, <3>1, <4>1, <4>2 DEF Has, In
    <3> QED
      BY <1>1, <1>5, <3>2, <3>3
  <2>2. ASSUME NEW b \in Nat, Has(out, b)
        PROVE  Has(segs, b)
    <3>1. PICK i \in 1 .. n + 1 : In(out[i], b)
      BY <1>9, <2>2 DEF Has, In
    <3>2. i <= k \/ i = k + 1 \/ k + 1 < i
      BY <1>1, <1>5
    <3>3. ~In(s, b)
      BY <1>2 DEF In
    <3>4. CASE i <= k
      <4>1. i \in 1 .. n /\ out[i] = segs[i]
        BY <1>1, <1>5, <1>9, <3>4
      <4> QED
        BY <1>1, <3>1, <4>1 DEF Has, In
    <3>5. CASE k + 1 < i
      <4>1. i - 1 \in 1 .. n /\ out[i] = segs[i - 1]
        BY <1>1, <1>5, <1>9, <3>5
      <4> QED
        BY <1>1, <3>1, <4>1 DEF Has, In
    <3> QED
      BY <1>9, <3>1, <3>2, <3>3, <3>4, <3>5
  <2> QED
    BY <1>10, <2>1, <2>2, BytesHas
<1> QED
  BY <1>5, <1>8, <1>10, <1>11, <1>12 DEF s, out

-----------------------------------------------------------------------------
(* An ant marks at most one segment.                                       *)
OneMark(segs) ==
  \A i, j \in DOMAIN segs :
    segs[i].mark # NoAnt /\ segs[i].mark = segs[j].mark => i = j

(* Unmark takes the mark of an ant away and nothing else.                  *)
LEMMA Unmarked ==
  ASSUME NEW segs \in Seq(Segments), NEW t \in Ants
  PROVE  LET u == Unmark(segs, t)
         IN  /\ u \in Seq(Segments) /\ Len(u) = Len(segs)
             /\ \A i \in DOMAIN segs :
                  /\ u[i].start = segs[i].start /\ u[i].end = segs[i].end
                  /\ u[i].mark \in {segs[i].mark, NoAnt}
                  /\ segs[i].mark # t => u[i].mark = segs[i].mark
             /\ OneMark(segs) => OneMark(u) /\ \A i \in DOMAIN segs : u[i].mark # t
<1> DEFINE mine == {i \in DOMAIN segs : segs[i].mark = t}
           u == Unmark(segs, t)
<1>1. /\ Len(segs) \in Nat /\ DOMAIN segs = 1 .. Len(segs)
      /\ \A i \in DOMAIN segs :
           /\ i \in Nat /\ segs[i] \in Segments
           /\ segs[i] = [start |-> segs[i].start, end |-> segs[i].end,
                         mark |-> segs[i].mark]
  BY SegTypes
<1>2. t # NoAnt
  BY FileManagerAssumption
<1>3. CASE mine = {}
  <2>1. u = segs
    BY <1>3 DEF Unmark
  <2> QED
    BY <1>3, <2>1
<1>4. CASE mine # {}
  <2> DEFINE m == Min(mine)
  <2>1. m \in mine
    <3>1. mine \subseteq Nat
      BY <1>1
    <3>2. \E x \in mine : \A y \in mine : x <= y
      BY <1>4, <3>1, Least
    <3> QED
      BY <3>2 DEF Min
  <2>2. u = [segs EXCEPT ![m].mark = NoAnt]
    BY <1>4 DEF Unmark
  <2>3. m \in DOMAIN segs /\ segs[m].mark = t
    BY <2>1
  <2> HIDE DEF m, u
  <2>4. /\ DOMAIN u = DOMAIN segs
        /\ u[m] = [start |-> segs[m].start, end |-> segs[m].end, mark |-> NoAnt]
        /\ \A i \in DOMAIN segs : i # m => u[i] = segs[i]
    BY <1>1, <2>2, <2>3
  <2>5. \A i \in DOMAIN segs : u[i] \in Segments
    BY <1>1, <2>3, <2>4 DEF Segments
  <2>6. u \in Seq(Segments) /\ Len(u) = Len(segs)
    <3>1. u = [i \in 1 .. Len(segs) |-> u[i]]
      BY <1>1, <2>2
    <3> QED
      BY <1>1, <2>5, <3>1
  <2>7. \A i \in DOMAIN segs :
          /\ u[i].start = segs[i].start /\ u[i].end = segs[i].end
          /\ u[i].mark \in {segs[i].mark, NoAnt}
          /\ segs[i].mark # t => u[i].mark = segs[i].mark
    BY <2>3, <2>4
  <2>8. OneMark(segs) => OneMark(u) /\ \A i \in DOMAIN segs : u[i].mark # t
    BY <1>2, <2>3, <2>4 DEF OneMark
  <2> QED
    BY <2>6, <2>7, <2>8 DEF u
<1> QED
  BY <1>3, <1>4

(* The position between two ends lies between them.                        *)
LEMMA MiddleInside ==
  ASSUME NEW from \in Int, NEW to \in Int, to - from >= 4
  PROVE  Middle(from, to) \in Int /\ from < Middle(from, to) /\ Middle(from, to) < to
BY DEF Middle
-----------------------------------------------------------------------------
(* MergeIndex of no segment, and of one.                                   *)
LEMMA MergeOne ==
  ASSUME NEW segs \in Seq(Segments), Len(segs) <= 1
  PROVE  MergeIndex(segs) =
           IF segs = << >> \/ Vacant(segs[1]) THEN << >> ELSE segs
<1>a. Len(segs) \in Nat /\ (Len(segs) = 0 => segs = << >>)
  OBVIOUS
<1> DEFINE n == Len(segs)
<1>1. n # 0 => n = 1
  <2>1. n \in Nat /\ n <= 1
    BY <1>a
  <2> HIDE DEF n
  <2> QED
    BY <2>1
<1>2. CASE segs = << >>
  BY <1>2 DEF MergeIndex
<1>3. CASE segs # << >>
  <2>1. Len(segs) = 1
    BY <1>a, <1>1, <1>3
  <2>2. Merging(segs)[1] = [done |-> << >>, last |-> segs[1]]
    BY <1>3, MergingDef
  <2>3. Append(<< >>, segs[1]) = segs
    BY <2>1
  <2> QED
    BY <1>3, <2>1, <2>2, <2>3 DEF MergeIndex
<1> QED
  BY <1>2, <1>3

(* The start and the end of every segment within the file.                 *)
Starts(segs, len) == len # -1 => \A i \in DOMAIN segs : segs[i].start <= len

(* What GetTask makes of the index before it looks for a place.            *)
Tidy(segs, t) == MergeIndex(OrderIndex(Unmark(segs, t)))

(* The marks of out are marks of segs, on segments with the same end.      *)
MarksFrom(out, segs) ==
  \A k \in DOMAIN out : out[k].mark # NoAnt =>
    \E j \in DOMAIN segs : segs[j].mark = out[k].mark /\ segs[j].end = out[k].end

(* What every operation that only rearranges the index keeps.              *)
Rearranged(segs, out) ==
  /\ out \in Seq(Segments) /\ Ordered(out)
  /\ Bytes(out) = Bytes(segs)
  /\ Len(out) <= Len(segs)
  /\ \A k \in DOMAIN out : \E j \in DOMAIN segs : out[k].start = segs[j].start
  /\ MarksFrom(out, segs)
  /\ OneMark(segs) => OneMark(out)

(* Marks that come from one index each mark one segment there.             *)
LEMMA FromMarks ==
  ASSUME NEW segs \in Seq(Segments), NEW out \in Seq(Segments), Ordered(out),
         MarksFrom(out, segs), OneMark(segs)
  PROVE  OneMark(out)
<1> SUFFICES ASSUME NEW i \in DOMAIN out, NEW j \in DOMAIN out,
                    out[i].mark # NoAnt, out[i].mark = out[j].mark
             PROVE  i = j
  BY DEF OneMark
<1>1. PICK a \in DOMAIN segs : segs[a].mark = out[i].mark /\ segs[a].end = out[i].end
  BY DEF MarksFrom
<1>2. PICK b \in DOMAIN segs : segs[b].mark = out[j].mark /\ segs[b].end = out[j].end
  BY DEF MarksFrom
<1>3. a = b
  BY <1>1, <1>2 DEF OneMark
<1>4. /\ i \in Nat /\ j \in Nat /\ out[i].end = out[j].end
      /\ out[i].end \in Nat /\ out[i].start \in Nat /\ out[j].start \in Nat
  BY <1>1, <1>2, <1>3, SegTypes
<1>5. ~(i < j) /\ ~(j < i)
  BY <1>4 DEF Ordered
<1> QED
  BY <1>4, <1>5

(* Clearing a mark, sorting and merging only rearrange an index in order.  *)
LEMMA TidyKeeps ==
  ASSUME NEW segs \in Seq(Segments), Ordered(segs), NEW t \in Ants
  PROVE  /\ Rearranged(segs, Tidy(segs, t))
         /\ Rearranged(segs, ReleaseIndex(t)) \/ segs # index
         /\ Tidy(segs, t) = MergeIndex(Unmark(segs, t))
         /\ OneMark(segs) => \A i \in DOMAIN Tidy(segs, t) : Tidy(segs, t)[i].mark # t
<1> DEFINE u == Unmark(segs, t)
           out == MergeIndex(u)
<1>1. /\ u \in Seq(Segments) /\ Len(u) = Len(segs)
      /\ \A i \in DOMAIN segs :
           /\ u[i].start = segs[i].start /\ u[i].end = segs[i].end
           /\ u[i].mark \in {segs[i].mark, NoAnt}
           /\ segs[i].mark # t => u[i].mark = segs[i].mark
      /\ OneMark(segs) => OneMark(u) /\ \A i \in DOMAIN segs : u[i].mark # t
  BY Unmarked
<1> HIDE DEF u
<1>2. /\ Len(segs) \in Nat /\ DOMAIN segs = 1 .. Len(segs) /\ DOMAIN u = DOMAIN segs
      /\ \A i \in DOMAIN segs : segs[i].start \in Nat /\ segs[i].end \in Nat
  BY <1>1, SegTypes
<1>3. Ordered(u)
  BY <1>1, <1>2 DEF Ordered
<1>4. Sorted(u)
  BY <1>1, <1>3, OrderedSorted
<1>5. OrderIndex(u) = u
  <2>1. \A i, j \in DOMAIN u : i < j => u[i].start < u[j].start
    BY <1>1, <1>2, <1>3 DEF Ordered
  <2> QED
    BY <1>1, <2>1, OrderSame
<1>6. MergeKeeps(u, out)
  BY <1>1, <1>4, Merged
<1> HIDE DEF out
<1>7. Bytes(u) = Bytes(segs)
  <2>1. \A b : Has(u, b) <=> Has(segs, b)
    BY <1>1, <1>2 DEF Has
  <2> QED
    BY <1>1, <2>1, BytesHas
<1>8. \A k \in DOMAIN out : From(out[k], u, Len(segs))
  BY <1>1, <1>6 DEF MergeKeeps
<1>9. MarksFrom(out, segs) /\ MarksFrom(out, u)
  BY <1>1, <1>2, <1>8 DEF MarksFrom, From
<1>10. \A k \in DOMAIN out : \E j \in DOMAIN segs : out[k].start = segs[j].start
  BY <1>1, <1>2, <1>8 DEF From
<1>11. OneMark(segs) => OneMark(out)
  BY <1>1, <1>6, <1>9, FromMarks DEF MergeKeeps
<1>12. Rearranged(segs, out)
  BY <1>1, <1>6, <1>7, <1>9, <1>10, <1>11 DEF Rearranged, MergeKeeps
<1>13. OneMark(segs) => \A i \in DOMAIN out : out[i].mark # t
  <2> SUFFICES ASSUME OneMark(segs), NEW i \in DOMAIN out, out[i].mark = t
               PROVE  FALSE
    OBVIOUS
  <2>1. PICK j \in DOMAIN u : u[j].mark = t
    BY <1>9, FileManagerAssumption DEF MarksFrom
  <2> QED
    BY <1>1, <1>2, <2>1
<1>14. Tidy(segs, t) = out
  BY <1>5 DEF Tidy, out, u
<1>15. segs = index => ReleaseIndex(t) = out
  BY DEF ReleaseIndex, out, u
<1>16. out = MergeIndex(Unmark(segs, t))
  BY DEF out, u
<1> HIDE DEF Tidy, ReleaseIndex
<1> QED
  BY <1>12, <1>13, <1>14, <1>15, <1>16
-----------------------------------------------------------------------------
(* A position between the segments that touches none of them.              *)
Between(segs, pos) ==
  \A i \in DOMAIN segs : segs[i].end < pos \/ pos < segs[i].start

(* A stretch of the file in which no segment lies.                         *)
Free(segs, from, to) ==
  \A i \in DOMAIN segs : segs[i].end <= from \/ to <= segs[i].start

(* The gaps before, behind and between the segments, by number.            *)
LEMMA Concat ==
  ASSUME NEW T, NEW a \in Seq(T), NEW b \in Seq(T), NEW n \in Nat, Len(b) = n,
         Len(a) = 2
  PROVE  /\ DOMAIN (a \o b) = 1 .. n + 2
         /\ (a \o b)[1] = a[1] /\ (a \o b)[2] = a[2]
         /\ \A i \in 1 .. n : (a \o b)[i + 2] = b[i]
<1> DEFINE c == a \o b
<1>1. /\ c \in Seq(T) /\ Len(c) = 2 + n
      /\ \A i \in 1 .. 2 + n : c[i] = IF i <= 2 THEN a[i] ELSE b[i - 2]
  <2>1. /\ c \in Seq(T) /\ Len(c) = Len(a) + Len(b)
        /\ \A i \in 1 .. Len(a) + Len(b) :
             c[i] = IF i <= Len(a) THEN a[i] ELSE b[i - Len(a)]
    BY ConcatProperties
  <2> HIDE DEF c
  <2> QED
    BY <2>1, Zenon
<1> HIDE DEF c
<1>2. DOMAIN c = 1 .. n + 2
  BY <1>1
<1>3. \A i \in 1 .. n + 2 : c[i] = IF i <= 2 THEN a[i] ELSE b[i - 2]
  BY <1>1
<1>4. ASSUME NEW i \in 1 .. n
      PROVE  c[i + 2] = b[i]
  <2>1. i + 2 \in 1 .. n + 2 /\ ~(i + 2 <= 2) /\ (i + 2) - 2 = i
    OBVIOUS
  <2> QED
    BY <1>3, <2>1
<1>5. 1 \in 1 .. n + 2 /\ 2 \in 1 .. n + 2
  OBVIOUS
<1> QED
  BY <1>2, <1>3, <1>4, <1>5 DEF c

(* Every gap GetTask compares is free.                                     *)
LEMMA GapsFree ==
  ASSUME NEW segs \in Seq(Segments), Ordered(segs), Len(segs) > 1,
         NEW len \in Nat, Starts(segs, len)
  PROVE  /\ DOMAIN Gaps(segs, len) = 1 .. Len(segs) + 1
         /\ \A j \in DOMAIN Gaps(segs, len) :
              LET gap == Gaps(segs, len)[j]
              IN  /\ gap.pos \in Nat /\ gap.size \in Int /\ gap.size <= len
                  /\ gap.size > 0 => Free(segs, gap.pos, gap.pos + gap.size)
                  /\ gap.pos + gap.size <= len
<1> DEFINE n == Len(segs)
           gaps == Gaps(segs, len)
           Gap(from, to) == [pos |-> from, size |-> to - from]
           Good(gap) == /\ gap.pos \in Nat /\ gap.size \in Int /\ gap.size <= len
                        /\ gap.size > 0 => Free(segs, gap.pos, gap.pos + gap.size)
                        /\ gap.pos + gap.size <= len
<1>1. /\ n \in Nat /\ n > 1 /\ DOMAIN segs = 1 .. n
      /\ \A i \in DOMAIN segs : /\ segs[i].start \in Nat /\ segs[i].end \in Nat
                               /\ i \in Nat
  BY SegTypes
<1>2. /\ \A i \in DOMAIN segs : segs[i].start <= segs[i].end
      /\ \A i, j \in DOMAIN segs : i < j => segs[i].end < segs[j].start
      /\ \A i \in DOMAIN segs : segs[i].start <= len
  BY DEF Ordered, Starts
<1> DEFINE first == <<Gap(0, segs[1].start), Gap(segs[n].end, len)>>
           rest == [i \in 1 .. n - 1 |-> Gap(segs[i].end, segs[i + 1].start)]
<1>3. gaps = first \o rest
  BY DEF Gaps
<1>4. /\ DOMAIN gaps = 1 .. n + 1
      /\ gaps[1] = Gap(0, segs[1].start) /\ gaps[2] = Gap(segs[n].end, len)
      /\ \A i \in 1 .. n - 1 : gaps[i + 2] = Gap(segs[i].end, segs[i + 1].start)
  <2>1. /\ first \in Seq([pos : Nat, size : Int]) /\ Len(first) = 2
        /\ first[1] = Gap(0, segs[1].start) /\ first[2] = Gap(segs[n].end, len)
    <3>1. 1 \in DOMAIN segs /\ n \in DOMAIN segs
      BY <1>1
    <3>2. /\ Gap(0, segs[1].start) \in [pos : Nat, size : Int]
          /\ Gap(segs[n].end, len) \in [pos : Nat, size : Int]
      BY <1>1, <3>1
    <3> HIDE DEF Gap
    <3> QED
      BY <3>2
  <2>2. /\ rest \in Seq([pos : Nat, size : Int]) /\ Len(rest) = n - 1
        /\ \A i \in 1 .. n - 1 : rest[i] = Gap(segs[i].end, segs[i + 1].start)
    <3>1. \A i \in 1 .. n - 1 :
            Gap(segs[i].end, segs[i + 1].start) \in [pos : Nat, size : Int]
      <4> TAKE i \in 1 .. n - 1
      <4>1. i \in DOMAIN segs /\ i + 1 \in DOMAIN segs
        BY <1>1
      <4> QED
        BY <1>1, <4>1
    <3> HIDE DEF Gap
    <3> QED
      BY <1>1, <3>1
  <2> HIDE DEF first, rest, gaps, Gap
  <2>3. n - 1 \in Nat /\ (n - 1) + 2 = n + 1
    BY <1>1
  <2>4. /\ DOMAIN gaps = 1 .. (n - 1) + 2
        /\ gaps[1] = first[1] /\ gaps[2] = first[2]
        /\ \A i \in 1 .. n - 1 : gaps[i + 2] = rest[i]
    <3> DEFINE m == n - 1
    <3>1. m \in Nat /\ Len(rest) = m
      BY <2>2, <2>3
    <3> HIDE DEF m
    <3>2. /\ DOMAIN gaps = 1 .. m + 2
          /\ gaps[1] = first[1] /\ gaps[2] = first[2]
          /\ \A i \in 1 .. m : gaps[i + 2] = rest[i]
      <4> DEFINE T == [pos : Nat, size : Int]
      <4>1. first \in Seq(T) /\ rest \in Seq(T) /\ Len(first) = 2
        BY <2>1, <2>2
      <4> HIDE DEF T
      <4>2. /\ DOMAIN (first \o rest) = 1 .. m + 2
            /\ (first \o rest)[1] = first[1] /\ (first \o rest)[2] = first[2]
            /\ \A i \in 1 .. m : (first \o rest)[i + 2] = rest[i]
        BY <3>1, <4>1, Concat, SMT
      <4> QED
        BY <1>3, <4>2
    <3> QED
      BY <3>2 DEF m
  <2> QED
    BY <2>1, <2>2, <2>3, <2>4
<1> HIDE DEF gaps, first, rest
<1>5. Good(gaps[1])
  <2>1. 1 \in DOMAIN segs /\ \A i \in DOMAIN segs : i = 1 \/ 1 < i
    BY <1>1
  <2>2. \A i \in DOMAIN segs : segs[1].start <= segs[i].start
    BY <1>1, <1>2, <2>1, SMTT(30)
  <2> QED
    BY <1>1, <1>2, <1>4, <2>1, <2>2 DEF Free
<1>6. Good(gaps[2])
  <2>1. n \in DOMAIN segs /\ \A i \in DOMAIN segs : i = n \/ i < n
    BY <1>1
  <2>2. \A i \in DOMAIN segs : segs[i].end <= segs[n].end
    BY <1>1, <1>2, <2>1
  <2> QED
    BY <1>1, <1>2, <1>4, <2>1, <2>2 DEF Free
<1>7. ASSUME NEW k \in 1 .. n - 1
      PROVE  Good(gaps[k + 2])
  <2>1. k \in DOMAIN segs /\ k + 1 \in DOMAIN segs
    BY <1>1
  <2>2. \A i \in DOMAIN segs : i = k \/ i < k \/ i = k + 1 \/ k + 1 < i
    BY <1>1, <2>1
  <2>3. ASSUME NEW i \in DOMAIN segs
        PROVE  segs[i].end <= segs[k].end \/ segs[k + 1].start <= segs[i].start
    <3>1. CASE i = k
      BY <1>1, <3>1
    <3>2. CASE i < k
      BY <1>1, <1>2, <2>1, <3>2
    <3>3. CASE i = k + 1
      BY <1>1, <3>3
    <3>4. CASE k + 1 < i
      <4>1. segs[k + 1].start <= segs[k + 1].end /\ segs[k + 1].end < segs[i].start
        BY <1>2, <2>1, <3>4
      <4>2. segs[k + 1].start \in Nat /\ segs[k + 1].end \in Nat /\ segs[i].start \in Nat
        BY <1>1, <2>1
      <4> QED
        BY <4>1, <4>2
    <3> QED
      BY <2>2, <3>1, <3>2, <3>3, <3>4
  <2>4. gaps[k + 2].pos = segs[k].end
          /\ gaps[k + 2].size = segs[k + 1].start - segs[k].end
    <3>1. gaps[k + 2] = Gap(segs[k].end, segs[k + 1].start)
      BY <1>4
    <3> QED
      BY <3>1
  <2> QED
    BY <1>1, <1>2, <2>1, <2>3, <2>4, SMTT(30) DEF Free
<1> HIDE DEF Good
<1>8. \A j \in 1 .. n + 1 : Good(gaps[j])
  <2> TAKE j \in 1 .. n + 1
  <2>1. j = 1 \/ j = 2 \/ (j - 2 \in 1 .. n - 1 /\ (j - 2) + 2 = j)
    BY <1>1
  <2> QED
    BY <1>5, <1>6, <1>7, <2>1
<1> QED
  BY <1>4, <1>8 DEF Good, gaps

(* GetTask splits a gap in which no segment lies.                          *)
LEMMA LargestFree ==
  ASSUME NEW segs \in Seq(Segments), Ordered(segs), Len(segs) > 1,
         NEW len \in Nat, Starts(segs, len)
  PROVE  LET gap == LargestGap(segs, len)
         IN  /\ gap.pos \in Nat /\ gap.size \in Int
             /\ gap.size > 0 => Free(segs, gap.pos, gap.pos + gap.size)
             /\ gap.pos + gap.size <= len
<1> DEFINE gaps == Gaps(segs, len)
           S == {len - gaps[j].size : j \in DOMAIN gaps}
           Largest == {i \in DOMAIN gaps :
                         \A j \in DOMAIN gaps : gaps[j].size <= gaps[i].size}
<1>1. Len(segs) \in Nat
  OBVIOUS
<1>2. /\ DOMAIN gaps = 1 .. Len(segs) + 1
      /\ \A j \in DOMAIN gaps : gaps[j].size \in Int /\ gaps[j].size <= len
  BY GapsFree
<1>3. LargestGap(segs, len) = gaps[Min(Largest)]
  BY DEF LargestGap
<1>4. \A j \in DOMAIN gaps :
        LET gap == gaps[j]
        IN  /\ gap.pos \in Nat /\ gap.size \in Int
            /\ gap.size > 0 => Free(segs, gap.pos, gap.pos + gap.size)
            /\ gap.pos + gap.size <= len
  BY GapsFree
<1> HIDE DEF gaps
<1>5. PICK x \in S : \A y \in S : x <= y
  <2>1. 1 \in DOMAIN gaps /\ S \subseteq Nat
    BY <1>1, <1>2
  <2>2. S # {}
    BY <2>1
  <2> HIDE DEF S
  <2> QED
    BY <2>1, <2>2, Least
<1>6. PICK i \in DOMAIN gaps : x = len - gaps[i].size
  BY <1>5
<1>7. ASSUME NEW j \in DOMAIN gaps
      PROVE  gaps[j].size <= gaps[i].size
  <2>1. len - gaps[j].size \in S
    OBVIOUS
  <2>2. len - gaps[i].size <= len - gaps[j].size
    BY <1>5, <1>6, <2>1
  <2> QED
    BY <1>2, <2>2
<1>8. Largest # {} /\ Largest \subseteq Nat /\ Largest \subseteq DOMAIN gaps
  BY <1>1, <1>2, <1>6, <1>7
<1> HIDE DEF Largest
<1>9. Min(Largest) \in Largest
  <2>1. \E y \in Largest : \A z \in Largest : y <= z
    BY <1>8, Least
  <2> QED
    BY <2>1 DEF Min
<1> QED
  BY <1>3, <1>4, <1>8, <1>9
-----------------------------------------------------------------------------
(* What PlaceAnt does to the index: nothing, or a new segment at a position*)
(* that touches none, or a mark on a segment that nobody extends.          *)
NotPlaced(ix, r) == r.ok = FALSE /\ r.pos = 0 /\ r.index = ix

(* A new, empty segment at a position between the others.                  *)
NewPlace(ix, t, len, r) ==
  /\ r.ok = TRUE /\ r.pos \in Nat /\ Between(ix, r.pos)
  /\ r.index = AddNewIndex(ix, t, r.pos)
  /\ len # -1 => r.pos <= len
  /\ \A i \in DOMAIN ix : ix[i].mark = NoAnt => i = Len(ix)

(* A mark on a segment that nobody extended.                               *)
Resumed(ix, t, r, i) ==
  /\ r.ok = TRUE /\ ix[i].mark = NoAnt /\ r.pos = ix[i].end
  /\ r.index = [ix EXCEPT ![i].mark = t]

(* PlaceAnt does one of three things.                                      *)
LEMMA Places ==
  ASSUME NEW ix \in Seq(Segments), Ordered(ix), NEW t \in Ants,
         NEW len \in Nat \cup {-1}, Starts(ix, len), len = -1 => Len(ix) <= 1,
         NEW r, r = PlaceAnt(ix, t, len)
  PROVE  \/ NotPlaced(ix, r)
         \/ NewPlace(ix, t, len, r)
         \/ \E i \in DOMAIN ix : Resumed(ix, t, r, i)
<1> DEFINE n == Len(ix)
           None == [ok |-> FALSE, pos |-> 0, index |-> ix]
           At(pos) == [ok |-> TRUE, pos |-> pos, index |-> AddNewIndex(ix, t, pos)]
           Resume(i) ==
             [ok |-> TRUE, pos |-> ix[i].end, index |-> [ix EXCEPT ![i].mark = t]]
           gap == LargestGap(ix, len)
<1>1. /\ n \in Nat /\ DOMAIN ix = 1 .. n /\ (n = 0 <=> ix = << >>)
      /\ \A i \in DOMAIN ix : /\ ix[i].start \in Nat /\ ix[i].end \in Nat
                              /\ ix[i].start <= ix[i].end /\ i \in Nat
  BY SegTypes DEF Ordered
<1>2. r = None => NotPlaced(ix, r)
  BY DEF NotPlaced
<1>3. ASSUME NEW i \in DOMAIN ix, ix[i].mark = NoAnt, r = Resume(i)
      PROVE  \E j \in DOMAIN ix : Resumed(ix, t, r, j)
  <2>1. /\ r.ok = TRUE /\ r.pos = ix[i].end
        /\ r.index = [ix EXCEPT ![i].mark = t]
    BY <1>3
  <2>2. Resumed(ix, t, r, i)
    BY <1>3, <2>1 DEF Resumed
  <2> QED
    BY <2>2
<1>4. ASSUME NEW pos \in Nat, r = At(pos), Between(ix, pos), len # -1 => pos <= len,
             \A i \in DOMAIN ix : ix[i].mark = NoAnt => i = Len(ix)
      PROVE  NewPlace(ix, t, len, r)
  <2>1. r.ok = TRUE /\ r.pos = pos /\ r.index = AddNewIndex(ix, t, pos)
    BY <1>4
  <2> QED
    BY <1>4, <2>1 DEF NewPlace
<1>5. CASE ix = << >>
  <2>1. r = At(0)
    BY <1>5 DEF PlaceAnt
  <2>2. Between(ix, 0) /\ \A i \in DOMAIN ix : ix[i].mark = NoAnt => i = Len(ix)
    BY <1>1, <1>5 DEF Between
  <2>3. len # -1 => 0 <= len
    OBVIOUS
  <2> QED
    BY <1>4, <2>1, <2>2, <2>3
<1>6. CASE n = 1
  <2>1. ix # << >> /\ DOMAIN ix = {1} /\ 1 \in DOMAIN ix
    BY <1>1, <1>6
  <2>2. r = IF Complete(ix, len) THEN None
            ELSE IF ix[1].start # 0 THEN At(0)
            ELSE IF ix[1].mark = NoAnt THEN Resume(1)
            ELSE IF Splittable(len - ix[1].end) THEN At(Middle(ix[1].end, len))
            ELSE None
    BY <1>6, <2>1 DEF PlaceAnt
  <2>3. CASE r = At(0) /\ ix[1].start # 0
    <3>1. ix[1].start > 0
      BY <1>1, <2>1, <2>3
    <3>2. Between(ix, 0)
      BY <2>1, <3>1 DEF Between
    <3>3. \A i \in DOMAIN ix : ix[i].mark = NoAnt => i = Len(ix)
      BY <1>6, <2>1
    <3>4. r = At(0) /\ (len # -1 => 0 <= len)
      BY <2>3
    <3> HIDE DEF At
    <3> QED
      BY <1>4, <3>2, <3>3, <3>4
  <2>4. CASE r = Resume(1) /\ ix[1].mark = NoAnt
    BY <1>3, <2>1, <2>4
  <2>5. CASE Splittable(len - ix[1].end) /\ r = At(Middle(ix[1].end, len))
    <3> DEFINE pos == Middle(ix[1].end, len)
    <3>1. ix[1].end \in Nat /\ len - ix[1].end >= 4
      BY <1>1, <2>1, <2>5, FileManagerAssumption DEF Splittable
    <3>2. pos \in Int /\ ix[1].end < pos /\ pos < len
      BY <3>1, MiddleInside
    <3> HIDE DEF pos
    <3>3. pos \in Nat /\ Between(ix, pos) /\ pos <= len
      BY <2>1, <3>1, <3>2 DEF Between
    <3>4. r = At(pos)
      BY <2>5 DEF pos
    <3> HIDE DEF At
    <3> QED
      BY <1>4, <1>6, <2>1, <3>3, <3>4
  <2> HIDE DEF At, None, Resume
  <2> QED
    BY <1>2, <2>2, <2>3, <2>4, <2>5
<1>7. CASE n > 1
  <2>1. ix # << >> /\ n # 1 /\ len \in Nat
    BY <1>1, <1>7
  <2>2. r = IF Resumable(ix, len) # {} THEN Resume(Min(Resumable(ix, len)))
            ELSE IF Splittable(gap.size)
            THEN At(Middle(gap.pos, gap.pos + gap.size))
            ELSE None
    BY <1>7, <2>1 DEF PlaceAnt
  <2>3. CASE Resumable(ix, len) # {} /\ r = Resume(Min(Resumable(ix, len)))
    <3> DEFINE i == Min(Resumable(ix, len))
    <3>1. Resumable(ix, len) \subseteq Nat
      BY <1>1 DEF Resumable
    <3>2. \E x \in Resumable(ix, len) : \A y \in Resumable(ix, len) : x <= y
      BY <2>3, <3>1, Least
    <3>3. i \in Resumable(ix, len)
      BY <3>2 DEF Min
    <3> HIDE DEF i
    <3>4. i \in DOMAIN ix /\ ix[i].mark = NoAnt
      BY <3>3 DEF Resumable
    <3>5. r = Resume(i)
      BY <2>3 DEF i
    <3> HIDE DEF Resume
    <3> QED
      BY <1>3, <3>4, <3>5
  <2>4. CASE /\ Resumable(ix, len) = {} /\ Splittable(gap.size)
             /\ r = At(Middle(gap.pos, gap.pos + gap.size))
    <3> DEFINE from == gap.pos
               to == gap.pos + gap.size
               pos == Middle(from, to)
    <3>1. /\ from \in Nat /\ to \in Int /\ to <= len /\ to - from = gap.size
          /\ gap.size \in Int
          /\ gap.size > 0 => Free(ix, from, to)
      <4>1. /\ gap.pos \in Nat /\ gap.size \in Int
            /\ gap.size > 0 => Free(ix, gap.pos, gap.pos + gap.size)
            /\ gap.pos + gap.size <= len
        BY <1>7, <2>1, LargestFree
      <4> HIDE DEF gap
      <4> QED
        BY <4>1
    <3> HIDE DEF from, to, gap
    <3>2. to - from >= 4 /\ Free(ix, from, to)
      BY <2>4, <3>1, FileManagerAssumption DEF Splittable
    <3>3. pos \in Int /\ from < pos /\ pos < to
      BY <3>1, <3>2, MiddleInside
    <3> HIDE DEF pos
    <3>4. pos \in Nat /\ Between(ix, pos) /\ pos <= len
      BY <1>1, <2>1, <3>1, <3>2, <3>3 DEF Between, Free
    <3>5. ASSUME NEW i \in DOMAIN ix, ix[i].mark = NoAnt
          PROVE  i = n
      <4>1. ~(ix[i].end < len)
        BY <2>4, <3>5 DEF Resumable
      <4>2. n \in DOMAIN ix /\ ix[n].start <= len
        BY <1>1, <1>7, <2>1 DEF Starts
      <4>3. ~(i < n)
        BY <1>1, <2>1, <4>1, <4>2 DEF Ordered
      <4> QED
        BY <1>1, <4>3
    <3>6. r = At(pos)
      BY <2>4 DEF pos, from, to
    <3> HIDE DEF At
    <3> QED
      BY <1>4, <3>4, <3>5, <3>6
  <2> HIDE DEF At, None, Resume, gap
  <2> QED
    BY <1>2, <2>2, <2>3, <2>4
<1> QED
  BY <1>1, <1>5, <1>6, <1>7
-----------------------------------------------------------------------------
(* One segment more than ants suffices.                                    *)
FewSegments(segs) == Len(segs) <= Cardinality(Ants) + 1

(* What an ant that was given a place leaves: the index keeps its bytes,   *)
(* and every mark is an old one or the one of the ant, whose only segment  *)
(* ends at its position.                                                   *)
Given(segs, t, len, r) ==
  LET out == r.index
  IN  /\ r.ok \in BOOLEAN /\ r.pos \in Nat
      /\ out \in Seq(Segments) /\ Ordered(out) /\ Bytes(out) = Bytes(segs)
      /\ Starts(out, len)
      /\ OneMark(out)
      /\ \A k \in DOMAIN out :
           \/ out[k].mark = NoAnt
           \/ r.ok = TRUE /\ out[k].mark = t /\ out[k].end = r.pos
           \/ /\ r.ok = TRUE => out[k].mark # t
              /\ \E j \in DOMAIN segs : segs[j].mark = out[k].mark /\ segs[j].end = out[k].end
      /\ FewSegments(segs) => FewSegments(out)

(* Marked segments are as many as ants at most.                            *)
LEMMA MarkedFew ==
  ASSUME NEW ix \in Seq(Segments), OneMark(ix), NEW t \in Ants,
         \A i \in DOMAIN ix : ix[i].mark # t,
         \A i \in DOMAIN ix : ix[i].mark = NoAnt => i = Len(ix)
  PROVE  Len(ix) <= Cardinality(Ants)
<1> DEFINE n == Len(ix)
           Others == Ants \ {t}
           f == [i \in 1 .. n - 1 |-> ix[i].mark]
<1>1. /\ n \in Nat /\ DOMAIN ix = 1 .. n
      /\ \A i \in DOMAIN ix : ix[i].mark \in Ants \cup {NoAnt}
  BY SegTypes
<1>2. /\ IsFiniteSet(Ants) /\ IsFiniteSet(Others)
      /\ Cardinality(Others) = Cardinality(Ants) - 1 /\ Cardinality(Ants) \in Nat
      /\ Cardinality(Ants) >= 1
  <2>1. IsFiniteSet(Ants)
    BY FileManagerAssumption
  <2>2. /\ IsFiniteSet(Others) /\ Cardinality(Others) = Cardinality(Ants) - 1
    BY <2>1, FS_RemoveElement
  <2>3. Cardinality(Ants) \in Nat /\ Cardinality(Others) \in Nat
    BY <2>1, <2>2, FS_CardinalityType
  <2> QED
    BY <2>1, <2>2, <2>3
<1>3. CASE n = 0
  BY <1>2, <1>3
<1>4. CASE n # 0
  <2>1. \A i \in 1 .. n - 1 : i \in DOMAIN ix /\ i # n
    <3> HIDE DEF n
    <3> QED
      BY <1>1
  <2>2. \A i \in 1 .. n - 1 : ix[i].mark \in Others
    BY <1>1, <2>1
  <2>3. f \in Injection(1 .. n - 1, Others)
    <3>1. f \in [1 .. n - 1 -> Others]
      BY <2>2
    <3>2. ASSUME NEW i \in 1 .. n - 1, NEW j \in 1 .. n - 1, f[i] = f[j]
          PROVE  i = j
      BY <2>1, <2>2, <3>2, FileManagerAssumption DEF OneMark
    <3> HIDE DEF f
    <3> QED
      BY <3>1, <3>2 DEF Injection, IsInjective
  <2>4. Cardinality(1 .. n - 1) <= Cardinality(Others)
    BY <1>2, <2>3, FS_Injection
  <2>5. n - 1 \in Nat
    BY <1>1, <1>4
  <2>6. Cardinality(1 .. n - 1) = n - 1
    BY <2>5, UpTo
  <2> QED
    BY <1>1, <1>2, <2>4, <2>6
<1> QED
  BY <1>3, <1>4

(* A new segment keeps the index right and within its bound.               *)
LEMMA NewGiven ==
  ASSUME NEW ix \in Seq(Segments), Ordered(ix), OneMark(ix), NEW t \in Ants,
         \A i \in DOMAIN ix : ix[i].mark # t,
         NEW len \in Nat \cup {-1}, Starts(ix, len),
         NEW r, NewPlace(ix, t, len, r)
  PROVE  Given(ix, t, len, r)
<1> DEFINE out == r.index
           n == Len(ix)
           s == Seg(r.pos, r.pos, t)
<1>1. /\ n \in Nat /\ DOMAIN ix = 1 .. n
      /\ \A i \in DOMAIN ix : i \in Nat /\ ix[i].start \in Nat
  BY SegTypes
<1>2. /\ r.ok = TRUE
      /\ r.pos \in Nat /\ out = AddNewIndex(ix, t, r.pos)
      /\ \A i \in DOMAIN ix : ix[i].end < r.pos \/ r.pos < ix[i].start
      /\ len # -1 => r.pos <= len
  BY DEF NewPlace, Between
<1>3. /\ out \in Seq(Segments) /\ Len(out) = n + 1 /\ Ordered(out)
      /\ Bytes(out) = Bytes(ix)
      /\ \E k \in 0 .. n : out = Insert(ix, s, k)
  <2>1. r.pos \in Nat
    BY <1>2
  <2>2. \A i \in DOMAIN ix : ix[i].end < r.pos \/ r.pos < ix[i].start
    BY <1>2
  <2> DEFINE made == AddNewIndex(ix, t, r.pos)
  <2>3. /\ made \in Seq(Segments) /\ Len(made) = Len(ix) + 1 /\ Ordered(made)
        /\ Bytes(made) = Bytes(ix)
        /\ \E k \in 0 .. Len(ix) : made = Insert(ix, s, k)
    BY <2>1, <2>2, Added, Zenon
  <2>4. out = made
    BY <1>2
  <2> QED
    BY <2>3, <2>4, Zenon
<1>4. s.start = r.pos /\ s.end = r.pos /\ s.mark = t
  BY DEF Seg
<1> HIDE DEF out, s
<1>5. DOMAIN out = 1 .. n + 1
  BY <1>3
<1>6. PICK k \in 0 .. n : out = Insert(ix, s, k)
  BY <1>3
<1>7. ASSUME NEW i \in 1 .. n + 1
      PROVE  \/ i # k + 1 /\ \E j \in DOMAIN ix : out[i] = ix[j] /\ j = IF i <= k THEN i ELSE i - 1
             \/ i = k + 1 /\ out[i] = s
  <2>1. CASE i <= k
    <3>1. out[i] = ix[i] /\ i \in DOMAIN ix
      BY <1>1, <1>6, <2>1 DEF Insert
    <3> QED
      BY <1>1, <2>1, <3>1
  <2>2. CASE i = k + 1
    <3>1. out[i] = s
      BY <1>1, <1>6, <2>2 DEF Insert
    <3> QED
      BY <2>2, <3>1
  <2>3. CASE k + 1 < i
    <3>1. out[i] = ix[i - 1] /\ i - 1 \in DOMAIN ix
      BY <1>1, <1>6, <2>3 DEF Insert
    <3> QED
      BY <1>1, <2>3, <3>1
  <2> QED
    BY <1>1, <2>1, <2>2, <2>3
<1>8. OneMark(out)
  <2> SUFFICES ASSUME NEW i \in 1 .. n + 1, NEW j \in 1 .. n + 1,
                      out[i].mark # NoAnt, out[i].mark = out[j].mark
               PROVE  i = j
    BY <1>5 DEF OneMark
  <2>1. CASE i = k + 1
    <3>1. out[j].mark = t
      BY <1>4, <1>7, <2>1
    <3> QED
      BY <1>7, <2>1, <3>1
  <2>2. CASE j = k + 1
    <3>1. out[i].mark = t
      BY <1>4, <1>7, <2>2
    <3> QED
      BY <1>7, <2>2, <3>1
  <2>3. CASE i # k + 1 /\ j # k + 1
    <3>1. PICK a \in DOMAIN ix : out[i] = ix[a] /\ a = IF i <= k THEN i ELSE i - 1
      BY <1>7, <2>3
    <3>2. PICK b \in DOMAIN ix : out[j] = ix[b] /\ b = IF j <= k THEN j ELSE j - 1
      BY <1>7, <2>3
    <3>3. a = b
      BY <3>1, <3>2 DEF OneMark
    <3> QED
      BY <2>3, <3>1, <3>2, <3>3
  <2> QED
    BY <2>1, <2>2, <2>3
<1>9. \A i \in DOMAIN out :
        \/ r.ok = TRUE /\ out[i].mark = t /\ out[i].end = r.pos
        \/ /\ out[i].mark # t
           /\ \E j \in DOMAIN ix : ix[j].mark = out[i].mark /\ ix[j].end = out[i].end
  <2> SUFFICES ASSUME NEW i \in 1 .. n + 1
               PROVE  \/ r.ok = TRUE /\ out[i].mark = t /\ out[i].end = r.pos
                      \/ /\ out[i].mark # t
                         /\ \E j \in DOMAIN ix :
                              ix[j].mark = out[i].mark /\ ix[j].end = out[i].end
    BY <1>5
  <2>1. CASE out[i] = s
    BY <1>2, <1>4, <2>1
  <2>2. CASE \E j \in DOMAIN ix : out[i] = ix[j]
    BY <2>2
  <2> QED
    BY <1>7, <2>1, <2>2
<1>10. Starts(out, len)
  BY <1>2, <1>4, <1>5, <1>7 DEF Starts
<1>11. FewSegments(out)
  <2>1. Len(ix) <= Cardinality(Ants)
    BY MarkedFew DEF NewPlace
  <2>2. Cardinality(Ants) \in Nat
    BY FileManagerAssumption, FS_CardinalityType
  <2> QED
    BY <1>1, <1>3, <2>1, <2>2 DEF FewSegments
<1> QED
  BY <1>2, <1>3, <1>8, <1>9, <1>10, <1>11 DEF Given, out, NewPlace

(* So does a segment that is resumed.                                      *)
LEMMA ResumedGiven ==
  ASSUME NEW ix \in Seq(Segments), Ordered(ix), OneMark(ix), NEW t \in Ants,
         \A i \in DOMAIN ix : ix[i].mark # t,
         NEW len \in Nat \cup {-1}, Starts(ix, len),
         NEW r, NEW i \in DOMAIN ix, Resumed(ix, t, r, i)
  PROVE  Given(ix, t, len, r)
<1> DEFINE out == r.index
<1>1. /\ Len(ix) \in Nat /\ DOMAIN ix = 1 .. Len(ix)
      /\ \A k \in DOMAIN ix :
           /\ ix[k] \in Segments /\ ix[k].end \in Nat /\ ix[k].start \in Nat
           /\ ix[k].mark \in Ants \cup {NoAnt}
           /\ ix[k] = [start |-> ix[k].start, end |-> ix[k].end, mark |-> ix[k].mark]
  BY SegTypes
<1>2. /\ r.ok = TRUE /\ ix[i].mark = NoAnt /\ r.pos = ix[i].end
      /\ out = [ix EXCEPT ![i].mark = t]
  BY DEF Resumed
<1> HIDE DEF out
<1>3. /\ DOMAIN out = DOMAIN ix
      /\ out[i] = [start |-> ix[i].start, end |-> ix[i].end, mark |-> t]
      /\ \A k \in DOMAIN ix : k # i => out[k] = ix[k]
  BY <1>1, <1>2
<1>a. out = [k \in 1 .. Len(ix) |-> out[k]]
  BY <1>1, <1>2
<1>4. \A k \in DOMAIN ix :
        /\ out[k].start = ix[k].start /\ out[k].end = ix[k].end
        /\ out[k] \in Segments
        /\ out[k].mark = IF k = i THEN t ELSE ix[k].mark
  BY <1>1, <1>3 DEF Segments
<1>5. out \in Seq(Segments) /\ Len(out) = Len(ix)
  BY <1>1, <1>a, <1>3, <1>4
<1>6. Ordered(out) /\ Starts(out, len)
  BY <1>3, <1>4 DEF Ordered, Starts
<1>7. Bytes(out) = Bytes(ix)
  <2>1. \A b : Has(out, b) <=> Has(ix, b)
    BY <1>3, <1>4 DEF Has
  <2> QED
    BY <1>5, <2>1, BytesHas
<1>8. OneMark(out)
  BY <1>3, <1>4 DEF OneMark
<1>9. FewSegments(ix) => FewSegments(out)
  BY <1>5 DEF FewSegments
<1>10. \A k \in DOMAIN out :
         \/ r.ok = TRUE /\ out[k].mark = t /\ out[k].end = r.pos
         \/ /\ out[k].mark # t
            /\ \E j \in DOMAIN ix : ix[j].mark = out[k].mark /\ ix[j].end = out[k].end
  BY <1>2, <1>3, <1>4
<1> QED
  BY <1>1, <1>2, <1>5, <1>6, <1>7, <1>8, <1>9, <1>10 DEF Given, out

(* GetTask, whatever it finds.                                             *)
LEMMA TaskGiven ==
  ASSUME NEW segs \in Seq(Segments), Ordered(segs), OneMark(segs), NEW t \in Ants,
         NEW len \in Nat \cup {-1}, Starts(segs, len), len = -1 => Len(segs) <= 1,
         NEW r, r = GetTask(segs, t, len)
  PROVE  Given(segs, t, len, r)
<1> DEFINE ix == Tidy(segs, t)
<1>1. \A k \in DOMAIN segs : segs[k].mark \in Ants \cup {NoAnt}
  BY SegTypes
<1>2. CASE len = 0
  <2>1. r = [ok |-> FALSE, pos |-> 0, index |-> segs]
    BY <1>2 DEF GetTask
  <2> QED
    BY <2>1 DEF Given
<1>3. CASE len # 0
  <2>1. r = PlaceAnt(ix, t, len)
    BY <1>3 DEF GetTask, Tidy
  <2>2. Rearranged(segs, ix) /\ \A i \in DOMAIN ix : ix[i].mark # t
    BY TidyKeeps
  <2> HIDE DEF ix
  <2>3. /\ ix \in Seq(Segments) /\ Ordered(ix) /\ OneMark(ix)
        /\ Bytes(ix) = Bytes(segs) /\ Len(ix) <= Len(segs)
        /\ MarksFrom(ix, segs)
    BY <2>2 DEF Rearranged
  <2>4. Starts(ix, len)
    BY <2>2 DEF Rearranged, Starts
  <2>5. len = -1 => Len(ix) <= 1
    <3>1. Len(ix) \in Nat /\ Len(segs) \in Nat
      BY <2>3
    <3> QED
      BY <2>3, <3>1
  <2>6. FewSegments(segs) => FewSegments(ix)
    <3>1. Len(ix) \in Nat /\ Len(segs) \in Nat /\ Cardinality(Ants) \in Nat
      BY <2>3, FileManagerAssumption, FS_CardinalityType
    <3> QED
      BY <2>3, <3>1 DEF FewSegments
  <2>7. Given(ix, t, len, r) => Given(segs, t, len, r)
    <3> SUFFICES ASSUME Given(ix, t, len, r)
                 PROVE  Given(segs, t, len, r)
      OBVIOUS
    <3> DEFINE out == r.index
    <3>1. /\ r.ok \in BOOLEAN /\ r.pos \in Nat
          /\ out \in Seq(Segments) /\ Ordered(out) /\ Bytes(out) = Bytes(segs)
          /\ Starts(out, len) /\ OneMark(out)
          /\ FewSegments(segs) => FewSegments(out)
      BY <2>3, <2>6 DEF Given
    <3>2. ASSUME NEW k \in DOMAIN out
          PROVE  \/ out[k].mark = NoAnt
                 \/ r.ok = TRUE /\ out[k].mark = t /\ out[k].end = r.pos
                 \/ /\ r.ok = TRUE => out[k].mark # t
                    /\ \E j \in DOMAIN segs : segs[j].mark = out[k].mark /\ segs[j].end = out[k].end
      BY <2>3 DEF Given, MarksFrom
    <3> QED
      BY <3>1, <3>2 DEF Given
  <2>8. CASE NotPlaced(ix, r)
    <3>1. r.ok = FALSE /\ r.pos = 0 /\ r.index = ix
      BY <2>8 DEF NotPlaced
    <3>2. \A k \in DOMAIN ix : \E j \in DOMAIN ix :
            ix[j].mark = ix[k].mark /\ ix[j].end = ix[k].end
      OBVIOUS
    <3> DEFINE out == r.index
    <3>3. /\ out \in Seq(Segments) /\ Ordered(out) /\ Bytes(out) = Bytes(ix)
          /\ Starts(out, len) /\ OneMark(out)
          /\ FewSegments(ix) => FewSegments(out)
          /\ \A k \in DOMAIN out : \E j \in DOMAIN ix :
               ix[j].mark = out[k].mark /\ ix[j].end = out[k].end
      BY <2>3, <2>4, <3>1, <3>2
    <3> HIDE DEF out
    <3>4. Given(ix, t, len, r)
      <4>a. r.ok \in BOOLEAN
        BY <3>1, Zenon
      <4>1. r.ok \in BOOLEAN /\ r.pos \in Nat
        BY <3>1, <4>a
      <4>2. \A k \in DOMAIN out :
              \/ out[k].mark = NoAnt
              \/ r.ok = TRUE /\ out[k].mark = t /\ out[k].end = r.pos
              \/ /\ r.ok = TRUE => out[k].mark # t
                 /\ \E j \in DOMAIN ix : ix[j].mark = out[k].mark /\ ix[j].end = out[k].end
        BY <3>1, <3>3, Zenon
      <4> QED
        BY <3>3, <4>1, <4>2 DEF Given, out
    <3> QED
      BY <2>7, <3>4
  <2>9. CASE NewPlace(ix, t, len, r)
    BY <2>2, <2>3, <2>4, <2>7, <2>9, NewGiven
  <2>10. ASSUME NEW i \in DOMAIN ix, Resumed(ix, t, r, i)
         PROVE  Given(segs, t, len, r)
    BY <2>2, <2>3, <2>4, <2>7, <2>10, ResumedGiven
  <2> QED
    BY <2>1, <2>3, <2>4, <2>5, <2>8, <2>9, <2>10, Places
<1> QED
  BY <1>2, <1>3
-----------------------------------------------------------------------------
(* A segment of the index is replaced.                                     *)
LEMMA Replaced ==
  ASSUME NEW segs \in Seq(Segments), NEW i \in DOMAIN segs, NEW e \in Segments
  PROVE  LET out == [segs EXCEPT ![i] = e]
         IN  /\ out \in Seq(Segments) /\ Len(out) = Len(segs)
             /\ DOMAIN out = DOMAIN segs /\ out[i] = e
             /\ \A k \in DOMAIN segs : k # i => out[k] = segs[k]
<1> DEFINE out == [segs EXCEPT ![i] = e]
<1>1. /\ Len(segs) \in Nat /\ DOMAIN segs = 1 .. Len(segs)
      /\ \A k \in DOMAIN segs : segs[k] \in Segments
  BY SegTypes
<1>2. /\ DOMAIN out = DOMAIN segs /\ out[i] = e
      /\ \A k \in DOMAIN segs : k # i => out[k] = segs[k]
  BY <1>1
<1>3. out = [k \in 1 .. Len(segs) |-> out[k]]
  BY <1>1
<1> HIDE DEF out
<1>4. \A k \in 1 .. Len(segs) : out[k] \in Segments
  BY <1>1, <1>2
<1>5. out \in Seq(Segments) /\ Len(out) = Len(segs)
  BY <1>1, <1>3, <1>4
<1> QED
  BY <1>2, <1>5 DEF out

(* The index of a download that grows from its first byte: one segment at  *)
(* most.  Reach is where it ends.                                          *)
Single(segs) == segs = << >> \/ (Len(segs) = 1 /\ segs[1].start = 0)
Reach(segs) == IF segs = << >> THEN 0 ELSE segs[1].end

(* The types of such an index.                                             *)
LEMMA SingleLen ==
  ASSUME NEW segs \in Seq(Segments), Single(segs)
  PROVE  /\ Len(segs) <= 1 /\ Reach(segs) \in Nat
         /\ segs # << >> => /\ DOMAIN segs = {1} /\ segs[1] \in Segments
                            /\ segs[1].end \in Nat
                            /\ segs[1].mark \in Ants \cup {NoAnt}
<1>1. Len(<< >>) = 0
  OBVIOUS
<1>2. CASE segs = << >>
  BY <1>1, <1>2 DEF Reach
<1>3. CASE Len(segs) = 1
  <2>1. DOMAIN segs = {1}
    BY <1>3
  <2> QED
    BY <1>3, <2>1, SegTypes DEF Reach
<1> QED
  BY <1>2, <1>3 DEF Single

(* Releasing the segment keeps what it holds, and another ant's mark.      *)
LEMMA SingleReleased ==
  ASSUME NEW segs \in Seq(Segments), Single(segs), Ordered(segs), NEW t \in Ants,
         NEW ix, ix = MergeIndex(Unmark(segs, t))
  PROVE  /\ Single(ix) /\ Reach(ix) = Reach(segs)
         /\ ix # << >> => ix[1].mark # t
         /\ segs # << >> /\ segs[1].mark \notin {t, NoAnt} => ix = segs
<1> DEFINE u == Unmark(segs, t)
           mine == {i \in DOMAIN segs : segs[i].mark = t}
<1>1. t # NoAnt
  BY FileManagerAssumption
<1>2. /\ u \in Seq(Segments) /\ Len(u) = Len(segs)
      /\ \A i \in DOMAIN segs :
           /\ u[i].start = segs[i].start /\ u[i].end = segs[i].end
           /\ u[i].mark \in {segs[i].mark, NoAnt}
      /\ OneMark(segs) => OneMark(u) /\ \A i \in DOMAIN segs : u[i].mark # t
  BY Unmarked
<1>3. Len(segs) <= 1
  BY SingleLen
<1>4. ix = IF u = << >> \/ Vacant(u[1]) THEN << >> ELSE u
  BY <1>2, <1>3, MergeOne
<1>5. CASE segs = << >>
  <2>1. u = segs
    BY <1>5 DEF Unmark
  <2> QED
    BY <1>4, <1>5, <2>1
<1>6. CASE segs # << >>
  <2>1. DOMAIN segs = {1} /\ segs[1].start = 0 /\ Len(segs) = 1
    BY <1>6, SingleLen DEF Single
  <2>2. OneMark(segs)
    BY <2>1 DEF OneMark
  <2>3. u # << >> /\ Len(u) = 1
    <3> HIDE DEF u
    <3>1. Len(u) = 1
      BY <1>2, <2>1
    <3>2. Len(<< >>) # 1
      OBVIOUS
    <3> QED
      BY <3>1, <3>2, Zenon
  <2>4. segs[1].mark # t => u = segs
    <3>1. segs[1].mark # t => mine = {}
      BY <2>1
    <3> QED
      BY <3>1 DEF Unmark
  <2> HIDE DEF u, mine
  <2>5. u[1].start = 0 /\ u[1].end = segs[1].end /\ u[1].mark # t
    BY <1>2, <2>1, <2>2
  <2>6. CASE Vacant(u[1])
    <3>1. ix = << >> /\ u[1].end = 0 /\ u[1].mark = NoAnt
      BY <1>4, <2>5, <2>6 DEF Vacant
    <3>2. Reach(ix) = 0 /\ Reach(segs) = 0 /\ Single(ix)
      BY <1>6, <2>5, <3>1 DEF Reach, Single
    <3>3. segs[1].mark \in {t, NoAnt}
      BY <2>4, <3>1
    <3> QED
      BY <3>1, <3>2, <3>3
  <2>7. CASE ~Vacant(u[1])
    <3>1. ix = u
      BY <1>4, <2>3, <2>7
    <3>2. Single(ix) /\ Reach(ix) = Reach(segs)
      BY <1>6, <2>3, <2>5, <3>1 DEF Reach, Single
    <3> QED
      BY <2>4, <2>5, <3>1, <3>2
  <2> QED
    BY <2>6, <2>7
<1> QED
  BY <1>5, <1>6

(* GetTask in such an index: the ant goes on where the segment ends, or    *)
(* the index is left to the ant that extends it.                           *)
SoloGiven(segs, t, r) ==
  /\ Single(r.index) /\ Reach(r.index) = Reach(segs)
  /\ r.ok = TRUE => /\ r.index # << >> /\ r.index[1].mark = t
                    /\ r.pos = Reach(segs)
  /\ segs # << >> /\ segs[1].mark \notin {t, NoAnt} =>
       r.index = segs /\ r.ok = FALSE

(* Where a gap is too small to be split, or the length is not known, an    *)
(* ant goes on where the only segment ends, or is refused.                 *)
LEMMA SingleGiven ==
  ASSUME NEW segs \in Seq(Segments), Single(segs), Ordered(segs), NEW t \in Ants,
         NEW len \in Nat \cup {-1}, len = -1 \/ len - Reach(segs) < RECVBUF,
         NEW r, r = GetTask(segs, t, len)
  PROVE  SoloGiven(segs, t, r)
<1> USE DEF SoloGiven
<1> DEFINE ix == Tidy(segs, t)
<1>1. RECVBUF \in Nat /\ RECVBUF >= 4
  BY FileManagerAssumption
<1>2. CASE len = 0
  BY <1>2 DEF GetTask
<1>3. CASE len # 0
  <2>1. r = PlaceAnt(ix, t, len)
    BY <1>3 DEF GetTask, Tidy
  <2>2. ix = MergeIndex(Unmark(segs, t)) /\ Rearranged(segs, ix)
    BY TidyKeeps
  <2> HIDE DEF ix
  <2>3. /\ Single(ix) /\ Reach(ix) = Reach(segs)
        /\ ix # << >> => ix[1].mark # t
        /\ segs # << >> /\ segs[1].mark \notin {t, NoAnt} => ix = segs
    BY <2>2, SingleReleased
  <2>4. ix \in Seq(Segments) /\ Reach(segs) \in Nat
    BY <2>2, SingleLen DEF Rearranged
  <2>5. CASE ix = << >>
    <3>1. r.ok = TRUE /\ r.pos = 0 /\ r.index = AddNewIndex(ix, t, 0)
      BY <2>1, <2>5 DEF PlaceAnt
    <3>2. Append(ix, Seg(0, 0, t)) = <<Seg(0, 0, t)>>
      BY <2>5
    <3>3. <<Seg(0, 0, t)>> \in Seq(Segments)
      BY DEF Seg, Segments
    <3>4. OrderIndex(<<Seg(0, 0, t)>>) = <<Seg(0, 0, t)>>
      <4>1. \A i, j \in DOMAIN <<Seg(0, 0, t)>> : ~(i < j)
        OBVIOUS
      <4> QED
        BY <3>3, <4>1, OrderSame
    <3>5. r.index = <<Seg(0, 0, t)>>
      BY <3>1, <3>2, <3>4 DEF AddNewIndex
    <3>6. /\ r.index # << >> /\ Len(r.index) = 1 /\ r.index[1].start = 0
          /\ r.index[1].end = 0 /\ r.index[1].mark = t
      BY <3>5 DEF Seg
    <3>7. Reach(segs) = 0 /\ ~(segs # << >> /\ segs[1].mark \notin {t, NoAnt})
      BY <2>3, <2>5 DEF Reach
    <3> QED
      BY <3>1, <3>6, <3>7 DEF Single, Reach
  <2>6. CASE ix # << >>
    <3>1. Len(ix) = 1 /\ ix[1].start = 0 /\ DOMAIN ix = {1} /\ ix[1].end \in Nat
          /\ ix[1] \in Segments
      BY <2>3, <2>4, <2>6, SingleLen DEF Single
    <3>2. ix[1].end = Reach(segs)
      BY <2>3, <2>6 DEF Reach
    <3>3. ~Splittable(len - ix[1].end)
      BY <1>1, <2>4, <3>1, <3>2 DEF Splittable
    <3>4. r = IF Complete(ix, len) THEN [ok |-> FALSE, pos |-> 0, index |-> ix]
              ELSE IF ix[1].mark = NoAnt
              THEN [ok |-> TRUE, pos |-> ix[1].end, index |-> [ix EXCEPT ![1].mark = t]]
              ELSE [ok |-> FALSE, pos |-> 0, index |-> ix]
      BY <2>1, <2>6, <3>1, <3>3 DEF PlaceAnt
    <3>5. CASE r = [ok |-> FALSE, pos |-> 0, index |-> ix]
      <4>1. r.ok = FALSE /\ r.index = ix
        BY <3>5
      <4> QED
        BY <2>3, <4>1
    <3>6. CASE /\ ix[1].mark = NoAnt
               /\ r = [ok |-> TRUE, pos |-> ix[1].end,
                       index |-> [ix EXCEPT ![1].mark = t]]
      <4>1. r.ok = TRUE /\ r.pos = ix[1].end /\ r.index = [ix EXCEPT ![1].mark = t]
        BY <3>6
      <4>2. /\ DOMAIN r.index = {1} /\ Len(r.index) = 1 /\ r.index # << >>
            /\ r.index[1].start = 0 /\ r.index[1].end = ix[1].end
            /\ r.index[1].mark = t
        <5>1. [ix EXCEPT ![1].mark = t][1] = [ix[1] EXCEPT !.mark = t]
          BY <3>1
        <5>2. [ix EXCEPT ![1].mark = t] \in Seq(Segments) /\ Len([ix EXCEPT ![1].mark = t]) = 1
          <6>1. [ix[1] EXCEPT !.mark = t] \in Segments
            BY <3>1 DEF Segments
          <6>2. 1 \in DOMAIN ix /\ Len(ix) = 1
            BY <3>1
          <6> QED
            BY <2>4, <6>1, <6>2, Replaced
        <5>3. [ix[1] EXCEPT !.mark = t].mark = t /\ [ix[1] EXCEPT !.mark = t].start = 0
              /\ [ix[1] EXCEPT !.mark = t].end = ix[1].end
          BY <3>1 DEF Segments
        <5> QED
          BY <4>1, <5>1, <5>2, <5>3
      <4>3. ~(segs # << >> /\ segs[1].mark \notin {t, NoAnt})
        BY <2>3, <3>6
      <4>4. Single(r.index) /\ Reach(r.index) = Reach(segs)
        BY <3>2, <4>2 DEF Single, Reach
      <4> QED
        BY <3>2, <4>1, <4>2, <4>3, <4>4
    <3> QED
      BY <3>4, <3>5, <3>6
  <2> QED
    BY <2>5, <2>6
<1> QED
  BY <1>2, <1>3
-----------------------------------------------------------------------------
(* The bytes are added up segment by segment.                              *)
LEMMA SummingDef ==
  ASSUME NEW segs \in Seq(Segments)
  PROVE  /\ Summing(segs) \in [0 .. Len(segs) -> Int]
         /\ Summing(segs)[0] = 0
         /\ \A i \in 1 .. Len(segs) :
              Summing(segs)[i] = Summing(segs)[i - 1] + (segs[i].end - segs[i].start)
<1> DEFINE N == Len(segs)
           size == [i \in Nat |-> IF i \in DOMAIN segs
                                  THEN segs[i].end - segs[i].start ELSE 0]
           G == [i \in Nat |-> [v \in Int |-> v + size[i]]]
           Is(sum) == sum = [i \in 0 .. Len(segs) |->
              IF i = 0 THEN 0 ELSE sum[i - 1] + (segs[i].end - segs[i].start)]
<1>1. /\ N \in Nat /\ DOMAIN segs = 1 .. N
      /\ \A i \in DOMAIN segs : segs[i].start \in Nat /\ segs[i].end \in Nat
  BY SegTypes
<1>2. /\ size \in [Nat -> Int]
      /\ \A i \in 1 .. N : size[i] = segs[i].end - segs[i].start
  BY <1>1
<1> HIDE DEF size
<1>3. G \in [Nat -> [Int -> Int]]
  BY <1>2
<1>4. PICK f \in [0 .. N -> Int] : Iterates(f, 0, N, G)
  <2> DEFINE base == 0
  <2>1. base \in Int /\ N \in Nat
    BY <1>1
  <2> HIDE DEF G, N, base
  <2>2. \E f \in [0 .. N -> Int] : Iterates(f, base, N, G)
    BY <1>3, <2>1, Iterated
  <2> QED
    BY <2>2 DEF base
<1>5. /\ f[0] = 0
      /\ \A i \in 1 .. N : f[i] = f[i - 1] + (segs[i].end - segs[i].start)
  <2>1. ASSUME NEW i \in 1 .. N
        PROVE  f[i] = f[i - 1] + (segs[i].end - segs[i].start)
    <3>1. i \in Nat /\ i - 1 \in 0 .. N
      BY <1>1
    <3>2. f[i] = G[i][f[i - 1]] /\ f[i - 1] \in Int
      BY <1>4, <3>1 DEF Iterates
    <3> QED
      BY <1>2, <3>1, <3>2
  <2> QED
    BY <1>4, <2>1 DEF Iterates
<1>6. Is(f)
  <2>1. f = [i \in 0 .. N |-> f[i]]
    BY <1>4
  <2>2. \A i \in 0 .. N :
          f[i] = IF i = 0 THEN 0 ELSE f[i - 1] + (segs[i].end - segs[i].start)
    <3> TAKE i \in 0 .. N
    <3>1. i = 0 \/ (i # 0 /\ i \in 1 .. N)
      BY <1>1
    <3> QED
      BY <1>5, <3>1
  <2> QED
    BY <2>1, <2>2, Zenon
<1>7. Summing(segs) = CHOOSE sum : Is(sum)
  BY DEF Summing
<1>8. Is(Summing(segs))
  <2> HIDE DEF Is
  <2> QED
    BY <1>6, <1>7
<1> DEFINE S == Summing(segs)
<1>9. DOMAIN S = 0 .. N /\ S[0] = 0
      /\ \A i \in 1 .. N : S[i] = S[i - 1] + (segs[i].end - segs[i].start)
  <2> HIDE DEF S
  <2>1. S = [i \in 0 .. N |->
              IF i = 0 THEN 0 ELSE S[i - 1] + (segs[i].end - segs[i].start)]
    BY <1>8 DEF S
  <2> QED
    BY <1>1, <2>1
<1>10. S = [i \in 0 .. N |-> S[i]]
  BY <1>8
<1> HIDE DEF S
<1>11. \A i \in 0 .. N : S[i] \in Int
  <2> DEFINE T == {n \in Nat : n \in 0 .. N => S[n] \in Int}
  <2>1. 0 \in T
    BY <1>9
  <2>2. ASSUME NEW n \in Nat, n \in T
        PROVE  n + 1 \in T
    <3>1. CASE n + 1 \in 0 .. N
      <4>1. n \in 0 .. N /\ n + 1 \in 1 .. N /\ (n + 1) - 1 = n
        BY <1>1, <3>1
      <4>2. S[n + 1] = S[n] + (segs[n + 1].end - segs[n + 1].start)
        BY <1>9, <4>1
      <4> QED
        BY <1>1, <2>2, <4>1, <4>2
    <3> QED
      BY <3>1
  <2> HIDE DEF T
  <2>3. \A n \in Nat : n \in T
    BY <2>1, <2>2, Induct
  <2> QED
    BY <1>1, <2>3 DEF T
<1>12. S \in [0 .. N -> Int]
  BY <1>10, <1>11
<1> QED
  BY <1>9, <1>12 DEF S

(* In an index whose segments do not overlap it counts every byte once.    *)
LEMMA SumCounts ==
  ASSUME NEW segs \in Seq(Segments), Ordered(segs)
  PROVE  IsFiniteSet(Bytes(segs)) /\ SumBytes(segs) = Cardinality(Bytes(segs))
<1> DEFINE N == Len(segs)
           S == Summing(segs)
           To(n) == {b \in Nat : \E j \in 1 .. n : In(segs[j], b)}
           T == {n \in Nat : n \in 0 .. N =>
                   IsFiniteSet(To(n)) /\ Cardinality(To(n)) = S[n]}
<1>1. /\ N \in Nat /\ DOMAIN segs = 1 .. N
      /\ \A i \in DOMAIN segs : segs[i].start \in Nat /\ segs[i].end \in Nat
  BY SegTypes
<1>2. /\ S \in [0 .. N -> Int] /\ S[0] = 0
      /\ \A i \in 1 .. N : S[i] = S[i - 1] + (segs[i].end - segs[i].start)
  BY SummingDef
<1> HIDE DEF S
<1>3. 0 \in T
  <2>1. To(0) = {}
    OBVIOUS
  <2> QED
    BY <1>2, <2>1, FS_EmptySet
<1>4. ASSUME NEW n \in Nat, n \in T
      PROVE  n + 1 \in T
  <2> SUFFICES ASSUME n + 1 \in 0 .. N
               PROVE  IsFiniteSet(To(n + 1)) /\ Cardinality(To(n + 1)) = S[n + 1]
    OBVIOUS
  <2> DEFINE s == segs[n + 1]
             I == s.start .. s.end - 1
  <2>1. /\ n + 1 \in 1 .. N /\ n + 1 \in DOMAIN segs /\ n \in 0 .. N /\ (n + 1) - 1 = n
        /\ s.start \in Nat /\ s.end \in Nat /\ s.start <= s.end
    BY <1>1 DEF Ordered
  <2>2. S[n + 1] = S[n] + (s.end - s.start)
    BY <1>2, <2>1
  <2>3. IsFiniteSet(To(n)) /\ Cardinality(To(n)) = S[n]
    BY <1>4, <2>1
  <2>4. IsFiniteSet(I) /\ Cardinality(I) = s.end - s.start
    <3>1. s.start \in Int /\ s.end - 1 \in Int
      BY <2>1
    <3>2. /\ IsFiniteSet(I)
          /\ Cardinality(I) =
               IF s.start > s.end - 1 THEN 0 ELSE (s.end - 1) - s.start + 1
      BY <3>1, FS_Interval
    <3> HIDE DEF I, s
    <3> QED
      BY <2>1, <3>2
  <2>5. \A b : b \in I <=> b \in Nat /\ In(s, b)
    BY <2>1 DEF In
  <2>6. \A b : b \in To(n + 1) <=> b \in To(n) \/ b \in I
    <3>1. \A j : j \in 1 .. n + 1 <=> j \in 1 .. n \/ j = n + 1
      OBVIOUS
    <3> HIDE DEF I
    <3> QED
      BY <2>5, <3>1
  <2>7. \A b : ~(b \in To(n) /\ b \in I)
    <3> SUFFICES ASSUME NEW b, b \in To(n), b \in I
                 PROVE  FALSE
      OBVIOUS
    <3>1. PICK j \in 1 .. n : In(segs[j], b)
      OBVIOUS
    <3>2. /\ j \in DOMAIN segs /\ j < n + 1 /\ b \in Nat
          /\ segs[j].end \in Nat
      BY <1>1, <2>1
    <3>3. segs[j].end < s.start
      BY <2>1, <3>2 DEF Ordered
    <3>4. b < segs[j].end /\ s.start <= b
      BY <2>1, <3>1 DEF In
    <3> QED
      BY <2>1, <3>2, <3>3, <3>4
  <2> HIDE DEF To, I
  <2>8. To(n + 1) = To(n) \cup I /\ To(n) \cap I = {}
    BY <2>6, <2>7
  <2>9. Cardinality(To(n) \cap I) = 0
    BY <2>8, FS_EmptySet
  <2>10. /\ IsFiniteSet(To(n) \cup I)
         /\ Cardinality(To(n) \cup I) =
              Cardinality(To(n)) + Cardinality(I) - Cardinality(To(n) \cap I)
    BY <2>3, <2>4, FS_Union
  <2>11. S[n] \in Int
    BY <1>2, <2>1
  <2> HIDE DEF s
  <2>12. Cardinality(To(n) \cup I) = S[n] + (s.end - s.start) - 0
    BY <2>3, <2>4, <2>9, <2>10, Zenon
  <2>13. Cardinality(To(n + 1)) = S[n + 1]
    <3>1. Cardinality(To(n + 1)) = S[n] + (s.end - s.start) - 0
      BY <2>8, <2>12, Zenon
    <3>2. S[n] + (s.end - s.start) - 0 = S[n] + (s.end - s.start)
      BY <2>1, <2>11
    <3> QED
      BY <2>2, <3>1, <3>2, Zenon
  <2> QED
    BY <2>8, <2>10, <2>13
<1>5. IsFiniteSet(To(N)) /\ Cardinality(To(N)) = S[N]
  <2> HIDE DEF T
  <2>1. \A n \in Nat : n \in T
    BY <1>3, <1>4, Induct
  <2> HIDE DEF To
  <2>2. N \in T /\ N \in 0 .. N
    BY <1>1, <2>1
  <2> QED
    BY <2>2 DEF T
<1>6. To(N) = Bytes(segs)
  <2>1. \A b : b \in To(N) <=> b \in Bytes(segs)
    <3>1. \A b : Has(segs, b) <=> \E j \in 1 .. N : In(segs[j], b)
      BY <1>1 DEF Has, In
    <3> QED
      BY <3>1, BytesHas
  <2> QED
    BY <2>1
<1>7. SumBytes(segs) = S[N]
  BY DEF SumBytes, S
<1> QED
  BY <1>5, <1>6, <1>7
-----------------------------------------------------------------------------
(* What ReadIndex makes of one line.                                       *)
Kept(out, s) == IF s.start < s.end THEN Append(out, [s EXCEPT !.mark = NoAnt]) ELSE out

(* A line adds a segment or nothing.                                       *)
LEMMA KeptType ==
  ASSUME NEW out \in Seq(Segments), NEW s \in Segments
  PROVE  Kept(out, s) \in Seq(Segments)
<1>1. [s EXCEPT !.mark = NoAnt] \in Segments
  BY DEF Segments
<1>2. Append(out, [s EXCEPT !.mark = NoAnt]) \in Seq(Segments)
  BY <1>1, AppendSegs
<1> QED
  BY <1>2 DEF Kept

(* Reading is the function its recursion describes: one turn per line.     *)
LEMMA ReadingDef ==
  ASSUME NEW segs \in Seq(Segments)
  PROVE  /\ Reading(segs)[0] = << >>
         /\ \A i \in 1 .. Len(segs) :
              Reading(segs)[i] = Kept(Reading(segs)[i - 1], segs[i])
<1> DEFINE N == Len(segs)
           V == Seq(Segments)
           base == << >>
           G == [i \in Nat |-> [v \in V |-> IF i \in DOMAIN segs THEN Kept(v, segs[i]) ELSE v]]
           Is(kept) == kept = [i \in 0 .. Len(segs) |->
              IF i = 0 THEN << >>
              ELSE IF segs[i].start < segs[i].end
              THEN Append(kept[i - 1], [segs[i] EXCEPT !.mark = NoAnt])
              ELSE kept[i - 1]]
<1>1. /\ N \in Nat /\ DOMAIN segs = 1 .. N
      /\ \A i \in DOMAIN segs : segs[i] \in Segments
  BY SegTypes
<1>2. base \in V
  OBVIOUS
<1>3. G \in [Nat -> [V -> V]]
  <2> HIDE DEF V
  <2>1. \A i \in DOMAIN segs, v \in V : Kept(v, segs[i]) \in V
    BY <1>1, KeptType DEF V
  <2> QED
    BY <2>1
<1>4. \A i \in 1 .. N, v \in V : G[i][v] = Kept(v, segs[i])
  <2> HIDE DEF V
  <2> QED
    BY <1>1
<1> HIDE DEF V, G
<1>5. PICK f \in [0 .. N -> V] : Iterates(f, base, N, G)
  <2> HIDE DEF N, base
  <2> QED
    BY <1>1, <1>2, <1>3, Iterated
<1>6. /\ f[0] = << >>
      /\ \A i \in 1 .. N : f[i] = Kept(f[i - 1], segs[i])
  <2>1. ASSUME NEW i \in 1 .. N
        PROVE  f[i] = Kept(f[i - 1], segs[i])
    <3>1. i - 1 \in 0 .. N
      BY <1>1
    <3>2. f[i] = G[i][f[i - 1]] /\ f[i - 1] \in V
      BY <1>5, <3>1 DEF Iterates
    <3> QED
      BY <1>4, <3>2
  <2> QED
    BY <1>5, <2>1 DEF Iterates
<1>7. Is(f)
  <2>1. f = [i \in 0 .. N |-> f[i]]
    BY <1>5
  <2>2. \A i \in 0 .. N :
          f[i] = IF i = 0 THEN << >>
                 ELSE IF segs[i].start < segs[i].end
                 THEN Append(f[i - 1], [segs[i] EXCEPT !.mark = NoAnt])
                 ELSE f[i - 1]
    <3> TAKE i \in 0 .. N
    <3>1. i = 0 \/ (i # 0 /\ i \in 1 .. N)
      BY <1>1
    <3> QED
      BY <1>6, <3>1, Zenon DEF Kept
  <2> QED
    BY <2>1, <2>2, Zenon
<1>8. Reading(segs) = CHOOSE kept : Is(kept)
  BY DEF Reading
<1>9. Is(Reading(segs))
  <2> HIDE DEF Is
  <2> QED
    BY <1>7, <1>8
<1> DEFINE K == Reading(segs)
<1>10. K = [i \in 0 .. N |->
              IF i = 0 THEN << >>
              ELSE IF segs[i].start < segs[i].end
              THEN Append(K[i - 1], [segs[i] EXCEPT !.mark = NoAnt])
              ELSE K[i - 1]]
  BY <1>9
<1> HIDE DEF K
<1>11. K[0] = << >>
  <2>1. 0 \in 0 .. N
    BY <1>1
  <2> QED
    BY <1>10, <2>1, Zenon
<1>12. ASSUME NEW i \in 1 .. N
       PROVE  K[i] = Kept(K[i - 1], segs[i])
  <2>1. i \in 0 .. N /\ i # 0
    BY <1>1
  <2> QED
    BY <1>10, <2>1, Zenon DEF Kept
<1> QED
  BY <1>11, <1>12 DEF K

(* What is read of the first n segments.                                   *)
ReadAs(out, segs, n) ==
  /\ out \in Seq(Segments) /\ Len(out) <= n
  /\ \A k \in DOMAIN out :
       /\ out[k].mark = NoAnt /\ out[k].start < out[k].end
       /\ \E j \in 1 .. n : out[k].start = segs[j].start /\ out[k].end = segs[j].end
  /\ \A b \in Nat : Has(out, b) <=> \E j \in 1 .. n : In(segs[j], b)
  /\ Ordered(segs) => Ordered(out)

(* A line keeps what was read so far in order.                             *)
LEMMA ReadTurn ==
  ASSUME NEW segs \in Seq(Segments), NEW n \in Nat, n + 1 \in DOMAIN segs,
         NEW out, ReadAs(out, segs, n)
  PROVE  ReadAs(Kept(out, segs[n + 1]), segs, n + 1)
<1> DEFINE s == segs[n + 1]
           e == [s EXCEPT !.mark = NoAnt]
<1>1. /\ Len(segs) \in Nat /\ DOMAIN segs = 1 .. Len(segs)
      /\ \A i \in DOMAIN segs : /\ segs[i] \in Segments /\ i \in Nat
                                /\ segs[i].start \in Nat /\ segs[i].end \in Nat
  BY SegTypes
<1>2. /\ s \in Segments /\ s.start \in Nat /\ s.end \in Nat
      /\ e \in Segments /\ e.start = s.start /\ e.end = s.end /\ e.mark = NoAnt
  BY <1>1 DEF Segments
<1>3. out \in Seq(Segments) /\ Len(out) \in Nat /\ Len(out) <= n
  BY DEF ReadAs
<1>4. \A j : j \in 1 .. n + 1 <=> j \in 1 .. n \/ j = n + 1
  OBVIOUS
<1>5. \A b : (\E j \in 1 .. n + 1 : In(segs[j], b)) <=>
             (\E j \in 1 .. n : In(segs[j], b)) \/ In(s, b)
  BY <1>4
<1>6. CASE ~(s.start < s.end)
  <2>1. Kept(out, s) = out
    BY <1>6 DEF Kept
  <2>2. \A b \in Nat : ~In(s, b)
    BY <1>2, <1>6 DEF In
  <2>3. Len(out) <= n + 1
    BY <1>3
  <2> HIDE DEF s
  <2>4. ReadAs(out, segs, n + 1)
    BY <1>4, <1>5, <2>2, <2>3 DEF ReadAs
  <2> QED
    BY <2>1, <2>4 DEF s
<1>7. CASE s.start < s.end
  <2> DEFINE a == Append(out, e)
  <2>1. Kept(out, s) = a
    BY <1>7 DEF Kept
  <2> HIDE DEF e
  <2>2. /\ a \in Seq(Segments) /\ Len(a) = Len(out) + 1
        /\ DOMAIN a = 1 .. Len(out) + 1 /\ a[Len(out) + 1] = e
        /\ \A k \in 1 .. Len(out) : a[k] = out[k]
        /\ \A b : Has(a, b) <=> Has(out, b) \/ (e.start <= b /\ b < e.end)
        /\ Ordered(a) <=>
              /\ Ordered(out) /\ e.start <= e.end
              /\ \A k \in DOMAIN out : out[k].end < e.start
    BY <1>2, <1>3, AppendSegs
  <2> HIDE DEF a
  <2>3. \A k \in DOMAIN a : k = Len(out) + 1 \/ (k \in 1 .. Len(out) /\ k \in DOMAIN out)
    BY <1>3, <2>2
  <2>4. \A b \in Nat : Has(a, b) <=> \E j \in 1 .. n + 1 : In(segs[j], b)
    BY <1>2, <1>5, <2>2 DEF ReadAs, In
  <2>5. ASSUME NEW k \in DOMAIN a
        PROVE  /\ a[k].mark = NoAnt /\ a[k].start < a[k].end
               /\ \E j \in 1 .. n + 1 :
                    a[k].start = segs[j].start /\ a[k].end = segs[j].end
    <3>1. CASE k = Len(out) + 1
      BY <1>2, <1>4, <1>7, <2>2, <3>1
    <3>2. CASE k \in 1 .. Len(out) /\ k \in DOMAIN out
      BY <1>4, <2>2, <3>2 DEF ReadAs
    <3> QED
      BY <2>3, <3>1, <3>2
  <2>6. ASSUME Ordered(segs)
        PROVE  Ordered(a)
    <3>1. ASSUME NEW k \in DOMAIN out
          PROVE  out[k].end < e.start
      <4>1. PICK j \in 1 .. n : out[k].end = segs[j].end
        BY DEF ReadAs
      <4>2. j \in DOMAIN segs /\ j < n + 1
        BY <1>1
      <4> QED
        BY <1>2, <2>6, <4>1, <4>2 DEF Ordered
    <3>2. Ordered(out) /\ e.start <= e.end
      BY <1>2, <1>7, <2>6 DEF ReadAs
    <3> QED
      BY <2>2, <3>1, <3>2
  <2>7. Len(a) <= n + 1
    BY <1>3, <2>2
  <2>8. ReadAs(a, segs, n + 1)
    BY <2>2, <2>4, <2>5, <2>6, <2>7 DEF ReadAs
  <2> QED
    BY <2>1, <2>8
<1> QED
  BY <1>6, <1>7

(* ReadIndex takes over the bytes of the file's segments, or none.         *)
LEMMA ReadKeeps ==
  ASSUME NEW segs \in Seq(Segments), NEW len \in Nat \cup {-1},
         NEW out, out = ReadIndex(segs, len)
  PROVE  /\ out \in Seq(Segments) /\ Len(out) <= Len(segs)
         /\ Bytes(out) \subseteq Bytes(segs)
         /\ \A k \in DOMAIN out :
              out[k].mark = NoAnt /\ out[k].start < out[k].end /\ out[k].end <= len
         /\ Ordered(segs) => Ordered(out)
<1> DEFINE N == Len(segs)
           K == Reading(segs)
           T == {n \in Nat : n \in 0 .. N => ReadAs(K[n], segs, n)}
           valid == K[N]
<1>1. N \in Nat /\ DOMAIN segs = 1 .. N
  BY SegTypes
<1>2. /\ K[0] = << >>
      /\ \A i \in 1 .. N : K[i] = Kept(K[i - 1], segs[i])
  BY ReadingDef
<1> HIDE DEF K
<1>3. 0 \in T
  <2>1. << >> \in Seq(Segments) /\ Len(<< >>) = 0 /\ DOMAIN << >> = {}
    OBVIOUS
  <2>2. Ordered(<< >>) /\ \A b : ~Has(<< >>, b)
    BY <2>1 DEF Ordered, Has
  <2>3. ReadAs(<< >>, segs, 0)
    BY <2>1, <2>2 DEF ReadAs
  <2> QED
    BY <1>2, <2>3
<1>4. ASSUME NEW n \in Nat, n \in T
      PROVE  n + 1 \in T
  <2> SUFFICES ASSUME n + 1 \in 0 .. N
               PROVE  ReadAs(K[n + 1], segs, n + 1)
    OBVIOUS
  <2>1. /\ n \in 0 .. N /\ n + 1 \in 1 .. N /\ n + 1 \in DOMAIN segs
        /\ (n + 1) - 1 = n
    BY <1>1
  <2>2. ReadAs(K[n], segs, n) /\ K[n + 1] = Kept(K[n], segs[n + 1])
    BY <1>2, <1>4, <2>1
  <2> QED
    BY <2>1, <2>2, ReadTurn
<1>5. ReadAs(valid, segs, N)
  <2> HIDE DEF T
  <2>1. \A n \in Nat : n \in T
    BY <1>3, <1>4, Induct
  <2>2. N \in T /\ N \in 0 .. N
    BY <1>1, <2>1
  <2> QED
    BY <2>2 DEF T
<1>6. Bytes(valid) = Bytes(segs)
  <2>1. \A b : Has(segs, b) <=> \E j \in 1 .. N : In(segs[j], b)
    BY <1>1 DEF Has, In
  <2> QED
    BY <1>5, <2>1, BytesHas DEF ReadAs
<1>7. out = IF len = -1 \/ \E s \in ToSet(valid) : s.end > len THEN << >> ELSE valid
  BY DEF ReadIndex, K
<1> HIDE DEF valid
<1>8. CASE out = << >>
  <2>1. /\ out \in Seq(Segments) /\ Len(out) = 0 /\ DOMAIN out = {}
    BY <1>8
  <2>2. \A b : ~Has(out, b)
    BY <2>1 DEF Has
  <2>3. Bytes(out) = {} /\ Ordered(out)
    BY <2>1, <2>2, BytesHas DEF Ordered
  <2> QED
    BY <1>1, <2>1, <2>3
<1>9. CASE out = valid /\ len # -1 /\ ~\E s \in ToSet(valid) : s.end > len
  <2>1. valid \in Seq(Segments) /\ \A k \in DOMAIN valid : valid[k].end \in Nat
    BY <1>5, SegTypes DEF ReadAs
  <2>2. \A k \in DOMAIN valid : valid[k].end <= len
    BY <1>9, <2>1 DEF ToSet
  <2> QED
    BY <1>5, <1>6, <1>9, <2>2 DEF ReadAs
<1> QED
  BY <1>7, <1>8, <1>9
-----------------------------------------------------------------------------
(* The end of a segment is moved.                                          *)
Moved(segs, i, e, out) == out = [segs EXCEPT ![i].end = e]

(* The other ends stay.                                                    *)
LEMMA Extended ==
  ASSUME NEW segs \in Seq(Segments), NEW i \in DOMAIN segs, NEW e \in Nat,
         NEW out, Moved(segs, i, e, out)
  PROVE  /\ out \in Seq(Segments) /\ Len(out) = Len(segs) /\ DOMAIN out = DOMAIN segs
         /\ \A k \in DOMAIN segs :
              /\ out[k].start = segs[k].start /\ out[k].mark = segs[k].mark
              /\ out[k].end = IF k = i THEN e ELSE segs[k].end
<1> DEFINE s == [segs[i] EXCEPT !.end = e]
<1>1. segs[i] \in Segments
  BY SegTypes
<1>2. s \in Segments /\ s.start = segs[i].start /\ s.mark = segs[i].mark /\ s.end = e
  BY <1>1 DEF Segments
<1>3. out = [segs EXCEPT ![i] = s]
  BY DEF Moved
<1> HIDE DEF s
<1>4. /\ out \in Seq(Segments) /\ Len(out) = Len(segs) /\ DOMAIN out = DOMAIN segs
      /\ out[i] = s /\ \A k \in DOMAIN segs : k # i => out[k] = segs[k]
  BY <1>2, <1>3, Replaced
<1> QED
  BY <1>2, <1>4

(* Where a mark was, and that its segment reaches as far as before or to   *)
(* the end of the file.                                                    *)
MarksReach(out, segs, len) ==
  \A k \in DOMAIN out : out[k].mark # NoAnt =>
    \E j \in DOMAIN segs :
      /\ segs[j].mark = out[k].mark
      /\ segs[j].end <= out[k].end \/ (len # -1 /\ out[k].end = len)

(* What a piece makes of the index.                                        *)
Written(segs, pos, to, len, w) ==
  LET out == w.index
  IN  /\ w.ret \in {0, 1} /\ w.combine \in BOOLEAN
      /\ out \in Seq(Segments) /\ Ordered(out) /\ Len(out) <= Len(segs)
      /\ Starts(out, len)
      /\ Bytes(out) \subseteq Bytes(segs) \cup pos .. to - 1
      /\ \A b \in Bytes(segs) : len = -1 \/ b < len => b \in Bytes(out)
      /\ w.combine = FALSE => SumBytes(out) = SumBytes(segs) + (to - pos)
      /\ MarksReach(out, segs, len)
      /\ OneMark(segs) => OneMark(out)

(* The segment is extended up to the next one, or to the end of the file.  *)
LEMMA ExtendedRight ==
  ASSUME NEW segs \in Seq(Segments), Ordered(segs), NEW len \in Nat \cup {-1},
         Starts(segs, len), NEW i \in DOMAIN segs, NEW to \in Nat,
         NEW e \in Nat, NEW pos, pos = segs[i].end, pos <= to,
         NEW out, Moved(segs, i, e, out),
         \/ e = to
         \/ i = Len(segs) /\ e = len /\ len < to /\ len # -1,
         i # Len(segs) => to < segs[i + 1].start
  PROVE  /\ out \in Seq(Segments) /\ Len(out) = Len(segs)
         /\ Ordered(out) /\ Starts(out, len)
         /\ Bytes(out) \subseteq Bytes(segs) \cup pos .. to - 1
         /\ \A b \in Bytes(segs) : len = -1 \/ b < len => b \in Bytes(out)
         /\ e = to => SumBytes(out) = SumBytes(segs) + (to - pos)
         /\ MarksReach(out, segs, len)
         /\ OneMark(segs) => OneMark(out)
<1>1. /\ Len(segs) \in Nat /\ DOMAIN segs = 1 .. Len(segs)
      /\ \A k \in DOMAIN segs : /\ k \in Nat /\ segs[k].start \in Nat
                                /\ segs[k].end \in Nat
  BY SegTypes
<1>2. /\ out \in Seq(Segments) /\ Len(out) = Len(segs) /\ DOMAIN out = DOMAIN segs
      /\ \A k \in DOMAIN segs :
           /\ out[k].start = segs[k].start /\ out[k].mark = segs[k].mark
           /\ out[k].end = IF k = i THEN e ELSE segs[k].end
  BY Extended
<1>3. pos \in Nat /\ segs[i].start <= pos
  BY <1>1 DEF Ordered
<1>4. segs[i].start <= e /\ (e = to \/ i = Len(segs)) /\ e <= to
  BY <1>1, <1>3 DEF Starts
<1>5. ASSUME NEW k \in DOMAIN segs, i < k
      PROVE  to < segs[k].start
  <2>1. i + 1 \in DOMAIN segs /\ i # Len(segs)
    BY <1>1, <1>5
  <2>2. CASE k = i + 1
    BY <2>1, <2>2
  <2>3. CASE i + 1 < k
    <3>1. segs[i + 1].end < segs[k].start /\ segs[i + 1].start <= segs[i + 1].end
      BY <2>1, <2>3 DEF Ordered
    <3> QED
      BY <1>1, <2>1, <3>1
  <2> QED
    BY <1>1, <1>5, <2>2, <2>3
<1>6. ASSUME NEW k \in DOMAIN segs, k < i
      PROVE  segs[k].end < pos
  BY <1>1, <1>3, <1>6 DEF Ordered
<1>7. Ordered(out)
  <2>1. \A k \in DOMAIN out : out[k].start <= out[k].end
    BY <1>1, <1>2, <1>4 DEF Ordered
  <2>2. ASSUME NEW k \in DOMAIN out, NEW l \in DOMAIN out, k < l
        PROVE  out[k].end < out[l].start
    <3>1. CASE k = i
      <4>1. to < segs[l].start /\ out[l].start = segs[l].start /\ out[k].end = e
        BY <1>2, <1>5, <2>2, <3>1
      <4>2. l \in DOMAIN segs /\ segs[l].start \in Nat /\ e <= to
        BY <1>1, <1>2, <1>4
      <4> QED
        BY <4>1, <4>2
    <3>2. CASE k # i
      BY <1>2, <2>2, <3>2 DEF Ordered
    <3> QED
      BY <3>1, <3>2
  <2> QED
    BY <2>1, <2>2 DEF Ordered
<1>8. Starts(out, len)
  BY <1>2 DEF Starts
<1>9. ASSUME NEW b \in Nat, Has(out, b)
      PROVE  Has(segs, b) \/ b \in pos .. to - 1
  <2>1. PICK k \in DOMAIN segs : out[k].start <= b /\ b < out[k].end
    BY <1>2, <1>9 DEF Has
  <2>2. CASE k = i
    <3>1. b < e /\ segs[i].start <= b
      BY <1>2, <2>1, <2>2
    <3>2. b < pos => Has(segs, b)
      BY <3>1 DEF Has
    <3> QED
      BY <1>3, <1>4, <3>1, <3>2
  <2>3. CASE k # i
    <3>1. segs[k].start <= b /\ b < segs[k].end
      BY <1>2, <2>1, <2>3
    <3> QED
      BY <3>1 DEF Has
  <2> QED
    BY <2>2, <2>3
<1>10. ASSUME NEW b \in Nat, Has(segs, b), len = -1 \/ b < len \/ e = to
       PROVE  Has(out, b)
  <2>1. PICK k \in DOMAIN segs : segs[k].start <= b /\ b < segs[k].end
    BY <1>10 DEF Has
  <2>2. CASE k = i
    <3>1. b < e
      BY <1>3, <1>10, <2>1, <2>2
    <3>2. out[i].start <= b /\ b < out[i].end
      BY <1>2, <2>1, <2>2, <3>1
    <3> QED
      BY <1>2, <3>2 DEF Has
  <2>3. CASE k # i
    <3>1. out[k].start <= b /\ b < out[k].end
      BY <1>2, <2>1, <2>3
    <3> QED
      BY <1>2, <3>1 DEF Has
  <2> QED
    BY <2>2, <2>3
<1>11. Bytes(out) \subseteq Bytes(segs) \cup pos .. to - 1
  BY <1>2, <1>9, BytesHas
<1>12. \A b \in Bytes(segs) : len = -1 \/ b < len => b \in Bytes(out)
  BY <1>2, <1>10, BytesHas
<1>13. ASSUME e = to
       PROVE  SumBytes(out) = SumBytes(segs) + (to - pos)
  <2> DEFINE I == pos .. to - 1
             B == Bytes(segs)
  <2>1. \A b \in Nat : b \in I => Has(out, b)
    <3> SUFFICES ASSUME NEW b \in Nat, b \in I
                 PROVE  Has(out, b)
      OBVIOUS
    <3>1. out[i].start <= b /\ b < out[i].end
      BY <1>1, <1>2, <1>3, <1>13
    <3> QED
      BY <1>2, <3>1 DEF Has
  <2>2. Bytes(out) = B \cup I
    <3>1. I \subseteq Nat
      BY <1>3
    <3>2. \A b : b \in Bytes(out) <=> b \in B \/ b \in I
      BY <1>2, <1>9, <1>10, <1>13, <2>1, <3>1, BytesHas
    <3> HIDE DEF B, I
    <3> QED
      BY <3>2
  <2>3. B \cap I = {}
    <3> SUFFICES ASSUME NEW b, b \in B, b \in I
                 PROVE  FALSE
      OBVIOUS
    <3>1. b \in Nat /\ pos <= b /\ b < to
      BY <1>3
    <3>2. PICK k \in DOMAIN segs : segs[k].start <= b /\ b < segs[k].end
      BY BytesHas DEF Has
    <3>3. CASE k = i
      BY <1>3, <3>1, <3>2, <3>3
    <3>4. CASE k < i
      BY <1>1, <1>3, <1>6, <3>1, <3>2, <3>4
    <3>5. CASE i < k
      BY <1>1, <1>5, <3>1, <3>2, <3>5
    <3> QED
      BY <1>1, <3>3, <3>4, <3>5
  <2>4. /\ IsFiniteSet(B) /\ SumBytes(segs) = Cardinality(B)
        /\ SumBytes(out) = Cardinality(Bytes(out))
    BY <1>2, <1>7, SumCounts
  <2>5. IsFiniteSet(I) /\ Cardinality(I) = to - pos
    <3>1. pos \in Int /\ to - 1 \in Int
      BY <1>3
    <3>2. /\ IsFiniteSet(I)
          /\ Cardinality(I) = IF pos > to - 1 THEN 0 ELSE (to - 1) - pos + 1
      BY <3>1, FS_Interval
    <3> HIDE DEF I
    <3> QED
      BY <1>3, <3>2, SMTT(30)
  <2> HIDE DEF I, B
  <2>6. Cardinality(B \cap I) = 0 /\ Cardinality(B) \in Nat
    BY <2>3, <2>4, FS_EmptySet, FS_CardinalityType
  <2>7. Cardinality(B \cup I) = Cardinality(B) + Cardinality(I) - Cardinality(B \cap I)
    BY <2>4, <2>5, FS_Union
  <2>8. SumBytes(out) = SumBytes(segs) + (to - pos) - 0
    BY <2>2, <2>4, <2>5, <2>6, <2>7, Zenon
  <2>9. SumBytes(segs) \in Nat
    BY <2>4, <2>6
  <2> QED
    BY <1>3, <2>8, <2>9
<1>14. MarksReach(out, segs, len)
  <2> SUFFICES ASSUME NEW k \in DOMAIN segs, out[k].mark # NoAnt
               PROVE  /\ segs[k].mark = out[k].mark
                      /\ segs[k].end <= out[k].end \/ (len # -1 /\ out[k].end = len)
    BY <1>2 DEF MarksReach
  <2> QED
    BY <1>1, <1>2, <1>3
<1>15. OneMark(segs) => OneMark(out)
  BY <1>2 DEF OneMark
<1> QED
  BY <1>2, <1>7, <1>8, <1>11, <1>12, <1>13, <1>14, <1>15

(* The segment reaches the next one, and is merged with it.                *)
LEMMA ExtendedInto ==
  ASSUME NEW segs \in Seq(Segments), Ordered(segs), NEW len \in Nat \cup {-1},
         Starts(segs, len), NEW i \in DOMAIN segs, NEW to \in Nat,
         NEW pos, pos = segs[i].end, pos <= to,
         NEW ext, Moved(segs, i, to, ext),
         NEW out, out = MergeIndex(ext)
  PROVE  /\ out \in Seq(Segments) /\ Len(out) <= Len(segs)
         /\ Ordered(out) /\ Starts(out, len)
         /\ Bytes(out) = Bytes(segs) \cup pos .. to - 1
         /\ MarksReach(out, segs, len)
         /\ OneMark(segs) => OneMark(out)
<1>1. /\ Len(segs) \in Nat /\ DOMAIN segs = 1 .. Len(segs)
      /\ \A k \in DOMAIN segs : /\ k \in Nat /\ segs[k].start \in Nat
                                /\ segs[k].end \in Nat
  BY SegTypes
<1>2. /\ ext \in Seq(Segments) /\ Len(ext) = Len(segs) /\ DOMAIN ext = DOMAIN segs
      /\ \A k \in DOMAIN segs :
           /\ ext[k].start = segs[k].start /\ ext[k].mark = segs[k].mark
           /\ ext[k].end = IF k = i THEN to ELSE segs[k].end
  BY Extended
<1>3. pos \in Nat /\ segs[i].start <= pos
  BY <1>1 DEF Ordered
<1>4. Sorted(ext)
  <2>1. Sorted(segs)
    BY OrderedSorted
  <2>2. \A k \in DOMAIN ext : ext[k].start <= ext[k].end
    BY <1>1, <1>2, <1>3 DEF Ordered
  <2> QED
    BY <1>2, <2>1, <2>2 DEF Sorted
<1>5. MergeKeeps(ext, out)
  BY <1>2, <1>4, Merged
<1>6. /\ out \in Seq(Segments) /\ Len(out) <= Len(segs) /\ Ordered(out)
      /\ Bytes(out) = Bytes(ext)
      /\ \A k \in DOMAIN out : From(out[k], ext, Len(segs))
  BY <1>2, <1>5 DEF MergeKeeps
<1>7. Starts(out, len)
  <2> SUFFICES ASSUME len # -1, NEW k \in DOMAIN out
               PROVE  out[k].start <= len
    BY DEF Starts
  <2>1. PICK j \in 1 .. Len(segs) : out[k].start = ext[j].start
    BY <1>6 DEF From
  <2> QED
    BY <1>1, <1>2, <2>1 DEF Starts
<1>8. Bytes(ext) = Bytes(segs) \cup pos .. to - 1
  <2>1. ASSUME NEW b \in Nat
        PROVE  Has(ext, b) <=> Has(segs, b) \/ b \in pos .. to - 1
    <3>1. ASSUME Has(ext, b)
          PROVE  Has(segs, b) \/ b \in pos .. to - 1
      <4>1. PICK k \in DOMAIN segs : ext[k].start <= b /\ b < ext[k].end
        BY <1>2, <3>1 DEF Has
      <4>2. CASE k = i
        <5>1. b < to /\ segs[i].start <= b
          BY <1>2, <4>1, <4>2
        <5>2. b < pos => Has(segs, b)
          BY <5>1 DEF Has
        <5> QED
          BY <1>3, <5>1, <5>2
      <4>3. CASE k # i
        <5>1. segs[k].start <= b /\ b < segs[k].end
          BY <1>2, <4>1, <4>3
        <5> QED
          BY <5>1 DEF Has
      <4> QED
        BY <4>2, <4>3
    <3>2. ASSUME Has(segs, b)
          PROVE  Has(ext, b)
      <4>1. PICK k \in DOMAIN segs : segs[k].start <= b /\ b < segs[k].end
        BY <3>2 DEF Has
      <4>2. ext[k].start <= b /\ b < ext[k].end
        BY <1>1, <1>2, <1>3, <4>1
      <4> QED
        BY <1>2, <4>2 DEF Has
    <3>3. ASSUME b \in pos .. to - 1
          PROVE  Has(ext, b)
      <4>1. ext[i].start <= b /\ b < ext[i].end
        BY <1>1, <1>2, <1>3, <3>3
      <4> QED
        BY <1>2, <4>1 DEF Has
    <3> QED
      BY <3>1, <3>2, <3>3
  <2>2. pos .. to - 1 \subseteq Nat
    BY <1>3
  <2>3. \A b : b \in Bytes(ext) <=> b \in Bytes(segs) \/ b \in pos .. to - 1
    BY <1>2, <2>1, <2>2, BytesHas
  <2> QED
    BY <2>3
<1>9. MarksReach(out, segs, len)
  <2> SUFFICES ASSUME NEW k \in DOMAIN out, out[k].mark # NoAnt
               PROVE  \E j \in DOMAIN segs :
                        segs[j].mark = out[k].mark /\ segs[j].end <= out[k].end
    BY DEF MarksReach
  <2>1. PICK j \in DOMAIN segs : out[k].mark = ext[j].mark /\ out[k].end = ext[j].end
    BY <1>1, <1>6 DEF From
  <2>2. segs[j].mark = out[k].mark /\ segs[j].end <= out[k].end
    BY <1>1, <1>2, <2>1
  <2> QED
    BY <2>2
<1>10. OneMark(segs) => OneMark(out)
  <2>1. OneMark(segs) => OneMark(ext)
    BY <1>2 DEF OneMark
  <2>2. MarksFrom(out, ext)
    BY <1>1, <1>2, <1>6 DEF MarksFrom, From
  <2> QED
    BY <1>2, <1>6, <2>1, <2>2, FromMarks
<1> QED
  BY <1>6, <1>7, <1>8, <1>9, <1>10

(* WriteData, wherever the piece lies.                                     *)
LEMMA PieceWritten ==
  ASSUME NEW segs \in Seq(Segments), Ordered(segs), NEW len \in Nat \cup {-1},
         Starts(segs, len), NEW pos \in Nat, NEW n \in Nat,
         NEW w, w = WriteData(segs, pos, n, len)
  PROVE  Written(segs, pos, pos + n, len, w)
<1> DEFINE found == {k \in DOMAIN segs : segs[k].end = pos}
           i == Min(found)
           to == pos + n
           over == len # -1 /\ to > len
           extended == [segs EXCEPT ![i].end = to]
<1>1. /\ Len(segs) \in Nat /\ DOMAIN segs = 1 .. Len(segs)
      /\ \A k \in DOMAIN segs : /\ k \in Nat /\ segs[k].start \in Nat
                                /\ segs[k].end \in Nat
  BY SegTypes
<1>2. CASE found = {}
  <2>1. w = [index |-> segs, ret |-> 0, combine |-> TRUE]
    BY <1>2 DEF WriteData
  <2>2. w.index = segs /\ w.ret = 0 /\ w.combine = TRUE
    BY <2>1
  <2>3. MarksReach(segs, segs, len)
    BY <1>1 DEF MarksReach
  <2>4. w.combine \in BOOLEAN /\ ~(w.combine = FALSE)
    BY <2>2, Zenon
  <2>5. Bytes(segs) \subseteq Bytes(segs) \cup pos .. pos + n - 1
    OBVIOUS
  <2> QED
    BY <1>1, <2>2, <2>3, <2>4, <2>5 DEF Written
<1>3. CASE found # {}
  <2>1. i \in found
    <3>1. found \subseteq Nat
      BY <1>1
    <3>2. \E x \in found : \A y \in found : x <= y
      BY <1>3, <3>1, Least
    <3> QED
      BY <3>2 DEF Min
  <2>2. w = IF i = Len(segs)
            THEN [index |-> IF over THEN [segs EXCEPT ![i].end = len] ELSE extended,
                  ret |-> IF len # -1 /\ to >= len THEN 0 ELSE 1,
                  combine |-> over]
            ELSE IF segs[i + 1].start <= to
            THEN [index |-> MergeIndex(extended),
                  ret |-> IF segs[i + 1].end > to THEN 0 ELSE 1,
                  combine |-> TRUE]
            ELSE [index |-> extended, ret |-> 1, combine |-> FALSE]
    BY <1>3 DEF WriteData
  <2>3. i \in DOMAIN segs /\ pos = segs[i].end
    BY <2>1
  <2> HIDE DEF i, found
  <2>4. to \in Nat /\ pos <= to
    OBVIOUS
  <2> HIDE DEF to
  <2>5. CASE i = Len(segs)
    <3> DEFINE e == IF over THEN len ELSE to
               out == [segs EXCEPT ![i].end = e]
    <3>a. w = [index |-> IF over THEN [segs EXCEPT ![i].end = len] ELSE extended,
               ret |-> IF len # -1 /\ to >= len THEN 0 ELSE 1,
               combine |-> over]
      BY <2>2, <2>5, Zenon
    <3>b. w.ret \in {0, 1} /\ w.combine = over
      BY <3>a
    <3>c. w.index = IF over THEN [segs EXCEPT ![i].end = len] ELSE extended
      BY <3>a
    <3>1. w.index = out /\ w.ret \in {0, 1} /\ w.combine = over
      BY <3>b, <3>c, Zenon
    <3>2. e \in Nat /\ (e = to \/ (i = Len(segs) /\ e = len /\ len < to /\ len # -1))
      BY <2>4, <2>5
    <3>3. over = FALSE => e = to
      OBVIOUS
    <3>4. w.combine \in BOOLEAN
      BY <3>1, Zenon
    <3>d. Moved(segs, i, e, out)
      BY DEF Moved
    <3> HIDE DEF e, over, out
    <3>5. /\ out \in Seq(Segments) /\ Len(out) = Len(segs)
          /\ Ordered(out) /\ Starts(out, len)
          /\ Bytes(out) \subseteq Bytes(segs) \cup pos .. to - 1
          /\ \A b \in Bytes(segs) : len = -1 \/ b < len => b \in Bytes(out)
          /\ e = to => SumBytes(out) = SumBytes(segs) + (to - pos)
          /\ MarksReach(out, segs, len)
          /\ OneMark(segs) => OneMark(out)
      BY <2>3, <2>4, <2>5, <3>2, <3>d, ExtendedRight
    <3>6. w.combine = FALSE => SumBytes(out) = SumBytes(segs) + (to - pos)
      BY <3>1, <3>3, <3>5, Zenon
    <3>7. Len(out) <= Len(segs)
      BY <1>1, <3>5
    <3>8. Written(segs, pos, to, len, w)
      BY <3>1, <3>4, <3>5, <3>6, <3>7, Zenon DEF Written
    <3> QED
      BY <3>8 DEF to
  <2>6. CASE i # Len(segs) /\ segs[i + 1].start <= to
    <3> DEFINE out == MergeIndex(extended)
    <3>1. w.index = out /\ w.ret \in {0, 1} /\ w.combine = TRUE
      BY <2>2, <2>6
    <3>2. w.combine \in BOOLEAN /\ ~(w.combine = FALSE)
      BY <3>1, Zenon
    <3>d. out = MergeIndex(extended) /\ Moved(segs, i, to, extended)
      BY DEF Moved
    <3> HIDE DEF out, extended
    <3>3. /\ out \in Seq(Segments) /\ Len(out) <= Len(segs)
          /\ Ordered(out) /\ Starts(out, len)
          /\ Bytes(out) = Bytes(segs) \cup pos .. to - 1
          /\ MarksReach(out, segs, len)
          /\ OneMark(segs) => OneMark(out)
      BY <2>3, <2>4, <3>d, ExtendedInto
    <3>4. Written(segs, pos, to, len, w)
      BY <3>1, <3>2, <3>3, Zenon DEF Written
    <3> QED
      BY <3>4 DEF to
  <2>7. CASE i # Len(segs) /\ ~(segs[i + 1].start <= to)
    <3> DEFINE out == extended
    <3>1. w.index = out /\ w.ret \in {0, 1} /\ w.combine = FALSE
      BY <2>2, <2>7
    <3>2. w.combine \in BOOLEAN
      BY <3>1, Zenon
    <3>a. i + 1 \in DOMAIN segs /\ to < segs[i + 1].start
      BY <1>1, <2>3, <2>4, <2>7
    <3>d. Moved(segs, i, to, out)
      BY DEF Moved
    <3> HIDE DEF out
    <3>3. /\ out \in Seq(Segments) /\ Len(out) = Len(segs)
          /\ Ordered(out) /\ Starts(out, len)
          /\ Bytes(out) \subseteq Bytes(segs) \cup pos .. to - 1
          /\ \A b \in Bytes(segs) : len = -1 \/ b < len => b \in Bytes(out)
          /\ SumBytes(out) = SumBytes(segs) + (to - pos)
          /\ MarksReach(out, segs, len)
          /\ OneMark(segs) => OneMark(out)
      BY <2>3, <2>4, <3>a, <3>d, ExtendedRight
    <3>4. Len(out) <= Len(segs)
      BY <1>1, <3>3
    <3>5. Written(segs, pos, to, len, w)
      BY <3>1, <3>2, <3>3, <3>4, Zenon DEF Written
    <3> QED
      BY <3>5 DEF to
  <2> QED
    BY <2>5, <2>6, <2>7
<1> QED
  BY <1>2, <1>3

(* A segment reaches a position, or the end of the file.                   *)
ReachesTo(s, pos, len) == pos <= s.end \/ (len # -1 /\ len <= s.end)

(* An ant that WriteData tells to go on is not ahead of its mark: whoever  *)
(* extends the segment that ends at its piece, the mark is not behind it.  *)
LEMMA PieceReaches ==
  ASSUME NEW segs \in Seq(Segments), Ordered(segs), NEW len \in Nat \cup {-1},
         Starts(segs, len), NEW pos \in Nat, NEW n \in Nat, NEW t \in Ants,
         \A j \in DOMAIN segs : segs[j].mark = t => ReachesTo(segs[j], pos, len),
         NEW w, w = WriteData(segs, pos, n, len), w.ret = 1
  PROVE  \A k \in DOMAIN w.index :
           w.index[k].mark = t => ReachesTo(w.index[k], pos + n, len)
<1> DEFINE found == {k \in DOMAIN segs : segs[k].end = pos}
           i == Min(found)
           to == pos + n
           over == len # -1 /\ to > len
           ext == [segs EXCEPT ![i].end = to]
           out == MergeIndex(ext)
<1>1. /\ Len(segs) \in Nat /\ DOMAIN segs = 1 .. Len(segs)
      /\ \A k \in DOMAIN segs : /\ k \in Nat /\ segs[k].start \in Nat
                                /\ segs[k].end \in Nat
  BY SegTypes
<1>2. found # {}
  <2> SUFFICES ASSUME found = {} PROVE FALSE
    OBVIOUS
  <2>1. w = [index |-> segs, ret |-> 0, combine |-> TRUE]
    BY DEF WriteData
  <2> QED
    BY <2>1
<1>3. i \in found
  <2>1. found \subseteq Nat
    BY <1>1
  <2>2. \E x \in found : \A y \in found : x <= y
    BY <1>2, <2>1, Least
  <2> QED
    BY <2>2 DEF Min
<1>4. w = IF i = Len(segs)
          THEN [index |-> IF over THEN [segs EXCEPT ![i].end = len] ELSE ext,
                ret |-> IF len # -1 /\ to >= len THEN 0 ELSE 1,
                combine |-> over]
          ELSE IF segs[i + 1].start <= to
          THEN [index |-> out,
                ret |-> IF segs[i + 1].end > to THEN 0 ELSE 1,
                combine |-> TRUE]
          ELSE [index |-> ext, ret |-> 1, combine |-> FALSE]
  BY <1>2 DEF WriteData
<1>5. i \in DOMAIN segs /\ i \in Nat /\ segs[i].end = pos /\ segs[i].start <= pos
  BY <1>1, <1>3 DEF Ordered
<1>6. to \in Nat /\ pos <= to /\ Moved(segs, i, to, ext) /\ out = MergeIndex(ext)
  BY DEF Moved
<1>7. ReachesTo(segs[i], pos, len)
  BY <1>5 DEF ReachesTo
<1> HIDE DEF found, i, ext, out
<1>8. /\ ext \in Seq(Segments) /\ Len(ext) = Len(segs) /\ DOMAIN ext = DOMAIN segs
      /\ \A k \in DOMAIN segs :
           /\ ext[k].start = segs[k].start /\ ext[k].mark = segs[k].mark
           /\ ext[k].end = IF k = i THEN to ELSE segs[k].end
  BY <1>5, <1>6, Extended
<1>9. \A j \in DOMAIN segs : segs[j].mark = t => i <= j
  <2> SUFFICES ASSUME NEW j \in DOMAIN segs, segs[j].mark = t, j < i
               PROVE  FALSE
    BY <1>1, <1>5
  <2>1. segs[j].end < segs[i].start
    BY <1>5 DEF Ordered
  <2>2. ReachesTo(segs[j], pos, len)
    OBVIOUS
  <2> QED
    BY <1>1, <1>5, <2>1, <2>2 DEF ReachesTo, Starts
<1>10. CASE i = Len(segs)
  <2>1. /\ w.index = IF over THEN [segs EXCEPT ![i].end = len] ELSE ext
        /\ w.ret = IF len # -1 /\ to >= len THEN 0 ELSE 1
    BY <1>4, <1>10
  <2>2. ~(len # -1 /\ to >= len)
    BY <2>1
  <2>3. ~over
    BY <1>6, <2>2
  <2>4. w.index = ext
    BY <2>1, <2>3, Zenon
  <2>5. \A k \in DOMAIN segs : segs[k].mark = t => k = i
    BY <1>1, <1>9, <1>10
  <2> QED
    BY <1>8, <2>4, <2>5 DEF ReachesTo
<1>11. CASE i # Len(segs) /\ ~(segs[i + 1].start <= to)
  <2>1. w.index = ext
    BY <1>4, <1>11
  <2>2. i + 1 \in DOMAIN segs /\ to < segs[i + 1].start
    BY <1>1, <1>5, <1>6, <1>11
  <2>3. ASSUME NEW k \in DOMAIN segs, segs[k].mark = t
        PROVE  to <= ext[k].end
    <3>1. CASE k = i
      BY <1>6, <1>8, <3>1
    <3>2. CASE i < k
      <4>a. Sorted(segs)
        BY OrderedSorted
      <4>b. i + 1 <= k
        BY <1>1, <1>5, <3>2
      <4>1. segs[i + 1].start <= segs[k].start
        BY <2>2, <4>a, <4>b DEF Sorted
      <4>2. segs[k].start <= segs[k].end
        BY DEF Ordered
      <4> QED
        BY <1>1, <1>6, <1>8, <2>2, <3>2, <4>1, <4>2
    <3> QED
      BY <1>1, <1>5, <1>9, <2>3, <3>1, <3>2
  <2> QED
    BY <1>8, <2>1, <2>3 DEF ReachesTo
<1>12. CASE i # Len(segs) /\ segs[i + 1].start <= to
  <2>1. w.index = out
    BY <1>4, <1>12
  <2>2. Sorted(ext)
    <3>1. Sorted(segs)
      BY OrderedSorted
    <3>2. ASSUME NEW k \in DOMAIN segs
          PROVE  ext[k].start <= ext[k].end
      <4>1. segs[k].start <= segs[k].end
        BY DEF Ordered
      <4>2. segs[i].start <= to
        BY <1>1, <1>5, <1>6
      <4> QED
        BY <1>8, <4>1, <4>2
    <3> QED
      BY <1>8, <3>1, <3>2 DEF Sorted
  <2>3. /\ out \in Seq(Segments) /\ Ordered(out) /\ Bytes(out) = Bytes(ext)
        /\ \A k \in DOMAIN out : From(out[k], ext, Len(segs))
    BY <1>6, <1>8, <2>2, Merged DEF MergeKeeps
  <2>4. ASSUME NEW k \in DOMAIN out, out[k].mark = t, out[k].end < to
        PROVE  FALSE
    <3>1. PICK j \in DOMAIN segs : ext[j].mark = t /\ ext[j].end = out[k].end
      BY <1>1, <2>3, <2>4 DEF From
    <3>2. /\ j \in Nat /\ out[k].start \in Nat /\ out[k].end \in Nat
          /\ out[k].start <= out[k].end
      BY <1>1, <2>3, SegTypes DEF Ordered
    <3>3. i < j
      BY <1>1, <1>5, <1>6, <1>8, <1>9, <2>4, <3>1, <3>2
    <3>4. segs[i].end < segs[j].start /\ segs[j].start <= segs[j].end
      BY <1>5, <3>3 DEF Ordered
    <3>5. segs[j].end = out[k].end
      BY <1>8, <3>1, <3>3, <3>2, <1>5
    <3>6. ext[i].start <= out[k].end /\ out[k].end < ext[i].end
      BY <1>1, <1>5, <1>8, <2>4, <3>4, <3>5
    <3>7. Has(ext, out[k].end)
      BY <1>5, <1>8, <3>6 DEF Has
    <3>8. Has(out, out[k].end)
      BY <1>8, <2>3, <3>2, <3>7, BytesHas
    <3>9. PICK m \in DOMAIN out : out[m].start <= out[k].end /\ out[k].end < out[m].end
      BY <3>8 DEF Has
    <3>10. m \in Nat /\ k \in Nat /\ out[m].start \in Nat /\ out[m].end \in Nat
      BY <2>3, SegTypes
    <3>11. k < m => out[k].end < out[m].start
      BY <2>3 DEF Ordered
    <3>12. m < k => out[m].end < out[k].start
      BY <2>3 DEF Ordered
    <3>13. m # k
      BY <3>2, <3>9
    <3> QED
      BY <3>2, <3>9, <3>10, <3>11, <3>12, <3>13
  <2>5. \A k \in DOMAIN out : out[k].end \in Nat
    BY <2>3, SegTypes
  <2> QED
    BY <1>6, <2>1, <2>4, <2>5 DEF ReachesTo
<1> QED
  BY <1>10, <1>11, <1>12
-----------------------------------------------------------------------------
(* An index of one segment holds the bytes up to its end.                  *)
LEMMA SingleBytes ==
  ASSUME NEW segs \in Seq(Segments), Single(segs)
  PROVE  Bytes(segs) = 0 .. Reach(segs) - 1
<1>1. CASE segs = << >>
  <2>1. \A b : ~Has(segs, b)
    BY <1>1 DEF Has
  <2>2. Bytes(segs) = {}
    BY <2>1, BytesHas
  <2>3. Reach(segs) = 0
    BY <1>1 DEF Reach
  <2> QED
    BY <2>2, <2>3
<1>2. CASE segs # << >>
  <2>1. /\ DOMAIN segs = {1} /\ segs[1].start = 0 /\ segs[1].end \in Nat
        /\ Reach(segs) = segs[1].end
    BY <1>2, SingleLen DEF Single, Reach
  <2>2. \A b : Has(segs, b) <=> 0 <= b /\ b < Reach(segs)
    BY <2>1 DEF Has
  <2>3. \A b : b \in Bytes(segs) <=> b \in 0 .. Reach(segs) - 1
    BY <2>1, <2>2, BytesHas
  <2> QED
    BY <2>3
<1> QED
  BY <1>1, <1>2

(* The only segment after a piece.                                         *)
Grown(segs, pos, n, len, w) ==
  Single(segs) =>
    IF segs # << >> /\ pos = Reach(segs)
    THEN /\ Single(w.index) /\ w.index # << >>
         /\ Reach(w.index) = IF len # -1 /\ pos + n > len THEN len ELSE pos + n
         /\ w.index[1].mark = segs[1].mark
    ELSE w.index = segs

(* A piece behind the only segment extends it up to a known end of the     *)
(* file; a piece anywhere else changes nothing.                            *)
LEMMA SingleWritten ==
  ASSUME NEW segs \in Seq(Segments), Single(segs), NEW len \in Nat \cup {-1},
         NEW pos \in Nat, NEW n \in Nat,
         NEW w, w = WriteData(segs, pos, n, len)
  PROVE  Grown(segs, pos, n, len, w)
<1> SUFFICES IF segs # << >> /\ pos = Reach(segs)
             THEN /\ Single(w.index) /\ w.index # << >>
                  /\ Reach(w.index) = IF len # -1 /\ pos + n > len THEN len ELSE pos + n
                  /\ w.index[1].mark = segs[1].mark
             ELSE w.index = segs
  BY DEF Grown
<1> DEFINE found == {k \in DOMAIN segs : segs[k].end = pos}
           to == pos + n
           over == len # -1 /\ to > len
           e == IF over THEN len ELSE to
<1>1. CASE segs # << >> /\ pos = Reach(segs)
  <2>1. /\ DOMAIN segs = {1} /\ segs[1].start = 0 /\ segs[1].end = pos
        /\ Len(segs) = 1 /\ segs[1] \in Segments
    BY <1>1, SingleLen DEF Single, Reach
  <2>2. found = {1}
    BY <2>1
  <2>3. Min({1}) = 1
    BY DEF Min
  <2>4. Min(found) = Len(segs) /\ found # {} /\ Min(found) = 1
    BY <2>1, <2>2, <2>3
  <2>5. w = [index |-> IF over THEN [segs EXCEPT ![Min(found)].end = len]
                        ELSE [segs EXCEPT ![Min(found)].end = to],
             ret |-> IF len # -1 /\ to >= len THEN 0 ELSE 1,
             combine |-> over]
    BY <2>4, Zenon DEF WriteData
  <2> HIDE DEF found
  <2>7. w.index = IF over THEN [segs EXCEPT ![1].end = len]
                  ELSE [segs EXCEPT ![1].end = to]
    BY <2>4, <2>5
  <2>8. Moved(segs, 1, e, w.index)
    BY <2>7 DEF Moved
  <2>9. e \in Nat
    OBVIOUS
  <2> HIDE DEF e, over, to
  <2>10. /\ w.index \in Seq(Segments) /\ Len(w.index) = Len(segs)
         /\ \A k \in DOMAIN segs :
              /\ w.index[k].start = segs[k].start /\ w.index[k].mark = segs[k].mark
              /\ w.index[k].end = IF k = 1 THEN e ELSE segs[k].end
    <3> DEFINE out == w.index
    <3>1. 1 \in DOMAIN segs /\ Moved(segs, 1, e, out)
      BY <2>1, <2>8
    <3> HIDE DEF out
    <3>2. /\ out \in Seq(Segments) /\ Len(out) = Len(segs)
          /\ \A k \in DOMAIN segs :
               /\ out[k].start = segs[k].start /\ out[k].mark = segs[k].mark
               /\ out[k].end = IF k = 1 THEN e ELSE segs[k].end
      BY <2>9, <3>1, Extended
    <3> QED
      BY <3>2 DEF out
  <2>11. /\ Len(w.index) = 1 /\ w.index[1].start = 0 /\ w.index[1].end = e
         /\ w.index[1].mark = segs[1].mark
    BY <2>1, <2>10
  <2>12. w.index # << >>
    <3>1. Len(<< >>) # 1
      OBVIOUS
    <3> QED
      BY <2>11, <3>1, Zenon
  <2>13. Single(w.index) /\ Reach(w.index) = e
    BY <2>11, <2>12 DEF Single, Reach
  <2> QED
    BY <1>1, <2>11, <2>12, <2>13 DEF e, over, to
<1>2. CASE ~(segs # << >> /\ pos = Reach(segs))
  <2>1. found = {}
    <3>1. CASE segs = << >>
      BY <3>1
    <3>2. CASE segs # << >>
      BY <1>2, <3>2, SingleLen DEF Reach
    <3> QED
      BY <3>1, <3>2
  <2>2. w = [index |-> segs, ret |-> 0, combine |-> TRUE]
    BY <2>1 DEF WriteData
  <2>3. w.index = segs
    BY <2>2
  <2> QED
    BY <1>2, <2>3, Zenon
<1> QED
  BY <1>1, <1>2
-----------------------------------------------------------------------------
(* The index is in use.                                                    *)
AtWork == phase \in {"up", "over"}

(* Memory, files and threads agree on the phase of the task.               *)
Asleep ==
  /\ \A t \in Ants : pc[t] # "off" => phase = "up"
  /\ saving # NoPiece => /\ phase = "up" /\ saving.ant \in Ants
                         /\ pc[saving.ant] = "run"
  /\ ~AtWork => index = << >> /\ origin = 0 /\ sumBytes = 0
  /\ phase \in {"truncated", "indexed"} => part = [NoFile EXCEPT !.exists = TRUE]
  /\ phase = "indexed" => saved.segs = << >>
  /\ fileLen = -1 \/ fileLen \in 0 .. FileLen + MaxOverrun

(* The index: in order and apart, within the file, a mark for one ant.     *)
Shape ==
  /\ Ordered(index) /\ Starts(index, fileLen)
  /\ OneMark(index) /\ FewSegments(index)

(* The index file: in order, and true.                                     *)
DiskSound == Ordered(saved.segs) /\ FewSegments(saved.segs) /\ RestartSound

(* The part file may be longer than the task believes.                     *)
Ahead == fileLen = -1 \/ fileLen < part.size

(* While the file may be too long, nothing but one segment grows from its  *)
(* first byte, and what is on disk behind it was written.                  *)
Growing ==
  AtWork /\ Ahead =>
    /\ 0 .. part.size - 1 \subseteq part.data
    /\ Single(index)
    /\ part.size <= Reach(index) + RECVBUF
    /\ fileLen # -1 => Reach(index) <= fileLen

(* Where the length is not known, an ant at work extends the only segment. *)
Tip(t) == IF saving.ant = t THEN saving.to ELSE offset[t]
Solo ==
  fileLen = -1 =>
    \A t \in Ants : pc[t] = "run" =>
      index # << >> /\ index[1].mark = t /\ index[1].end = Tip(t)

(* What a restart would resume from is in the index.                       *)
SavedHeld ==
  AtWork => \A b \in Bytes(ReadIndex(saved.segs, FileLen)) :
              fileLen = -1 \/ b < fileLen => b \in Held

(* The count of the task is the sum of the index, but for the piece that   *)
(* is being stored.                                                        *)
Counting ==
  phase = "up" =>
    IF saving = NoPiece THEN origin + sumBytes = SumBytes(index)
    ELSE \/ saving.combine = TRUE
         \/ origin + sumBytes + (saving.to - offset[saving.ant]) = SumBytes(index)

(* A mark belongs to an ant that is alive.                                 *)
Alive == \A i \in DOMAIN index : index[i].mark # NoAnt => pc[index[i].mark] # "off"

(* The inductive invariant.                                                *)
IInv ==
  /\ TypeOK /\ Asleep /\ Shape /\ DiskSound /\ Growing /\ Solo
  /\ IndexSound /\ SavedHeld /\ Counting /\ DeliveredComplete /\ Alive

(* The empty index is right.                                               *)
LEMMA EmptyIndex ==
  /\ << >> \in Seq(Segments) /\ DOMAIN << >> = {} /\ Len(<< >>) = 0
  /\ Bytes(<< >>) = {} /\ Ordered(<< >>) /\ OneMark(<< >>) /\ FewSegments(<< >>)
  /\ SumBytes(<< >>) = 0 /\ Single(<< >>) /\ Reach(<< >>) = 0
  /\ \A len : Starts(<< >>, len)
<1>1. << >> \in Seq(Segments) /\ DOMAIN << >> = {} /\ Len(<< >>) = 0
  OBVIOUS
<1>2. \A b : ~Has(<< >>, b)
  BY <1>1 DEF Has
<1>3. Bytes(<< >>) = {}
  BY <1>1, <1>2, BytesHas
<1>4. Ordered(<< >>) /\ OneMark(<< >>) /\ \A len : Starts(<< >>, len)
  BY <1>1 DEF Ordered, OneMark, Starts
<1>5. SumBytes(<< >>) = 0
  BY <1>1, <1>3, <1>4, SumCounts, FS_EmptySet
<1>6. FewSegments(<< >>)
  <2>1. Cardinality(Ants) \in Nat
    BY FileManagerAssumption, FS_CardinalityType
  <2> QED
    BY <1>1, <2>1 DEF FewSegments
<1> QED
  BY <1>1, <1>3, <1>4, <1>5, <1>6 DEF Single, Reach

(* The invariant holds before the first task.                              *)
LEMMA InitIInv == Init => IInv
<1> SUFFICES ASSUME Init PROVE IInv
  OBVIOUS
<1>1. TypeOK
  BY EmptyIndex, FileManagerAssumption DEF Init, TypeOK, NoFile, NoIndex, Nothing, NoPiece
<1>2. Asleep
  BY DEF Init, Asleep, AtWork
<1>3. Shape /\ OneMark(index)
  BY EmptyIndex DEF Init, Shape
<1>4. DiskSound
  BY EmptyIndex DEF Init, DiskSound, NoIndex, RestartSound, Recoverable, CanResume, NoFile
<1>5. Growing /\ SavedHeld /\ Counting
  BY DEF Init, Growing, SavedHeld, AtWork, Counting
<1>6. Solo /\ Alive
  BY EmptyIndex DEF Init, Solo, Alive
<1>7. IndexSound
  BY EmptyIndex DEF Init, IndexSound, Held
<1>8. DeliveredComplete
  BY DEF Init, DeliveredComplete, Nothing
<1> QED
  BY <1>1, <1>2, <1>3, <1>4, <1>5, <1>6, <1>7, <1>8 DEF IInv
-----------------------------------------------------------------------------
(* What ReadIndex takes over from the index on disk.                       *)
LEMMA ReadSaved ==
  ASSUME TypeOK, DiskSound, NEW segs, segs = ReadIndex(saved.segs, FileLen)
  PROVE  /\ segs \in Seq(Segments) /\ Ordered(segs) /\ OneMark(segs)
         /\ FewSegments(segs) /\ Starts(segs, FileLen)
         /\ Bytes(segs) \subseteq Bytes(saved.segs)
         /\ \A b \in Bytes(segs) : b \in Nat /\ b < FileLen
         /\ \A k \in DOMAIN segs : segs[k].mark = NoAnt
<1>1. saved.segs \in Seq(Segments) /\ Ordered(saved.segs) /\ FewSegments(saved.segs)
  BY DEF TypeOK, DiskSound
<1>2. FileLen \in Nat /\ FileLen \in Nat \cup {-1} /\ Cardinality(Ants) \in Nat
  BY FileManagerAssumption, FS_CardinalityType
<1>3. /\ segs \in Seq(Segments) /\ Len(segs) <= Len(saved.segs)
      /\ Bytes(segs) \subseteq Bytes(saved.segs)
      /\ \A k \in DOMAIN segs :
           /\ segs[k].mark = NoAnt /\ segs[k].start < segs[k].end
           /\ segs[k].end <= FileLen
      /\ Ordered(segs)
  BY <1>1, <1>2, ReadKeeps
<1>4. /\ Len(segs) \in Nat /\ Len(saved.segs) \in Nat
      /\ \A k \in DOMAIN segs : segs[k].start \in Nat /\ segs[k].end \in Nat
  BY <1>1, <1>3, SegTypes
<1>5. OneMark(segs)
  BY <1>3 DEF OneMark
<1>6. FewSegments(segs)
  BY <1>1, <1>2, <1>3, <1>4 DEF FewSegments
<1>7. Starts(segs, FileLen)
  BY <1>2, <1>3, <1>4 DEF Starts
<1>8. \A b \in Bytes(segs) : b \in Nat /\ b < FileLen
  BY <1>2, <1>3, <1>4, BytesHas DEF Has
<1> QED
  BY <1>3, <1>5, <1>6, <1>7, <1>8

(* Where the ants start.                                                   *)
LEMMA Started ==
  ASSUME TypeOK, Asleep, phase # "up", NEW len, StartAnts(len)
  PROVE  /\ phase' = "up" /\ pc' \in [Ants -> {"off", "new"}]
         /\ saving = NoPiece
BY DEF TypeOK, Asleep, StartAnts

(* Open, when the files of an earlier run are resumed.                     *)
LEMMA ResumeKeeps ==
  ASSUME IInv, NEW len \in {-1, FileLen}, Open(len), CanResume(len)
  PROVE  IInv'
<1> USE DEF IInv
<1>0. len = FileLen /\ FileLen \in Nat /\ FileLen # -1 /\ MaxOverrun \in Nat
  BY FileManagerAssumption DEF CanResume
<1>1. /\ phase = "down" /\ starts < MaxStarts /\ starts' = starts + 1
      /\ fileLen' = FileLen
      /\ UNCHANGED <<sumBytes, offset, retry, saving, saved, delivered, clicks>>
  BY <1>0 DEF Open
<1>2. /\ index' = ReadIndex(saved.segs, FileLen) /\ origin' = SumBytes(index')
      /\ StartAnts(len) /\ UNCHANGED part
  BY <1>0 DEF Open
<1>3. /\ phase' = "up" /\ pc' \in [Ants -> {"off", "new"}] /\ saving = NoPiece
  BY <1>1, <1>2, Started
<1>4. /\ index' \in Seq(Segments) /\ Ordered(index') /\ OneMark(index')
      /\ FewSegments(index') /\ Starts(index', FileLen)
      /\ Bytes(index') \subseteq Bytes(saved.segs)
      /\ \A b \in Bytes(index') : b \in Nat /\ b < FileLen
      /\ \A k \in DOMAIN index' : index'[k].mark = NoAnt
  BY <1>2, ReadSaved
<1>5. sumBytes = 0
  BY <1>1 DEF Asleep, AtWork
<1>6. SumBytes(index') \in Nat
  BY <1>4, SumCounts, FS_CardinalityType
<1>7. TypeOK'
  BY <1>0, <1>1, <1>2, <1>3, <1>4, <1>6, FileManagerAssumption DEF TypeOK
<1>8. Asleep'
  BY <1>0, <1>1, <1>3 DEF Asleep, AtWork
<1>9. Shape' /\ DiskSound'
  BY <1>1, <1>2, <1>4 DEF Shape, DiskSound, RestartSound, Recoverable, CanResume
<1>10. Growing'
  BY <1>0, <1>1, <1>2 DEF Growing, Ahead, CanResume
<1>11. Solo' /\ DeliveredComplete'
  BY <1>0, <1>1 DEF Solo, DeliveredComplete
<1>12. IndexSound'
  <2>1. Recoverable = Bytes(index')
    BY <1>0, <1>2 DEF Recoverable
  <2> QED
    BY <1>2, <2>1 DEF IndexSound, Held, DiskSound, RestartSound
<1>13. SavedHeld'
  BY <1>1, <1>2 DEF SavedHeld, Held
<1>14. Counting'
  BY <1>1, <1>2, <1>3, <1>5, <1>6 DEF Counting
<1>15. Alive'
  BY <1>4 DEF Alive
<1> QED
  BY <1>7, <1>8, <1>9, <1>10, <1>11, <1>12, <1>13, <1>14, <1>15

(* Open, when the part file is truncated.                                  *)
LEMMA TruncateKeeps ==
  ASSUME IInv, NEW len \in {-1, FileLen}, Open(len), ~CanResume(len)
  PROVE  IInv'
<1> USE DEF IInv
<1>1. /\ phase = "down" /\ starts < MaxStarts /\ starts' = starts + 1
      /\ fileLen' = len
      /\ UNCHANGED <<sumBytes, offset, retry, saving, saved, delivered, clicks>>
      /\ part' = [NoFile EXCEPT !.exists = TRUE]
      /\ phase' = "truncated"
      /\ UNCHANGED <<index, origin, pc>>
  BY DEF Open
<1>2. index = << >> /\ origin = 0 /\ sumBytes = 0 /\ saving = NoPiece
      /\ \A t \in Ants : pc[t] = "off"
  BY <1>1 DEF Asleep, AtWork
<1>3. part' = [exists |-> TRUE, size |-> 0, data |-> {}]
  BY <1>1 DEF NoFile
<1>4. FileLen \in Nat /\ MaxOverrun \in Nat /\ MaxStarts \in Nat
  BY FileManagerAssumption
<1>5. TypeOK'
  <2>1. part' \in [exists : BOOLEAN, size : Nat, data : SUBSET Nat]
    BY <1>3
  <2>2. starts' \in 0 .. MaxStarts
    <3>1. starts \in 0 .. MaxStarts
      BY DEF TypeOK
    <3> QED
      BY <1>1, <1>4, <3>1
  <2>3. fileLen' \in Nat \cup {-1}
    BY <1>1, <1>4
  <2> QED
    BY <1>1, <2>1, <2>2, <2>3 DEF TypeOK
<1>6. Asleep'
  BY <1>1, <1>2, <1>4 DEF Asleep, AtWork
<1>7. Shape'
  BY <1>1, <1>2, EmptyIndex DEF Shape
<1>8. DiskSound'
  <2>1. RestartSound'
    <3>1. CASE FileLen = 0
      <4>1. Bytes(ReadIndex(saved.segs, FileLen)) = {}
        BY <3>1, ReadSaved
      <4> QED
        BY <1>1, <4>1 DEF RestartSound, Recoverable
    <3>2. CASE FileLen # 0
      BY <1>3, <3>2 DEF RestartSound, Recoverable, CanResume
    <3> QED
      BY <3>1, <3>2
  <2> QED
    BY <1>1, <2>1 DEF DiskSound
<1>9. Growing' /\ SavedHeld' /\ Counting'
  BY <1>1 DEF Growing, SavedHeld, Counting, AtWork
<1>10. Solo' /\ Alive'
  BY <1>1, <1>2, EmptyIndex DEF Solo, Alive
<1>11. IndexSound'
  BY <1>1, <1>2, EmptyIndex DEF IndexSound, Held
<1>12. DeliveredComplete'
  BY <1>1 DEF DeliveredComplete
<1> QED
  BY <1>5, <1>6, <1>7, <1>8, <1>9, <1>10, <1>11, <1>12

(* The empty index is written.                                             *)
LEMMA CreateKeeps ==
  ASSUME IInv, CreateIndex
  PROVE  IInv'
<1> USE DEF IInv
<1>1. /\ phase = "truncated" /\ phase' = "indexed"
      /\ saved' = [exists |-> TRUE, segs |-> index]
      /\ UNCHANGED <<fileLen, index, origin, sumBytes, pc, offset, retry, saving,
                     part, delivered, starts, clicks>>
  BY DEF CreateIndex, memory, threads, bounds
<1>2. index = << >> /\ saving = NoPiece
      /\ part = [NoFile EXCEPT !.exists = TRUE]
      /\ \A t \in Ants : pc[t] = "off"
  BY <1>1 DEF Asleep, AtWork
<1>3. saved'.segs = << >> /\ saved'.exists = TRUE
  BY <1>1, <1>2
<1>4. TypeOK'
  BY <1>1, <1>3, EmptyIndex DEF TypeOK
<1>5. Asleep'
  BY <1>1, <1>2, <1>3 DEF Asleep, AtWork
<1>6. Shape' /\ DeliveredComplete'
  BY <1>1 DEF Shape, DeliveredComplete
<1>7. DiskSound'
  <2>1. Bytes(ReadIndex(<< >>, FileLen)) = {}
    <3>1. FileLen \in Nat \cup {-1}
      BY FileManagerAssumption
    <3>2. Bytes(ReadIndex(<< >>, FileLen)) \subseteq Bytes(<< >>)
      BY <3>1, EmptyIndex, ReadKeeps
    <3> QED
      BY <3>2, EmptyIndex
  <2>2. RestartSound'
    BY <1>3, <2>1 DEF RestartSound, Recoverable
  <2> QED
    BY <1>3, <2>2, EmptyIndex DEF DiskSound
<1>8. Growing' /\ SavedHeld' /\ Counting'
  BY <1>1 DEF Growing, SavedHeld, Counting, AtWork
<1>9. Solo' /\ Alive'
  BY <1>1 DEF Solo, Alive, Tip
<1>10. IndexSound'
  BY <1>1 DEF IndexSound, Held
<1> QED
  BY <1>4, <1>5, <1>6, <1>7, <1>8, <1>9, <1>10

(* The part file gets its length.                                          *)
LEMMA AllocateKeeps ==
  ASSUME IInv, Allocate
  PROVE  IInv'
<1> USE DEF IInv
<1>1. /\ phase = "indexed"
      /\ part' = IF fileLen = -1 THEN part ELSE [part EXCEPT !.size = fileLen]
      /\ StartAnts(fileLen)
      /\ UNCHANGED <<fileLen, index, origin, sumBytes, offset, retry, saving,
                     saved, delivered, starts, clicks>>
  BY DEF Allocate, memory, bounds
<1>2. /\ phase' = "up" /\ pc' \in [Ants -> {"off", "new"}] /\ saving = NoPiece
  BY <1>1, Started
<1>3. /\ index = << >> /\ origin = 0 /\ sumBytes = 0 /\ saved.segs = << >>
      /\ part = [exists |-> TRUE, size |-> 0, data |-> {}]
  BY <1>1 DEF Asleep, AtWork, NoFile
<1>4. part' = [exists |-> TRUE, size |-> IF fileLen = -1 THEN 0 ELSE fileLen, data |-> {}]
  BY <1>1, <1>3
<1>5. fileLen \in Nat \cup {-1} /\ RECVBUF \in Nat
  BY FileManagerAssumption DEF TypeOK
<1>6. TypeOK'
  BY <1>1, <1>2, <1>4, <1>5 DEF TypeOK
<1>7. Asleep'
  BY <1>1, <1>2 DEF Asleep, AtWork
<1>8. Shape' /\ DeliveredComplete'
  BY <1>1 DEF Shape, DeliveredComplete
<1>9. Bytes(ReadIndex(<< >>, FileLen)) = {}
  <2>1. FileLen \in Nat \cup {-1}
    BY FileManagerAssumption
  <2>2. Bytes(ReadIndex(<< >>, FileLen)) \subseteq Bytes(<< >>)
    BY <2>1, EmptyIndex, ReadKeeps
  <2> QED
    BY <2>2, EmptyIndex
<1>10. DiskSound'
  BY <1>1, <1>3, <1>9 DEF DiskSound, RestartSound, Recoverable
<1>11. Growing'
  <2>1. part'.size = 0 \/ ~Ahead'
    BY <1>1, <1>4, <1>5 DEF Ahead
  <2>2. part'.size = 0 => 0 .. part'.size - 1 = {}
    OBVIOUS
  <2> QED
    BY <1>1, <1>3, <1>4, <1>5, <2>1, <2>2, EmptyIndex DEF Growing
<1>12. SavedHeld'
  BY <1>1, <1>3, <1>9 DEF SavedHeld
<1>13. Counting'
  BY <1>1, <1>2, <1>3, EmptyIndex DEF Counting
<1>14. Solo' /\ Alive'
  BY <1>1, <1>2, <1>3, EmptyIndex DEF Solo, Alive
<1>15. IndexSound'
  BY <1>1, <1>3, EmptyIndex DEF IndexSound, Held
<1> QED
  BY <1>6, <1>7, <1>8, <1>10, <1>11, <1>12, <1>13, <1>14, <1>15
-----------------------------------------------------------------------------
(* The ants at work, with the mutex free.                                  *)
LEMMA FreeFacts ==
  ASSUME IInv, Unlocked
  PROVE  /\ phase = "up" /\ saving = NoPiece /\ AtWork
         /\ \A t \in Ants : Tip(t) = offset[t]
         /\ index \in Seq(Segments) /\ Ordered(index) /\ OneMark(index)
         /\ FewSegments(index) /\ Starts(index, fileLen)
         /\ fileLen \in Nat \cup {-1} /\ RECVBUF \in Nat
         /\ fileLen = -1 => Single(index) /\ Len(index) <= 1
         /\ Ahead => /\ Single(index) /\ Reach(index) \in Nat
                     /\ fileLen = -1 \/ fileLen - Reach(index) < RECVBUF
<1>1. phase = "up" /\ saving = NoPiece /\ AtWork
  BY DEF Unlocked, AtWork
<1>2. \A t \in Ants : Tip(t) = offset[t]
  BY <1>1, FileManagerAssumption DEF Tip, NoPiece
<1>3. /\ index \in Seq(Segments) /\ Ordered(index) /\ OneMark(index)
      /\ FewSegments(index) /\ Starts(index, fileLen)
      /\ fileLen \in Nat \cup {-1} /\ part.size \in Nat
  BY DEF IInv, TypeOK, Shape
<1>4. Ahead => Single(index) /\ part.size <= Reach(index) + RECVBUF
  BY <1>1 DEF IInv, Growing
<1>5. Single(index) => Len(index) <= 1 /\ Reach(index) \in Nat
  BY <1>3, SingleLen
<1>6. RECVBUF \in Nat
  BY FileManagerAssumption
<1>7. Ahead => fileLen = -1 \/ fileLen - Reach(index) < RECVBUF
  BY <1>3, <1>4, <1>5, <1>6 DEF Ahead
<1>8. fileLen = -1 => Ahead
  BY DEF Ahead
<1> QED
  BY <1>1, <1>2, <1>3, <1>4, <1>5, <1>6, <1>7, <1>8

(* A step that only rearranges the segments.                               *)
LEMMA SameBytes ==
  ASSUME IInv, Unlocked,
         index' \in Seq(Segments), Ordered(index'), Bytes(index') = Bytes(index),
         UNCHANGED <<phase, fileLen, origin, sumBytes, saving, part, saved, delivered>>
  PROVE  /\ IndexSound' /\ SavedHeld' /\ Counting' /\ DiskSound'
         /\ DeliveredComplete'
<1>1. SumBytes(index') = SumBytes(index)
  BY FreeFacts, SumCounts
<1>2. Held' = Held
  BY DEF Held
<1>3. IndexSound' /\ SavedHeld'
  BY <1>2 DEF IInv, IndexSound, SavedHeld, AtWork
<1>4. Counting'
  BY <1>1, FreeFacts DEF IInv, Counting
<1>5. DiskSound' /\ DeliveredComplete'
  BY DEF IInv, DiskSound, RestartSound, Recoverable, CanResume, DeliveredComplete
<1> QED
  BY <1>3, <1>4, <1>5

(* An ant asks for a position.                                             *)
LEMMA GetTaskKeeps ==
  ASSUME IInv, NEW t \in Ants, AntGetTask(t)
  PROVE  IInv'
<1> DEFINE task == GetTask(index, t, fileLen)
<1>1. /\ Unlocked /\ pc[t] = "new"
      /\ index' = task.index
      /\ pc' = [pc EXCEPT ![t] = IF task.ok THEN "run" ELSE "quit"]
      /\ offset' = [offset EXCEPT ![t] = IF task.ok THEN task.pos ELSE 0]
      /\ UNCHANGED <<phase, fileLen, origin, sumBytes, retry, saving, part, saved,
                     delivered, starts, clicks>>
  BY DEF AntGetTask, disk, bounds
<1>2. Given(index, t, fileLen, task)
  BY <1>1, FreeFacts, TaskGiven
<1>a. task = GetTask(index, t, fileLen)
  OBVIOUS
<1> HIDE DEF task
<1>3. Ahead => SoloGiven(index, t, task)
  <2> SUFFICES ASSUME Ahead PROVE SoloGiven(index, t, task)
    OBVIOUS
  <2>1. /\ index \in Seq(Segments) /\ Single(index) /\ Ordered(index)
        /\ fileLen \in Nat \cup {-1}
        /\ fileLen = -1 \/ fileLen - Reach(index) < RECVBUF
    BY <1>1, FreeFacts
  <2> QED
    BY <1>a, <2>1, SingleGiven
<1>4. /\ task.ok \in BOOLEAN /\ task.pos \in Nat
      /\ index' \in Seq(Segments) /\ Ordered(index') /\ Bytes(index') = Bytes(index)
      /\ Starts(index', fileLen) /\ OneMark(index')
      /\ FewSegments(index) => FewSegments(index')
      /\ \A k \in DOMAIN index' :
           \/ index'[k].mark = NoAnt
           \/ task.ok = TRUE /\ index'[k].mark = t /\ index'[k].end = task.pos
           \/ \E j \in DOMAIN index :
                index[j].mark = index'[k].mark /\ index[j].end = index'[k].end
  BY <1>1, <1>2 DEF Given
<1>5. /\ pc \in [Ants -> {"off", "new", "run", "quit"}]
      /\ pc' \in [Ants -> {"off", "new", "run", "quit"}]
      /\ \A u \in Ants : u # t => pc'[u] = pc[u] /\ offset'[u] = offset[u]
      /\ offset' \in [Ants -> Nat]
  BY <1>1, <1>4 DEF IInv, TypeOK
<1>6. \/ task.ok = TRUE /\ pc'[t] = "run" /\ offset'[t] = task.pos
      \/ task.ok = FALSE /\ pc'[t] = "quit"
  <2>1. task.ok = TRUE \/ task.ok = FALSE
    BY <1>4, Zenon
  <2>2. /\ pc'[t] = IF task.ok THEN "run" ELSE "quit"
        /\ offset'[t] = IF task.ok THEN task.pos ELSE 0
    BY <1>1 DEF IInv, TypeOK
  <2>3. task.ok = TRUE => pc'[t] = "run" /\ offset'[t] = task.pos
    BY <2>2, Zenon
  <2>4. task.ok = FALSE => pc'[t] = "quit"
    BY <2>2, Zenon
  <2> QED
    BY <2>1, <2>3, <2>4, Zenon
<1>7. TypeOK'
  BY <1>1, <1>4, <1>5 DEF IInv, TypeOK
<1>8. Asleep'
  BY <1>1, <1>5, FreeFacts DEF IInv, Asleep, AtWork
<1>9. Shape'
  BY <1>1, <1>4 DEF IInv, Shape
<1>10. Growing'
  BY <1>1, <1>3 DEF IInv, Growing, Ahead, AtWork, SoloGiven
<1>11. Solo'
  <2> SUFFICES ASSUME fileLen = -1, NEW u \in Ants, pc'[u] = "run"
               PROVE  index' # << >> /\ index'[1].mark = u /\ index'[1].end = Tip(u)'
    BY <1>1 DEF Solo
  <2>1. Ahead
    BY DEF Ahead
  <2>2. Tip(u)' = offset'[u]
    BY <1>1, FreeFacts, FileManagerAssumption DEF Tip, NoPiece
  <2>3. CASE u = t
    <3>1. task.ok = TRUE
      BY <1>6, <2>3, Zenon
    <3>2. index' # << >> /\ index'[1].mark = t /\ Reach(index') = task.pos
      BY <1>1, <1>3, <2>1, <3>1 DEF SoloGiven
    <3> QED
      BY <1>6, <2>2, <2>3, <3>1, <3>2 DEF Reach
  <2>4. CASE u # t
    <3>1. index # << >> /\ index[1].mark = u /\ index[1].end = offset[u]
      BY <1>1, <1>5, <2>4, FreeFacts DEF IInv, Solo
    <3>2. index' = index
      BY <1>1, <1>3, <2>1, <2>4, <3>1, FileManagerAssumption DEF SoloGiven
    <3> QED
      BY <1>5, <2>2, <2>4, <3>1, <3>2
  <2> QED
    BY <2>3, <2>4
<1>12. Alive'
  <2> SUFFICES ASSUME NEW k \in DOMAIN index', index'[k].mark # NoAnt
               PROVE  pc'[index'[k].mark] # "off"
    BY DEF Alive
  <2>1. pc'[t] # "off"
    BY <1>4, <1>6
  <2>2. CASE index'[k].mark = t
    BY <2>1, <2>2
  <2>3. CASE index'[k].mark # t
    <3>1. PICK j \in DOMAIN index : index[j].mark = index'[k].mark
      BY <1>4, <2>3
    <3>2. pc[index[j].mark] # "off" /\ index[j].mark \in Ants
      BY <3>1, FreeFacts, <1>1, SegTypes DEF IInv, Alive
    <3> QED
      BY <1>5, <2>3, <3>1, <3>2
  <2> QED
    BY <2>2, <2>3
<1>13. IndexSound' /\ SavedHeld' /\ Counting' /\ DiskSound' /\ DeliveredComplete'
  BY <1>1, <1>4, SameBytes
<1> QED
  BY <1>7, <1>8, <1>9, <1>10, <1>11, <1>12, <1>13 DEF IInv

(* An ant leaves and releases its segment.                                 *)
LEMMA ReleaseKeeps ==
  ASSUME IInv, NEW t \in Ants, Unlocked, index' = ReleaseIndex(t),
         pc' = [pc EXCEPT ![t] = "off"],
         offset' \in [Ants -> Nat], \A u \in Ants : u # t => offset'[u] = offset[u],
         clicks' \in 0 .. MaxClicks,
         UNCHANGED <<phase, fileLen, origin, sumBytes, retry, saving, part, saved,
                     delivered, starts>>
  PROVE  IInv'
<1>1. /\ Rearranged(index, ReleaseIndex(t))
      /\ ReleaseIndex(t) = Tidy(index, t)
      /\ \A i \in DOMAIN Tidy(index, t) : Tidy(index, t)[i].mark # t
  BY FreeFacts, TidyKeeps DEF ReleaseIndex
<1>2. /\ index' \in Seq(Segments) /\ Ordered(index') /\ Bytes(index') = Bytes(index)
      /\ Len(index') <= Len(index)
      /\ \A k \in DOMAIN index' : \E j \in DOMAIN index : index'[k].start = index[j].start
      /\ MarksFrom(index', index) /\ OneMark(index')
      /\ \A k \in DOMAIN index' : index'[k].mark # t
  BY <1>1, FreeFacts DEF Rearranged
<1>3. Single(index) =>
        /\ Single(index') /\ Reach(index') = Reach(index)
        /\ index # << >> /\ index[1].mark \notin {t, NoAnt} => index' = index
  BY FreeFacts, SingleReleased DEF ReleaseIndex
<1>4. /\ pc \in [Ants -> {"off", "new", "run", "quit"}]
      /\ pc' \in [Ants -> {"off", "new", "run", "quit"}]
      /\ pc'[t] = "off" /\ \A u \in Ants : u # t => pc'[u] = pc[u]
  BY DEF IInv, TypeOK
<1>5. TypeOK'
  BY <1>2, <1>4 DEF IInv, TypeOK
<1>6. Asleep'
  BY <1>4, FreeFacts DEF IInv, Asleep, AtWork
<1>7. Shape'
  <2>1. Starts(index', fileLen')
    BY <1>2, FreeFacts DEF Starts
  <2>2. FewSegments(index')
    <3>1. Len(index) \in Nat /\ Len(index') \in Nat /\ Cardinality(Ants) \in Nat
      BY <1>2, FreeFacts, FileManagerAssumption, FS_CardinalityType
    <3> QED
      BY <1>2, <3>1, FreeFacts DEF FewSegments
  <2> QED
    BY <1>2, <2>1, <2>2 DEF Shape
<1>8. Growing'
  BY <1>3 DEF IInv, Growing, Ahead, AtWork
<1>9. Solo'
  <2> SUFFICES ASSUME fileLen = -1, NEW u \in Ants, pc'[u] = "run"
               PROVE  index' # << >> /\ index'[1].mark = u /\ index'[1].end = Tip(u)'
    BY DEF Solo
  <2>1. u # t /\ pc[u] = "run"
    BY <1>4
  <2>2. index # << >> /\ index[1].mark = u /\ index[1].end = offset[u]
    BY <2>1, FreeFacts DEF IInv, Solo
  <2>3. index' = index
    BY <1>3, <2>1, <2>2, FreeFacts, FileManagerAssumption
  <2>4. Tip(u)' = offset[u]
    BY <2>1, FreeFacts, FileManagerAssumption DEF Tip, NoPiece
  <2> QED
    BY <2>2, <2>3, <2>4
<1>10. Alive'
  <2> SUFFICES ASSUME NEW k \in DOMAIN index', index'[k].mark # NoAnt
               PROVE  pc'[index'[k].mark] # "off"
    BY DEF Alive
  <2>1. PICK j \in DOMAIN index : index[j].mark = index'[k].mark
    BY <1>2 DEF MarksFrom
  <2>2. pc[index[j].mark] # "off" /\ index[j].mark \in Ants
    BY <2>1, FreeFacts, SegTypes DEF IInv, Alive
  <2> QED
    BY <1>2, <1>4, <2>1, <2>2
<1>11. IndexSound' /\ SavedHeld' /\ Counting' /\ DiskSound' /\ DeliveredComplete'
  BY <1>2, SameBytes
<1> QED
  BY <1>5, <1>6, <1>7, <1>8, <1>9, <1>10, <1>11 DEF IInv

(* An ant quits.                                                           *)
LEMMA QuitsKeeps ==
  ASSUME IInv, NEW t \in Ants, AntQuits(t)
  PROVE  IInv'
<1>1. /\ Unlocked /\ index' = ReleaseIndex(t) /\ pc' = [pc EXCEPT ![t] = "off"]
      /\ UNCHANGED <<phase, fileLen, origin, sumBytes, offset, retry, saving, part,
                     saved, delivered, starts, clicks>>
  BY DEF AntQuits, disk, bounds
<1>2. offset' \in [Ants -> Nat] /\ clicks' \in 0 .. MaxClicks
  BY <1>1 DEF IInv, TypeOK
<1> QED
  BY <1>1, <1>2, ReleaseKeeps

(* An ant is cancelled.                                                    *)
LEMMA CancelledKeeps ==
  ASSUME IInv, NEW t \in Ants, AntCancelled(t)
  PROVE  IInv'
<1>1. /\ Unlocked /\ clicks < MaxClicks /\ clicks' = clicks + 1
      /\ index' = ReleaseIndex(t) /\ pc' = [pc EXCEPT ![t] = "off"]
      /\ offset' = [offset EXCEPT ![t] = 0]
      /\ UNCHANGED <<phase, fileLen, origin, sumBytes, retry, saving, part,
                     saved, delivered, starts>>
  BY DEF AntCancelled, disk
<1>2. /\ offset' \in [Ants -> Nat] /\ \A u \in Ants : u # t => offset'[u] = offset[u]
      /\ clicks' \in 0 .. MaxClicks
  BY <1>1, FileManagerAssumption DEF IInv, TypeOK
<1> QED
  BY <1>1, <1>2, ReleaseKeeps
-----------------------------------------------------------------------------
(* The states of a part file.                                              *)
Parts == [exists : BOOLEAN, size : Nat, data : SUBSET Nat]

(* What a piece of n bytes makes of the part file.                         *)
Stored(file, pos, n, len, f) ==
  /\ f \in Parts /\ f.exists = file.exists
  /\ file.data \subseteq f.data
  /\ \E c \in 0 .. n :
       /\ f.data = file.data \cup (pos .. (pos + c) - 1)
       /\ \A b \in pos .. (pos + n) - 1 :
            len = -1 \/ b < len => b \in pos .. (pos + c) - 1
  /\ \/ f.size = file.size
     \/ /\ file.size < f.size /\ f.size <= pos + n
        /\ len = -1 \/ f.size <= len
        /\ pos .. f.size - 1 \subseteq f.data

(* WritePart stores the piece up to a known end.                           *)
LEMMA PieceStored ==
  ASSUME NEW file \in Parts, NEW pos \in Nat, NEW n \in Nat,
         NEW len \in Nat \cup {-1}, NEW f, f = WritePart(file, pos, n, len)
  PROVE  Stored(file, pos, n, len, f)
<1> DEFINE to == IF len = -1 \/ pos + n <= len THEN pos + n ELSE len
<1>1. to \in Nat /\ to <= pos + n /\ (len = -1 \/ to <= len)
      /\ \A b \in pos .. (pos + n) - 1 : len = -1 \/ b < len => b \in pos .. to - 1
  OBVIOUS
<1>2. f = IF to <= pos THEN file
          ELSE [file EXCEPT !.data = @ \cup (pos .. to - 1),
                            !.size = IF @ < to THEN to ELSE @]
  BY DEF WritePart
<1> HIDE DEF to
<1>3. CASE to <= pos
  <2>1. f = file /\ pos .. to - 1 = {} /\ pos .. (pos + 0) - 1 = {} /\ 0 \in 0 .. n
    BY <1>1, <1>2, <1>3
  <2>2. f.data = file.data \cup (pos .. (pos + 0) - 1)
    BY <2>1
  <2> QED
    BY <1>1, <2>1, <2>2 DEF Stored
<1>4. CASE ~(to <= pos)
  <2>1. f = [file EXCEPT !.data = @ \cup (pos .. to - 1),
                         !.size = IF @ < to THEN to ELSE @]
    BY <1>2, <1>4
  <2>2. /\ f.exists = file.exists /\ f.data = file.data \cup (pos .. to - 1)
        /\ f.size = IF file.size < to THEN to ELSE file.size
    BY <2>1 DEF Parts
  <2>3. f \in Parts
    <3>1. f.data \in SUBSET Nat /\ f.size \in Nat
      BY <1>1, <2>2 DEF Parts
    <3>2. f = [exists |-> file.exists, size |-> f.size, data |-> f.data]
      BY <2>1 DEF Parts
    <3>3. file.exists \in BOOLEAN
      BY DEF Parts
    <3>4. \A e \in BOOLEAN, m \in Nat, d \in SUBSET Nat :
            [exists |-> e, size |-> m, data |-> d] \in Parts
      BY DEF Parts
    <3>5. [exists |-> file.exists, size |-> f.size, data |-> f.data] \in Parts
      BY <3>1, <3>3, <3>4, Zenon
    <3> QED
      BY <3>2, <3>5, Zenon
  <2>4. file.size \in Nat
    BY DEF Parts
  <2>5. to - pos \in 0 .. n /\ (pos + (to - pos)) - 1 = to - 1
    BY <1>1, <1>4
  <2>6. \E c \in 0 .. n :
          /\ f.data = file.data \cup (pos .. (pos + c) - 1)
          /\ \A b \in pos .. (pos + n) - 1 :
               len = -1 \/ b < len => b \in pos .. (pos + c) - 1
    BY <1>1, <2>2, <2>5
  <2>7. /\ file.data \subseteq f.data
        /\ \/ f.size = file.size
           \/ /\ file.size < f.size /\ f.size <= pos + n
              /\ len = -1 \/ f.size <= len
              /\ pos .. f.size - 1 \subseteq f.data
    BY <1>1, <2>2, <2>4
  <2> QED
    BY <2>2, <2>3, <2>6, <2>7 DEF Stored
<1> QED
  BY <1>3, <1>4

(* A piece fixes a length the server did not tell, or none.                *)
LEMMA Known ==
  ASSUME IInv, Unlocked, NEW t \in Ants, NEW n \in Nat, NEW end \in BOOLEAN,
         Deliverable(t, n, end), NEW len, len = KnownLen(offset[t] + n, end)
  PROVE  /\ len \in Nat \cup {-1} /\ offset[t] \in Nat
         /\ len = -1 \/ len \in 0 .. FileLen + MaxOverrun
         /\ len # fileLen => fileLen = -1 /\ len = offset[t] + n
         /\ Starts(index, len)
<1>1. offset[t] \in Nat /\ fileLen \in Nat \cup {-1}
      /\ (fileLen = -1 \/ fileLen \in 0 .. FileLen + MaxOverrun)
  BY DEF IInv, TypeOK, Asleep
<1>2. offset[t] + n <= FileLen + MaxOverrun /\ FileLen \in Nat /\ MaxOverrun \in Nat
  BY FileManagerAssumption DEF Deliverable
<1>3. len = fileLen \/ (fileLen = -1 /\ len = offset[t] + n)
  BY DEF KnownLen
<1>4. len = fileLen => Starts(index, len)
  BY FreeFacts
<1>5. ASSUME fileLen = -1, len = offset[t] + n
      PROVE  Starts(index, len)
  <2>1. Single(index) /\ index \in Seq(Segments)
    BY <1>5, FreeFacts
  <2>2. \A i \in DOMAIN index : index[i].start = 0
    BY <2>1, SingleLen DEF Single
  <2> QED
    BY <1>1, <1>5, <2>2 DEF Starts
<1> QED
  BY <1>1, <1>2, <1>3, <1>4, <1>5

(* Files and index after a piece was stored, indexed or not.               *)
LEMMA StoredSound ==
  ASSUME IInv, Unlocked, NEW pos \in Nat, NEW n \in Nat,
         Stored(part, pos, n, fileLen', part'),
         fileLen' # fileLen => fileLen = -1,
         index' \in Seq(Segments),
         Bytes(index') \subseteq Bytes(index) \cup pos .. (pos + n) - 1,
         \A b \in Bytes(index) : fileLen' = -1 \/ b < fileLen' => b \in Bytes(index'),
         UNCHANGED <<phase, saved, delivered>>
  PROVE  IndexSound' /\ SavedHeld' /\ DiskSound' /\ DeliveredComplete'
<1>1. IndexSound'
  <2>1. Held \subseteq part.data
    BY DEF IInv, IndexSound
  <2>2. ASSUME NEW b \in Bytes(index'), fileLen' = -1 \/ b < fileLen'
        PROVE  b \in part'.data
    <3>1. CASE b \in Bytes(index)
      <4>1. b \in Held
        BY <2>2, <3>1 DEF Held
      <4> QED
        BY <2>1, <4>1 DEF Stored
    <3>2. CASE b \in pos .. (pos + n) - 1
      BY <2>2, <3>2 DEF Stored
    <3> QED
      BY <3>1, <3>2
  <2> QED
    BY <2>2 DEF IndexSound, Held
<1>2. AtWork /\ AtWork'
  BY FreeFacts DEF AtWork
<1>3. \A b \in Bytes(ReadIndex(saved.segs, FileLen)) :
        fileLen = -1 \/ b < fileLen => b \in Held
  BY <1>2 DEF IInv, SavedHeld
<1>4. SavedHeld'
  <2>1. ASSUME NEW b \in Bytes(ReadIndex(saved.segs, FileLen)),
               fileLen' = -1 \/ b < fileLen'
        PROVE  b \in Held'
    <3>1. b \in Held
      BY <1>3, <2>1
    <3>2. b \in Bytes(index')
      BY <2>1, <3>1 DEF Held
    <3> QED
      BY <2>1, <3>2 DEF Held
  <2> QED
    BY <2>1 DEF SavedHeld
<1>5. RestartSound'
  <2> SUFFICES ASSUME CanResume(FileLen)',
                      NEW b \in Bytes(ReadIndex(saved.segs, FileLen))
               PROVE  b \in part'.data
    BY DEF RestartSound, Recoverable
  <2>1. part'.size = FileLen /\ part'.exists /\ saved.exists /\ FileLen # -1
    BY DEF CanResume
  <2>2. part.data \subseteq part'.data /\ part.exists
    BY <2>1 DEF Stored
  <2>3. CASE part'.size = part.size
    <3>1. CanResume(FileLen)
      BY <2>1, <2>2, <2>3 DEF CanResume
    <3>2. b \in part.data
      BY <3>1 DEF IInv, DiskSound, RestartSound, Recoverable
    <3> QED
      BY <2>2, <3>2
  <2>4. CASE part'.size # part.size
    <3>1. fileLen' = -1 \/ FileLen <= fileLen'
      BY <2>1, <2>4 DEF Stored
    <3>2. b \in Nat /\ b < FileLen /\ FileLen \in Nat
      BY FileManagerAssumption, ReadSaved DEF IInv
    <3>3. fileLen \in Nat \cup {-1}
      BY DEF IInv, TypeOK
    <3>4. fileLen = -1 \/ b < fileLen
      BY <3>1, <3>2, <3>3
    <3>5. b \in Held
      BY <1>3, <3>4
    <3> QED
      BY <2>2, <3>5 DEF IInv, IndexSound
  <2> QED
    BY <2>3, <2>4
<1>6. DiskSound' /\ DeliveredComplete'
  BY <1>5 DEF IInv, DiskSound, DeliveredComplete
<1> QED
  BY <1>1, <1>4, <1>6
-----------------------------------------------------------------------------
(* While only one segment can grow, the file has no hole before its end.   *)
LEMMA GrowingKeeps ==
  ASSUME IInv, Unlocked, NEW pos \in Nat, NEW n \in Nat, n <= RECVBUF,
         Stored(part, pos, n, fileLen', part'),
         fileLen' \in Nat \cup {-1},
         fileLen' # fileLen => fileLen = -1 /\ fileLen' >= pos + n,
         fileLen = -1 => pos = Reach(index),
         UNCHANGED phase,
         index' \in Seq(Segments),
         Single(index) => /\ Single(index')
                          /\ \/ Reach(index') = Reach(index)
                             \/ /\ pos = Reach(index)
                                /\ Reach(index') = IF fileLen' # -1 /\ pos + n > fileLen'
                                                   THEN fileLen' ELSE pos + n
  PROVE  Growing'
<1>1. /\ AtWork /\ fileLen \in Nat \cup {-1} /\ RECVBUF \in Nat
      /\ part.size \in Nat /\ part'.size \in Nat
  BY FreeFacts DEF IInv, TypeOK, Stored, Parts
<1> SUFFICES ASSUME Ahead'
             PROVE  /\ 0 .. part'.size - 1 \subseteq part'.data
                    /\ Single(index')
                    /\ part'.size <= Reach(index') + RECVBUF
                    /\ fileLen' # -1 => Reach(index') <= fileLen'
  BY DEF Growing
<1>2. Ahead
  <2>1. fileLen' = -1 \/ fileLen' < part'.size
    BY DEF Ahead
  <2>2. CASE fileLen = -1
    BY <2>2 DEF Ahead
  <2>3. CASE fileLen # -1
    <3>1. fileLen' = fileLen /\ fileLen < part'.size
      BY <2>1, <2>3
    <3>2. part'.size = part.size
      BY <1>1, <2>3, <3>1 DEF Stored
    <3> QED
      BY <3>1, <3>2 DEF Ahead
  <2> QED
    BY <2>2, <2>3
<1>3. /\ 0 .. part.size - 1 \subseteq part.data /\ Single(index)
      /\ part.size <= Reach(index) + RECVBUF
      /\ fileLen # -1 => Reach(index) <= fileLen
  BY <1>1, <1>2 DEF IInv, Growing
<1>4. Reach(index) \in Nat /\ Reach(index') \in Nat /\ Single(index')
  BY <1>3, FreeFacts, SingleLen
<1>5. part.data \subseteq part'.data
  BY DEF Stored
<1>6. CASE fileLen = -1
  <2>1. pos = Reach(index)
    BY <1>6
  <2>2. CASE part'.size = part.size
    <3>1. 0 .. part'.size - 1 \subseteq part'.data
      BY <1>3, <1>5, <2>2
    <3>2. CASE Reach(index') = Reach(index)
      <4>1. fileLen' # -1 => fileLen' >= pos + n
        BY <1>6
      <4> QED
        BY <1>1, <1>3, <1>4, <2>1, <2>2, <3>1, <3>2, <4>1
    <3>3. CASE Reach(index') = IF fileLen' # -1 /\ pos + n > fileLen'
                               THEN fileLen' ELSE pos + n
      <4>1. Reach(index') = pos + n
        BY <1>1, <1>6, <3>3
      <4>2. fileLen' # -1 => fileLen' >= pos + n
        BY <1>6
      <4> QED
        BY <1>1, <1>3, <1>4, <2>1, <2>2, <3>1, <4>1, <4>2
    <3> QED
      BY <1>3, <3>2, <3>3
  <2>3. CASE part'.size # part.size
    <3>1. /\ part'.size <= pos + n /\ pos .. part'.size - 1 \subseteq part'.data
          /\ part.size < part'.size
      BY <2>3 DEF Stored
    <3>2. fileLen' = -1
      <4>1. fileLen' = -1 \/ (pos + n <= fileLen' /\ fileLen' < part'.size)
        BY <1>6 DEF Ahead
      <4> QED
        BY <1>1, <3>1, <4>1
    <3>3. 0 .. pos - 1 \subseteq part.data
      <4>1. Bytes(index) = 0 .. pos - 1
        BY <1>3, <2>1, FreeFacts, SingleBytes
      <4> QED
        BY <1>6, <4>1 DEF IInv, IndexSound, Held
    <3>4. 0 .. part'.size - 1 \subseteq part'.data
      <4>1. 0 .. part'.size - 1 \subseteq (0 .. pos - 1) \cup (pos .. part'.size - 1)
        BY <1>1
      <4> QED
        BY <1>5, <3>1, <3>3, <4>1
    <3>5. Reach(index') >= pos
      BY <1>3, <1>4, <2>1, <3>2
    <3>6. part'.size <= Reach(index') + RECVBUF
      BY <1>1, <1>4, <3>1, <3>5
    <3> QED
      BY <1>4, <3>2, <3>4, <3>6
  <2> QED
    BY <2>2, <2>3
<1>7. CASE fileLen # -1
  <2>1. fileLen' = fileLen
    BY <1>7
  <2>2. part'.size = part.size
    <3>1. fileLen < part'.size
      BY <1>7, <2>1 DEF Ahead
    <3> QED
      BY <1>1, <1>7, <2>1, <3>1 DEF Stored
  <2>3. Reach(index) <= Reach(index') /\ Reach(index') <= fileLen'
    <3>1. Reach(index) <= fileLen
      BY <1>3, <1>7
    <3>2. CASE Reach(index') = Reach(index)
      BY <1>1, <1>4, <1>7, <2>1, <3>1, <3>2
    <3>3. CASE /\ pos = Reach(index)
               /\ Reach(index') = IF fileLen' # -1 /\ pos + n > fileLen'
                                  THEN fileLen' ELSE pos + n
      BY <1>1, <1>4, <1>7, <2>1, <3>1, <3>3
    <3> QED
      BY <1>3, <3>2, <3>3
  <2> QED
    BY <1>1, <1>3, <1>4, <1>5, <2>2, <2>3
<1> QED
  BY <1>6, <1>7

(* Where the length is not known, the ant at work is where the segment     *)
(* ends.                                                                   *)
LEMMA WorkerTip ==
  ASSUME IInv, Unlocked, NEW t \in Ants, pc[t] = "run", fileLen = -1
  PROVE  /\ Single(index) /\ index # << >> /\ index[1].mark = t
         /\ offset[t] = Reach(index)
BY FreeFacts DEF IInv, Solo, Reach

(* A piece is stored and indexed.                                          *)
LEMMA FileDataKeeps ==
  ASSUME IInv, NEW t \in Ants, NEW n \in PieceLens, NEW end \in BOOLEAN,
         FileData(t, n, end)
  PROVE  IInv'
<1> DEFINE pos == offset[t]
           len == KnownLen(pos + n, end)
           w == WriteData(index, pos, n, len)
<1>1. /\ Unlocked /\ pc[t] = "run" /\ Deliverable(t, n, end)
      /\ fileLen' = len
      /\ part' = WritePart(part, pos, n, len)
      /\ index' = w.index
      /\ saving' = [ant |-> t, to |-> pos + n,
                    ret |-> IF end THEN 0 ELSE w.ret, combine |-> w.combine]
      /\ UNCHANGED <<phase, origin, sumBytes, pc, offset, retry, saved, delivered,
                     starts, clicks>>
  BY DEF FileData, threads, bounds
<1>2. n \in Nat /\ n <= RECVBUF /\ RECVBUF \in Nat /\ t # NoAnt
  BY FileManagerAssumption
<1>3. /\ len \in Nat \cup {-1} /\ pos \in Nat
      /\ len = -1 \/ len \in 0 .. FileLen + MaxOverrun
      /\ len # fileLen => fileLen = -1 /\ len = pos + n
      /\ Starts(index, len)
  BY <1>1, <1>2, Known
<1>4. Written(index, pos, pos + n, len, w)
  BY <1>1, <1>2, <1>3, FreeFacts, PieceWritten
<1>5. Grown(index, pos, n, len, w)
  <2>1. Single(index) => Grown(index, pos, n, len, w)
    BY <1>1, <1>2, <1>3, FreeFacts, SingleWritten
  <2> QED
    BY <2>1 DEF Grown
<1>6. part \in Parts
  BY DEF IInv, TypeOK, Parts
<1>7. Stored(part, pos, n, len, part')
  BY <1>1, <1>2, <1>3, <1>6, PieceStored
<1>8. /\ saving'.ant = t /\ saving'.to = pos + n /\ saving'.combine = w.combine
      /\ saving'.ret \in {0, 1} /\ saving' # NoPiece
      /\ saving'.ret = IF end THEN 0 ELSE w.ret
  <2>1. /\ saving'.ant = t /\ saving'.to = pos + n /\ saving'.combine = w.combine
        /\ saving'.ret = IF end THEN 0 ELSE w.ret
    BY <1>1
  <2>2. w.ret \in {0, 1}
    BY <1>4 DEF Written
  <2>3. saving' # NoPiece
    BY <1>2, <2>1 DEF NoPiece
  <2> QED
    BY <2>1, <2>2, <2>3
<1>9. saving' \in [ant : Ants \cup {NoAnt}, to : Nat, ret : {0, 1}, combine : BOOLEAN]
  <2>1. \A a \in Ants \cup {NoAnt}, m \in Nat, r \in {0, 1}, c \in BOOLEAN :
          [ant |-> a, to |-> m, ret |-> r, combine |-> c]
            \in [ant : Ants \cup {NoAnt}, to : Nat, ret : {0, 1}, combine : BOOLEAN]
    OBVIOUS
  <2>2. pos + n \in Nat
    BY <1>2, <1>3
  <2>3. w.combine \in BOOLEAN
    BY <1>4, Zenon DEF Written
  <2>4. (IF end THEN 0 ELSE w.ret) \in {0, 1}
    BY <1>4 DEF Written
  <2> HIDE DEF w, pos
  <2> QED
    BY <1>1, <2>1, <2>2, <2>3, <2>4, Zenon
<1> HIDE DEF w, len, pos
<1>10. /\ index' \in Seq(Segments) /\ Ordered(index') /\ Len(index') <= Len(index)
       /\ Starts(index', len)
       /\ Bytes(index') \subseteq Bytes(index) \cup pos .. (pos + n) - 1
       /\ \A b \in Bytes(index) : len = -1 \/ b < len => b \in Bytes(index')
       /\ saving'.combine = FALSE => SumBytes(index') = SumBytes(index) + ((pos + n) - pos)
       /\ MarksReach(index', index, len)
       /\ OneMark(index')
  <2>1. w.combine = FALSE => SumBytes(index') = SumBytes(index) + ((pos + n) - pos)
    <3>1. w.combine = FALSE => SumBytes(w.index) = SumBytes(index) + ((pos + n) - pos)
      BY <1>4, Zenon DEF Written
    <3> QED
      BY <1>1, <3>1, Zenon
  <2>2. saving'.combine = FALSE => SumBytes(index') = SumBytes(index) + ((pos + n) - pos)
    BY <1>8, <2>1, Zenon
  <2>3. /\ w.index \in Seq(Segments) /\ Ordered(w.index) /\ Len(w.index) <= Len(index)
        /\ Starts(w.index, len)
        /\ Bytes(w.index) \subseteq Bytes(index) \cup pos .. (pos + n) - 1
        /\ \A b \in Bytes(index) : len = -1 \/ b < len => b \in Bytes(w.index)
        /\ MarksReach(w.index, index, len)
    BY <1>4 DEF Written
  <2>4. OneMark(w.index)
    <3>1. OneMark(index)
      BY <1>1, FreeFacts
    <3>2. OneMark(index) => OneMark(w.index)
      BY <1>4, Zenon DEF Written
    <3> QED
      BY <3>1, <3>2
  <2> QED
    BY <1>1, <2>2, <2>3, <2>4
<1>11. Single(index) =>
        IF index # << >> /\ pos = Reach(index)
        THEN /\ Single(index') /\ index' # << >>
             /\ Reach(index') = IF len # -1 /\ pos + n > len THEN len ELSE pos + n
             /\ index'[1].mark = index[1].mark
        ELSE index' = index
  BY <1>1, <1>5 DEF Grown
<1>12. fileLen = -1 => /\ Single(index) /\ index # << >> /\ index[1].mark = t
                       /\ pos = Reach(index)
  BY <1>1, WorkerTip DEF pos
<1>13. TypeOK'
  <2>1. part' \in [exists : BOOLEAN, size : Nat, data : SUBSET Nat]
    BY <1>7 DEF Stored, Parts
  <2> QED
    BY <1>1, <1>3, <1>9, <1>10, <2>1 DEF IInv, TypeOK
<1>14. Asleep'
  BY <1>1, <1>3, <1>8, FreeFacts DEF IInv, Asleep, AtWork
<1>15. Shape'
  <2>1. FewSegments(index')
    <3>1. Len(index) \in Nat /\ Len(index') \in Nat /\ Cardinality(Ants) \in Nat
      BY <1>1, <1>10, FreeFacts, FileManagerAssumption, FS_CardinalityType
    <3> QED
      BY <1>1, <1>10, <3>1, FreeFacts DEF FewSegments
  <2> QED
    BY <1>1, <1>10, <2>1 DEF Shape
<1>16. IndexSound' /\ SavedHeld' /\ DiskSound' /\ DeliveredComplete'
  BY <1>1, <1>2, <1>3, <1>7, <1>10, StoredSound
<1>17. Growing'
  <2>1. len # fileLen => len >= pos + n
    BY <1>2, <1>3
  <2> QED
    BY <1>1, <1>2, <1>3, <1>7, <1>10, <1>11, <1>12, <2>1, GrowingKeeps
<1>18. Solo'
  <2> SUFFICES ASSUME fileLen' = -1, NEW u \in Ants, pc'[u] = "run"
               PROVE  index' # << >> /\ index'[1].mark = u /\ index'[1].end = Tip(u)'
    BY DEF Solo
  <2>1. fileLen = -1 /\ len = -1
    BY <1>1, <1>2, <1>3
  <2>2. u = t
    BY <1>1, <1>12, <2>1, WorkerTip
  <2>3. index' # << >> /\ index'[1].mark = t /\ Reach(index') = pos + n
    BY <1>11, <1>12, <2>1
  <2>4. Tip(u)' = pos + n
    BY <1>8, <2>2 DEF Tip
  <2> QED
    BY <2>2, <2>3, <2>4 DEF Reach
<1>19. Counting'
  <2>1. origin + sumBytes = SumBytes(index)
    BY <1>1, FreeFacts DEF IInv, Counting
  <2>2. saving'.combine = TRUE \/ saving'.combine = FALSE
    BY <1>4, <1>8, Zenon DEF Written
  <2>3. saving'.combine = FALSE =>
          origin' + sumBytes' + (saving'.to - offset'[saving'.ant]) = SumBytes(index')
    <3> SUFFICES ASSUME SumBytes(index') = SumBytes(index) + ((pos + n) - pos)
                 PROVE  origin' + sumBytes' + (saving'.to - offset'[saving'.ant])
                          = SumBytes(index')
      BY <1>10
    <3>1. saving'.to = pos + n /\ offset'[saving'.ant] = pos
      BY <1>1, <1>8 DEF pos
    <3>2. origin' = origin /\ sumBytes' = sumBytes /\ origin \in Nat /\ sumBytes \in Int
      BY <1>1 DEF IInv, TypeOK
    <3> QED
      BY <1>2, <1>3, <2>1, <3>1, <3>2
  <2> QED
    BY <1>8, <2>2, <2>3, Zenon DEF Counting
<1>20. Alive'
  <2> SUFFICES ASSUME NEW k \in DOMAIN index', index'[k].mark # NoAnt
               PROVE  pc'[index'[k].mark] # "off"
    BY DEF Alive
  <2>1. PICK j \in DOMAIN index : index[j].mark = index'[k].mark
    BY <1>10 DEF MarksReach
  <2> QED
    BY <1>1, <2>1 DEF IInv, Alive
<1> QED
  BY <1>13, <1>14, <1>15, <1>16, <1>17, <1>18, <1>19, <1>20 DEF IInv
-----------------------------------------------------------------------------
(* A piece the disk refused may be in the part file, but is not indexed.   *)
LEMMA WriteFailsKeeps ==
  ASSUME IInv, NEW t \in Ants, NEW n \in PieceLens, NEW end \in BOOLEAN,
         WriteFails(t, n, end)
  PROVE  IInv'
<1> DEFINE pos == offset[t]
           len == KnownLen(pos + n, end)
<1>1. /\ Unlocked /\ pc[t] = "run" /\ Deliverable(t, n, end)
      /\ fileLen' = len
      /\ UNCHANGED <<phase, index, origin, sumBytes, pc, offset, retry, saving,
                     saved, delivered, starts, clicks>>
  BY DEF WriteFails, threads, bounds
<1>2. n \in Nat /\ n <= RECVBUF /\ RECVBUF \in Nat
  BY FileManagerAssumption
<1>3. PICK k \in 0 .. n : part' = WritePart(part, pos, k, fileLen')
  BY DEF WriteFails
<1>4. /\ len \in Nat \cup {-1} /\ pos \in Nat
      /\ len = -1 \/ len \in 0 .. FileLen + MaxOverrun
      /\ len # fileLen => fileLen = -1 /\ len = pos + n
      /\ Starts(index, len)
  BY <1>1, <1>2, Known
<1>5. k \in Nat /\ k <= n /\ k <= RECVBUF
  BY <1>2
<1>6. Stored(part, pos, k, fileLen', part')
  <2>1. part \in Parts
    BY DEF IInv, TypeOK, Parts
  <2> QED
    BY <1>1, <1>3, <1>4, <1>5, <2>1, PieceStored
<1>7. fileLen = -1 => pos = Reach(index)
  BY <1>1, WorkerTip
<1> HIDE DEF pos, len
<1>8. len # fileLen => fileLen = -1 /\ len >= pos + k
  BY <1>2, <1>4, <1>5
<1>9. TypeOK'
  <2>1. part' \in [exists : BOOLEAN, size : Nat, data : SUBSET Nat]
    BY <1>6 DEF Stored, Parts
  <2> QED
    BY <1>1, <1>4, <2>1 DEF IInv, TypeOK
<1>10. Asleep'
  BY <1>1, <1>4, FreeFacts DEF IInv, Asleep, AtWork
<1>11. Shape'
  BY <1>1, <1>4 DEF IInv, Shape
<1>12. index' \in Seq(Segments) /\ index' = index
  BY <1>1, FreeFacts
<1>13. IndexSound' /\ SavedHeld' /\ DiskSound' /\ DeliveredComplete'
  BY <1>1, <1>4, <1>5, <1>6, <1>12, StoredSound
<1>14. Growing'
  BY <1>1, <1>4, <1>5, <1>6, <1>7, <1>8, <1>12, GrowingKeeps
<1>15. Solo'
  <2>1. fileLen' = -1 => fileLen = -1
    BY <1>1, <1>2, <1>4
  <2> QED
    BY <1>1, <2>1 DEF IInv, Solo, Tip
<1>16. Counting' /\ Alive'
  BY <1>1 DEF IInv, Counting, Alive
<1> QED
  BY <1>9, <1>10, <1>11, <1>13, <1>14, <1>15, <1>16 DEF IInv

(* An index file written from the index, or from its first segments.       *)
LEMMA IndexWritten ==
  ASSUME IInv, AtWork, NEW segs \in Seq(Segments), Ordered(segs),
         Len(segs) <= Len(index), Bytes(segs) \subseteq Bytes(index),
         saved'.segs = segs, UNCHANGED part
  PROVE  DiskSound'
<1>1. /\ index \in Seq(Segments) /\ FewSegments(index)
      /\ fileLen \in Nat \cup {-1} /\ FileLen \in Nat
  BY FileManagerAssumption DEF IInv, TypeOK, Shape
<1>2. FewSegments(segs)
  <2>1. Len(index) \in Nat /\ Len(segs) \in Nat /\ Cardinality(Ants) \in Nat
    BY <1>1, FileManagerAssumption, FS_CardinalityType
  <2> QED
    BY <1>1, <2>1 DEF FewSegments
<1>3. RestartSound'
  <2> SUFFICES ASSUME CanResume(FileLen)', NEW b \in Bytes(ReadIndex(segs, FileLen))
               PROVE  b \in part.data
    BY DEF RestartSound, Recoverable
  <2>1. part.size = FileLen
    BY DEF CanResume
  <2>2. /\ Bytes(ReadIndex(segs, FileLen)) \subseteq Bytes(segs)
        /\ b \in Nat /\ b < FileLen
    <3> DEFINE out == ReadIndex(segs, FileLen)
    <3>1. /\ out \in Seq(Segments) /\ Bytes(out) \subseteq Bytes(segs)
          /\ \A k \in DOMAIN out : out[k].end <= FileLen
      BY <1>1, ReadKeeps
    <3> HIDE DEF out
    <3>2. Has(out, b)
      BY <3>1, BytesHas DEF out
    <3>3. PICK k \in DOMAIN out : out[k].start <= b /\ b < out[k].end
      BY <3>2 DEF Has
    <3>4. out[k].end \in Nat /\ out[k].end <= FileLen
      BY <3>1, SegTypes
    <3>5. b \in Nat
      BY <3>1, BytesHas DEF out
    <3> QED
      BY <1>1, <3>1, <3>3, <3>4, <3>5 DEF out
  <2>3. b \in Bytes(index)
    BY <2>2
  <2>4. CASE fileLen = -1 \/ b < fileLen
    BY <2>3, <2>4 DEF IInv, IndexSound, Held
  <2>5. CASE fileLen # -1 /\ ~(b < fileLen)
    <3>1. Ahead
      BY <1>1, <2>1, <2>2, <2>5 DEF Ahead
    <3>2. 0 .. part.size - 1 \subseteq part.data
      BY <3>1 DEF IInv, Growing
    <3> QED
      BY <1>1, <2>1, <2>2, <3>2
  <2> QED
    BY <2>4, <2>5
<1> QED
  BY <1>2, <1>3 DEF DiskSound

(* The index file is rewritten and the piece counted.                      *)
LEMMA SaveIndexKeeps ==
  ASSUME IInv, NEW t \in Ants, NEW swap \in BOOLEAN, SaveIndex(t, swap)
  PROVE  IInv'
<1>1. /\ phase = "up" /\ saving.ant = t
      /\ saved' = [exists |-> TRUE, segs |-> index]
      /\ sumBytes' = Counted(t)
      /\ saving' = NoPiece
      /\ UNCHANGED <<phase, fileLen, index, origin, retry, part, delivered,
                     starts, clicks>>
  BY DEF SaveIndex, bounds
<1>2. \/ /\ offset' = [offset EXCEPT ![t] = saving.to] /\ pc' = pc
      \/ /\ offset' = [offset EXCEPT ![t] = 0] /\ pc' = [pc EXCEPT ![t] = "new"]
  BY DEF SaveIndex
<1>3. /\ AtWork /\ t # NoAnt /\ saving # NoPiece
      /\ saving'.ant = NoAnt /\ saved'.segs = index /\ saved'.exists = TRUE
  BY <1>1, FileManagerAssumption DEF AtWork, NoPiece
<1>4. /\ index \in Seq(Segments) /\ Ordered(index) /\ saving.to \in Nat
      /\ origin \in Nat /\ sumBytes \in Int /\ offset[t] \in Nat
      /\ pc \in [Ants -> {"off", "new", "run", "quit"}] /\ offset \in [Ants -> Nat]
  BY DEF IInv, TypeOK, Shape
<1>5. pc[t] = "run"
  BY <1>1, <1>3 DEF IInv, Asleep
<1>6. /\ pc' \in [Ants -> {"off", "new", "run", "quit"}] /\ offset' \in [Ants -> Nat]
      /\ \A u \in Ants :
           /\ pc[u] # "off" => pc'[u] # "off"
           /\ u # t => pc'[u] = pc[u] /\ offset'[u] = offset[u]
           /\ pc'[t] = "run" => offset'[t] = saving.to
  BY <1>2, <1>4, <1>5
<1>7. SumBytes(index) \in Nat
  BY <1>4, SumCounts, FS_CardinalityType
<1>8. origin + sumBytes' = SumBytes(index)
  <2>1. saving.combine = TRUE \/ saving.combine = FALSE
    <3>1. saving.combine \in BOOLEAN
      BY DEF IInv, TypeOK
    <3> QED
      BY <3>1, Zenon
  <2>2. saving.combine = TRUE => sumBytes' = SumBytes(index) - origin
    BY <1>1, Zenon DEF Counted
  <2>3. saving.combine = FALSE => sumBytes' = sumBytes + (saving.to - offset[t])
    BY <1>1, Zenon DEF Counted
  <2>4. saving.combine = FALSE =>
          origin + sumBytes + (saving.to - offset[t]) = SumBytes(index)
    <3>1. \/ saving.combine = TRUE
          \/ origin + sumBytes + (saving.to - offset[saving.ant]) = SumBytes(index)
      BY <1>1, <1>3 DEF IInv, Counting
    <3> QED
      BY <1>1, <3>1, Zenon
  <2>5. CASE saving.combine = TRUE
    <3>1. sumBytes' = SumBytes(index) - origin
      BY <2>2, <2>5, Zenon
    <3> QED
      BY <1>4, <1>7, <3>1
  <2>6. CASE saving.combine = FALSE
    <3>1. /\ sumBytes' = sumBytes + (saving.to - offset[t])
          /\ origin + sumBytes + (saving.to - offset[t]) = SumBytes(index)
      BY <2>3, <2>4, <2>6, Zenon
    <3> QED
      BY <1>4, <1>7, <3>1
  <2> QED
    BY <2>1, <2>5, <2>6, Zenon
<1>9. sumBytes' \in Int
  <2>1. sumBytes' = SumBytes(index) - origin \/ sumBytes' = sumBytes + (saving.to - offset[t])
    BY <1>1 DEF Counted
  <2> QED
    BY <1>4, <1>7, <2>1
<1>10. TypeOK'
  <2>1. saving' \in [ant : Ants \cup {NoAnt}, to : Nat, ret : {0, 1}, combine : BOOLEAN]
    BY <1>1 DEF NoPiece
  <2> QED
    BY <1>1, <1>3, <1>4, <1>6, <1>9, <2>1 DEF IInv, TypeOK
<1>11. Asleep'
  BY <1>1, <1>3 DEF IInv, Asleep, AtWork
<1>12. Shape' /\ DeliveredComplete' /\ IndexSound'
  BY <1>1 DEF IInv, Shape, DeliveredComplete, IndexSound, Held
<1>13. DiskSound'
  <2>1. Len(index) <= Len(index)
    BY <1>4
  <2> QED
    BY <1>1, <1>3, <1>4, <2>1, IndexWritten
<1>14. Growing'
  BY <1>1 DEF IInv, Growing, Ahead, AtWork
<1>15. SavedHeld'
  <2>1. Bytes(ReadIndex(index, FileLen)) \subseteq Bytes(index)
    <3>1. FileLen \in Nat \cup {-1}
      BY FileManagerAssumption
    <3> QED
      BY <1>4, <3>1, ReadKeeps
  <2> QED
    BY <1>1, <1>3, <2>1 DEF SavedHeld, Held
<1>16. Solo'
  <2> SUFFICES ASSUME fileLen = -1, NEW u \in Ants, pc'[u] = "run"
               PROVE  index' # << >> /\ index'[1].mark = u /\ index'[1].end = Tip(u)'
    BY <1>1 DEF Solo
  <2>1. Tip(u)' = offset'[u]
    BY <1>3, FileManagerAssumption DEF Tip
  <2>2. Tip(u) = IF u = t THEN saving.to ELSE offset[u]
    BY <1>1 DEF Tip
  <2>3. pc[u] = "run" /\ offset'[u] = Tip(u)
    BY <1>5, <1>6, <2>2
  <2> QED
    BY <1>1, <2>1, <2>3 DEF IInv, Solo
<1>17. Counting'
  BY <1>1, <1>8 DEF Counting
<1>18. Alive'
  <2> SUFFICES ASSUME NEW i \in DOMAIN index, index[i].mark # NoAnt
               PROVE  pc'[index[i].mark] # "off"
    BY <1>1 DEF Alive
  <2>1. index[i].mark \in Ants
    BY <1>4, SegTypes
  <2> QED
    BY <1>6, <2>1 DEF IInv, Alive
<1> QED
  BY <1>10, <1>11, <1>12, <1>13, <1>14, <1>15, <1>16, <1>17, <1>18 DEF IInv
-----------------------------------------------------------------------------
(* A step of the threads alone: none begins to run, and none is lost.      *)
LEMMA ThreadsKeep ==
  ASSUME IInv, Unlocked,
         pc' \in [Ants -> {"off", "new", "run", "quit"}], offset' \in [Ants -> Nat],
         retry' \in [Ants -> -1 .. Retries], clicks' \in 0 .. MaxClicks,
         \A u \in Ants : /\ pc[u] # "off" => pc'[u] # "off"
                         /\ pc'[u] = "run" => pc[u] = "run" /\ offset'[u] = offset[u],
         UNCHANGED <<phase, fileLen, index, origin, sumBytes, saving, part, saved,
                     delivered, starts>>
  PROVE  IInv'
<1>1. TypeOK'
  BY DEF IInv, TypeOK
<1>2. Asleep'
  BY FreeFacts DEF IInv, Asleep, AtWork
<1>3. Shape' /\ DeliveredComplete' /\ IndexSound' /\ Growing' /\ SavedHeld' /\ Counting'
  BY FreeFacts DEF IInv, Shape, DeliveredComplete, IndexSound, Held, Growing, Ahead, AtWork,
                   SavedHeld, Counting
<1>4. DiskSound'
  BY DEF IInv, DiskSound, RestartSound, Recoverable, CanResume
<1>5. Solo'
  BY FreeFacts DEF IInv, Solo, Tip
<1>6. Alive'
  <2>1. \A i \in DOMAIN index : index[i].mark \in Ants \cup {NoAnt}
    BY FreeFacts, SegTypes
  <2> QED
    BY <2>1 DEF IInv, Alive
<1> QED
  BY <1>1, <1>2, <1>3, <1>4, <1>5, <1>6 DEF IInv

(* A session fails for good.                                               *)
LEMMA FailsKeeps ==
  ASSUME IInv, NEW t \in Ants, SessionFails(t)
  PROVE  IInv'
<1>1. /\ Unlocked /\ pc[t] = "run" /\ offset' = [offset EXCEPT ![t] = 0]
      /\ UNCHANGED <<phase, fileLen, index, origin, sumBytes, saving, part, saved,
                     delivered, starts, clicks>>
  BY DEF SessionFails, memory, disk, bounds
<1>2. PICK cost \in {1, 3, Retries + 1} :
        LET left == IF retry[t] >= cost THEN retry[t] - cost ELSE -1
        IN /\ retry' = [retry EXCEPT ![t] = left]
           /\ pc' = [pc EXCEPT ![t] = IF left = -1 THEN "quit" ELSE "new"]
  BY DEF SessionFails
<1> DEFINE left == IF retry[t] >= cost THEN retry[t] - cost ELSE -1
<1>3. /\ pc \in [Ants -> {"off", "new", "run", "quit"}] /\ offset \in [Ants -> Nat]
      /\ retry \in [Ants -> -1 .. Retries] /\ clicks \in 0 .. MaxClicks /\ Retries \in Nat
  BY FileManagerAssumption DEF IInv, TypeOK
<1>4. left \in -1 .. Retries
  BY <1>3
<1>5. retry' \in [Ants -> -1 .. Retries]
  BY <1>2, <1>3, <1>4
<1> HIDE DEF left
<1>6. /\ pc' \in [Ants -> {"off", "new", "run", "quit"}] /\ offset' \in [Ants -> Nat]
      /\ \A u \in Ants : /\ pc[u] # "off" => pc'[u] # "off"
                         /\ pc'[u] = "run" => pc[u] = "run" /\ offset'[u] = offset[u]
  <2>1. pc' = [pc EXCEPT ![t] = "quit"] \/ pc' = [pc EXCEPT ![t] = "new"]
    BY <1>2
  <2> QED
    BY <1>1, <1>3, <2>1
<1> QED
  BY <1>1, <1>3, <1>5, <1>6, ThreadsKeep

(* An ant is added.                                                        *)
LEMMA AddedKeeps ==
  ASSUME IInv, NEW t \in Ants, AntAdded(t)
  PROVE  IInv'
<1>1. /\ Unlocked /\ pc[t] = "off" /\ clicks < MaxClicks /\ clicks' = clicks + 1
      /\ pc' = [pc EXCEPT ![t] = "new"] /\ retry' = [retry EXCEPT ![t] = Retries]
      /\ UNCHANGED <<phase, fileLen, index, origin, sumBytes, offset, saving, part,
                     saved, delivered, starts>>
  BY DEF AntAdded, memory, disk
<1>2. /\ pc \in [Ants -> {"off", "new", "run", "quit"}] /\ offset \in [Ants -> Nat]
      /\ retry \in [Ants -> -1 .. Retries] /\ clicks \in 0 .. MaxClicks
      /\ Retries \in Nat /\ MaxClicks \in Nat
  BY FileManagerAssumption DEF IInv, TypeOK
<1>3. retry' \in [Ants -> -1 .. Retries] /\ clicks' \in 0 .. MaxClicks
  BY <1>1, <1>2
<1>4. /\ pc' \in [Ants -> {"off", "new", "run", "quit"}] /\ offset' \in [Ants -> Nat]
      /\ \A u \in Ants : /\ pc[u] # "off" => pc'[u] # "off"
                         /\ pc'[u] = "run" => pc[u] = "run" /\ offset'[u] = offset[u]
  BY <1>1, <1>2
<1> QED
  BY <1>1, <1>3, <1>4, ThreadsKeep

(* The last ant has quit.                                                  *)
LEMMA FinishKeeps ==
  ASSUME IInv, Finish
  PROVE  IInv'
<1>1. /\ Unlocked /\ phase' = "over" /\ \A t \in Ants : pc[t] = "off"
      /\ UNCHANGED <<fileLen, index, origin, sumBytes, pc, offset, retry, saving,
                     part, saved, delivered, starts, clicks>>
  BY DEF Finish, memory, threads, disk, bounds
<1>2. AtWork /\ AtWork' /\ phase = "up" /\ saving = NoPiece
  BY <1>1, FreeFacts DEF AtWork
<1>3. TypeOK' /\ Asleep'
  BY <1>1, <1>2 DEF IInv, TypeOK, Asleep, AtWork
<1>4. Shape' /\ DiskSound' /\ DeliveredComplete' /\ IndexSound'
  BY <1>1 DEF IInv, Shape, DiskSound, RestartSound, Recoverable, CanResume,
              DeliveredComplete, IndexSound, Held
<1>5. Growing' /\ SavedHeld' /\ Counting'
  BY <1>1, <1>2 DEF IInv, Growing, Ahead, SavedHeld, Held, Counting
<1>6. Solo' /\ Alive'
  BY <1>1 DEF IInv, Solo, Tip, Alive
<1> QED
  BY <1>3, <1>4, <1>5, <1>6 DEF IInv

(* The task object is gone.                                                *)
LEMMA ForgetKeeps ==
  ASSUME IInv, Forget, DiskSound', DeliveredComplete',
         part' \in Parts, saved'.exists \in BOOLEAN, saved'.segs \in Seq(Segments),
         delivered' \in [len : Nat, data : SUBSET Nat]
  PROVE  IInv'
<1>1. /\ phase' = "down" /\ fileLen' = -1 /\ index' = << >>
      /\ origin' = 0 /\ sumBytes' = 0 /\ pc' = [t \in Ants |-> "off"]
      /\ offset' = [t \in Ants |-> 0] /\ retry' = [t \in Ants |-> Retries]
      /\ saving' = NoPiece /\ clicks' = 0 /\ starts' = starts
  BY DEF Forget
<1>2. Retries \in Nat /\ MaxClicks \in Nat
  BY FileManagerAssumption
<1>3. TypeOK'
  <2>1. saving' \in [ant : Ants \cup {NoAnt}, to : Nat, ret : {0, 1}, combine : BOOLEAN]
    BY <1>1 DEF NoPiece
  <2>2. retry' \in [Ants -> -1 .. Retries]
    BY <1>1, <1>2
  <2> QED
    BY <1>1, <1>2, <2>1, <2>2, EmptyIndex, SMTT(30) DEF IInv, TypeOK, Parts
<1>4. Asleep'
  BY <1>1 DEF Asleep, AtWork
<1>5. Shape'
  BY <1>1, EmptyIndex DEF Shape
<1>6. Growing' /\ SavedHeld' /\ Counting'
  BY <1>1 DEF Growing, SavedHeld, Counting, AtWork
<1>7. Solo' /\ Alive'
  BY <1>1, EmptyIndex DEF Solo, Alive
<1>8. IndexSound'
  BY <1>1, EmptyIndex DEF IndexSound, Held
<1> QED
  BY <1>3, <1>4, <1>5, <1>6, <1>7, <1>8 DEF IInv

(* The task is given up.                                                   *)
LEMMA StopKeeps ==
  ASSUME IInv, Stop
  PROVE  IInv'
<1>1. Forget /\ UNCHANGED <<part, saved, delivered>>
  BY DEF Stop, disk
<1>2. DiskSound' /\ DeliveredComplete'
  BY <1>1 DEF IInv, DiskSound, RestartSound, Recoverable, CanResume, DeliveredComplete
<1>3. /\ part' \in Parts /\ saved'.exists \in BOOLEAN /\ saved'.segs \in Seq(Segments)
      /\ delivered' \in [len : Nat, data : SUBSET Nat]
  BY <1>1 DEF IInv, TypeOK, Parts
<1> QED
  BY <1>1, <1>2, <1>3, ForgetKeeps

(* The file is handed to the user.                                         *)
LEMMA DeliverKeeps ==
  ASSUME IInv, Deliver
  PROVE  IInv'
<1>1. /\ phase = "over" /\ IsTaskFinish
      /\ delivered' = [len |-> fileLen, data |-> part.data]
      /\ part' = NoFile /\ Forget /\ saved' = saved
  BY DEF Deliver
<1>2. index \in Seq(Segments) /\ fileLen \in Nat \cup {-1} /\ part \in Parts
  BY DEF IInv, TypeOK, Parts
<1>3. fileLen \in Nat /\ 0 .. fileLen - 1 \subseteq part.data
  <2>1. CASE fileLen = 0
    BY <2>1
  <2>2. CASE Complete(index, fileLen)
    <3>1. Len(index) = 1 /\ index[1].start = 0 /\ index[1].end = fileLen
      BY <2>2 DEF Complete
    <3>2. Single(index) /\ index # << >>
      <4>1. Len(<< >>) # 1
        OBVIOUS
      <4>2. index # << >>
        BY <3>1, <4>1, Zenon
      <4> QED
        BY <3>1, <4>2 DEF Single
    <3>3. fileLen \in Nat
      BY <1>2, <3>1, <3>2, SingleLen
    <3>4. Bytes(index) = 0 .. fileLen - 1
      <4>1. Reach(index) = fileLen
        BY <3>1, <3>2 DEF Reach
      <4> QED
        BY <1>2, <3>2, <4>1, SingleBytes
    <3>5. Held = Bytes(index)
      BY <3>3, <3>4 DEF Held
    <3> QED
      BY <3>3, <3>4, <3>5 DEF IInv, IndexSound
  <2> QED
    BY <1>1, <2>1, <2>2 DEF IsTaskFinish
<1>4. DeliveredComplete'
  BY <1>1, <1>3 DEF DeliveredComplete
<1>5. DiskSound'
  <2>1. ~CanResume(FileLen)'
    BY <1>1 DEF CanResume, NoFile
  <2>2. RestartSound'
    BY <2>1 DEF RestartSound, Recoverable
  <2> QED
    BY <1>1, <2>2 DEF IInv, DiskSound
<1>6. /\ part' \in Parts /\ saved'.exists \in BOOLEAN /\ saved'.segs \in Seq(Segments)
      /\ delivered' \in [len : Nat, data : SUBSET Nat]
  BY <1>1, <1>2, <1>3 DEF IInv, TypeOK, Parts, NoFile
<1> QED
  BY <1>1, <1>4, <1>5, <1>6, ForgetKeeps

(* The first segments of an index.                                         *)
LEMMA Prefix ==
  ASSUME NEW segs \in Seq(Segments), Ordered(segs), NEW k \in 0 .. Len(segs),
         NEW out, out = SubSeq(segs, 1, k)
  PROVE  /\ out \in Seq(Segments) /\ Ordered(out) /\ Len(out) <= Len(segs)
         /\ Bytes(out) \subseteq Bytes(segs)
<1>1. Len(segs) \in Nat /\ DOMAIN segs = 1 .. Len(segs)
  BY SegTypes
<1>2. /\ out \in Seq(Segments) /\ Len(out) = k /\ DOMAIN out = 1 .. k
      /\ \A i \in 1 .. k : out[i] = segs[i]
  BY <1>1
<1>3. \A i \in DOMAIN out : i \in DOMAIN segs /\ out[i] = segs[i]
  BY <1>1, <1>2
<1>4. Ordered(out)
  BY <1>3 DEF Ordered
<1>5. Bytes(out) \subseteq Bytes(segs)
  <2>1. \A b : Has(out, b) => Has(segs, b)
    BY <1>3 DEF Has
  <2> QED
    BY <1>2, <2>1, BytesHas
<1> QED
  BY <1>1, <1>2, <1>4, <1>5

(* The program dies in FileData.                                           *)
LEMMA CrashKeeps ==
  ASSUME IInv, Crash
  PROVE  IInv'
<1>1. saving # NoPiece /\ Forget /\ UNCHANGED <<part, delivered>>
  BY DEF Crash
<1>2. AtWork /\ index \in Seq(Segments) /\ Ordered(index)
  BY <1>1 DEF IInv, Asleep, AtWork, Shape, TypeOK
<1>3. DeliveredComplete'
  BY <1>1 DEF IInv, DeliveredComplete
<1>4. part' \in Parts /\ delivered' \in [len : Nat, data : SUBSET Nat]
  BY <1>1 DEF IInv, TypeOK, Parts
<1>5. CASE UNCHANGED saved
  <2>1. DiskSound'
    BY <1>1, <1>5 DEF IInv, DiskSound, RestartSound, Recoverable, CanResume
  <2>2. saved'.exists \in BOOLEAN /\ saved'.segs \in Seq(Segments)
    BY <1>5 DEF IInv, TypeOK
  <2> QED
    BY <1>1, <1>3, <1>4, <2>1, <2>2, ForgetKeeps
<1>6. ASSUME NEW k \in 0 .. Len(index),
             saved' = [exists |-> TRUE, segs |-> SubSeq(index, 1, k)]
      PROVE  IInv'
  <2>1. saved'.exists \in BOOLEAN /\ saved'.segs = SubSeq(index, 1, k)
    BY <1>6
  <2>2. /\ saved'.segs \in Seq(Segments) /\ Ordered(saved'.segs)
        /\ Len(saved'.segs) <= Len(index) /\ Bytes(saved'.segs) \subseteq Bytes(index)
    BY <1>2, <2>1, Prefix
  <2>3. DiskSound'
    BY <1>1, <1>2, <2>2, IndexWritten
  <2> QED
    BY <1>1, <1>3, <1>4, <2>1, <2>2, <2>3, ForgetKeeps
<1> QED
  BY <1>5, <1>6 DEF Crash

(* Nothing happens.                                                        *)
LEMMA StutterKeeps == IInv /\ UNCHANGED vars => IInv'
<1> SUFFICES ASSUME IInv, UNCHANGED vars PROVE IInv'
  OBVIOUS
<1>1. UNCHANGED <<phase, fileLen, index, origin, sumBytes, pc, offset, retry, saving,
                  part, saved, delivered, starts, clicks>>
  BY DEF vars, memory, threads, disk, bounds
<1>2. TypeOK' /\ Asleep' /\ Shape' /\ Growing'
  BY <1>1 DEF IInv, TypeOK, Asleep, AtWork, Shape, Growing, Ahead
<1>3. DiskSound' /\ Solo' /\ IndexSound' /\ SavedHeld'
  BY <1>1 DEF IInv, DiskSound, RestartSound, Recoverable, CanResume, Solo, Tip,
              IndexSound, SavedHeld, Held, AtWork
<1>4. Counting' /\ DeliveredComplete' /\ Alive'
  BY <1>1 DEF IInv, Counting, DeliveredComplete, Alive
<1> QED
  BY <1>2, <1>3, <1>4 DEF IInv

(* Every step keeps the invariant.                                         *)
LEMMA StepKeeps == IInv /\ [Next]_vars => IInv'
<1> SUFFICES ASSUME IInv, [Next]_vars PROVE IInv'
  OBVIOUS
<1>1. CASE \E len \in {-1, FileLen} : Open(len)
  BY <1>1, ResumeKeeps, TruncateKeeps
<1>2. CASE CreateIndex \/ Allocate
  BY <1>2, CreateKeeps, AllocateKeeps
<1>3. ASSUME NEW t \in Ants, AntStep(t)
      PROVE  IInv'
  BY <1>3, GetTaskKeeps, FileDataKeeps, SaveIndexKeeps, QuitsKeeps DEF AntStep
<1>4. ASSUME NEW t \in Ants, AntTrouble(t)
      PROVE  IInv'
  BY <1>4, WriteFailsKeeps, FailsKeeps, CancelledKeeps, AddedKeeps DEF AntTrouble
<1>5. CASE Finish \/ Deliver \/ Stop \/ Crash
  BY <1>5, FinishKeeps, DeliverKeeps, StopKeeps, CrashKeeps
<1>6. CASE UNCHANGED vars
  BY <1>6, StutterKeeps
<1> QED
  BY <1>1, <1>2, <1>3, <1>4, <1>5, <1>6 DEF Next

(* The inductive invariant holds of every reachable state.                 *)
THEOREM Invariance == Spec => []IInv
BY InitIInv, StepKeeps, PTL DEF Spec
-----------------------------------------------------------------------------
(* A piece at the position of an ant, indexed or not.                      *)
Arrives(t, m, n) ==
  /\ Unlocked /\ pc[t] = "run" /\ m \in 0 .. n
  /\ offset[t] + n <= FileLen + MaxOverrun
  /\ Stored(part, offset[t], m, fileLen', part')
  /\ fileLen' \in Nat \cup {-1}
  /\ fileLen' # fileLen => fileLen = -1 /\ fileLen' = offset[t] + n
  /\ index' \in Seq(Segments)
  /\ Bytes(index') \subseteq Bytes(index) \cup offset[t] .. (offset[t] + m) - 1
  /\ \A b \in Bytes(index) : fileLen' = -1 \/ b < fileLen' => b \in Bytes(index')
  /\ UNCHANGED <<phase, saved, delivered>>

(* A piece that is indexed arrives.                                        *)
LEMMA FileDataArrives ==
  ASSUME IInv, NEW t \in Ants, NEW n \in PieceLens, NEW end \in BOOLEAN,
         FileData(t, n, end)
  PROVE  Arrives(t, n, n)
<1> DEFINE pos == offset[t]
           len == KnownLen(pos + n, end)
           w == WriteData(index, pos, n, len)
<1>1. /\ Unlocked /\ pc[t] = "run" /\ Deliverable(t, n, end)
      /\ fileLen' = len /\ part' = WritePart(part, pos, n, len)
      /\ index' = w.index /\ UNCHANGED <<phase, saved, delivered>>
  BY DEF FileData
<1>2. n \in Nat /\ n \in 0 .. n
  BY FileManagerAssumption
<1>3. /\ len \in Nat \cup {-1} /\ pos \in Nat
      /\ len # fileLen => fileLen = -1 /\ len = pos + n
      /\ Starts(index, len)
  BY <1>1, <1>2, Known
<1>4. Written(index, pos, pos + n, len, w)
  BY <1>1, <1>2, <1>3, FreeFacts, PieceWritten
<1>5. Stored(part, pos, n, len, part')
  <2>1. part \in Parts
    BY DEF IInv, TypeOK, Parts
  <2> QED
    BY <1>1, <1>2, <1>3, <2>1, PieceStored
<1>6. pos + n <= FileLen + MaxOverrun
  BY <1>1 DEF Deliverable
<1> HIDE DEF w, len, pos
<1>7. /\ w.index \in Seq(Segments)
      /\ Bytes(w.index) \subseteq Bytes(index) \cup pos .. (pos + n) - 1
      /\ \A b \in Bytes(index) : len = -1 \/ b < len => b \in Bytes(w.index)
  BY <1>4 DEF Written
<1> QED
  BY <1>1, <1>2, <1>3, <1>5, <1>6, <1>7 DEF Arrives, pos

(* So does the part of a piece that reached the disk.                      *)
LEMMA WriteFailsArrives ==
  ASSUME IInv, NEW t \in Ants, NEW n \in PieceLens, NEW end \in BOOLEAN,
         WriteFails(t, n, end)
  PROVE  \E k \in 0 .. n : Arrives(t, k, n)
<1> DEFINE pos == offset[t]
           len == KnownLen(pos + n, end)
<1>1. /\ Unlocked /\ pc[t] = "run" /\ Deliverable(t, n, end)
      /\ fileLen' = len
      /\ UNCHANGED <<phase, index, saved, delivered>>
  BY DEF WriteFails
<1>2. n \in Nat
  BY FileManagerAssumption
<1>3. PICK k \in 0 .. n : part' = WritePart(part, pos, k, fileLen')
  BY DEF WriteFails
<1>4. /\ len \in Nat \cup {-1} /\ pos \in Nat
      /\ len # fileLen => fileLen = -1 /\ len = pos + n
  BY <1>1, <1>2, Known
<1>5. Stored(part, pos, k, fileLen', part')
  <2>1. part \in Parts /\ k \in Nat
    BY <1>2 DEF IInv, TypeOK, Parts
  <2> QED
    BY <1>1, <1>3, <1>4, <2>1, PieceStored
<1>6. pos + n <= FileLen + MaxOverrun
  BY <1>1 DEF Deliverable
<1>7. index' = index /\ index \in Seq(Segments)
  BY <1>1, FreeFacts
<1> HIDE DEF len, pos
<1> QED
  BY <1>1, <1>4, <1>5, <1>6, <1>7 DEF Arrives, pos

(* A piece that arrives takes no byte away, and adds only its own.         *)
LEMMA ArrivesHeld ==
  ASSUME IInv, NEW t \in Ants, NEW n \in Nat, NEW m \in Nat, Arrives(t, m, n)
  PROVE  /\ Held \subseteq Held'
         /\ \E c \in 0 .. m :
              /\ part'.data = part.data \cup (offset[t] .. (offset[t] + c) - 1)
              /\ Held' \subseteq Held \cup (offset[t] .. (offset[t] + c) - 1)
<1> DEFINE pos == offset[t]
<1>1. pos \in Nat /\ fileLen \in Nat \cup {-1} /\ m <= n
  BY DEF IInv, TypeOK, Arrives
<1>2. Held \subseteq Held'
  <2> SUFFICES ASSUME NEW b \in Bytes(index), fileLen = -1 \/ b < fileLen
               PROVE  b \in Bytes(index') /\ (fileLen' = -1 \/ b < fileLen')
    BY DEF Held
  <2>1. fileLen' = -1 \/ b < fileLen'
    <3>1. CASE fileLen' = fileLen
      BY <3>1
    <3>2. CASE fileLen' # fileLen
      <4>1. fileLen = -1 /\ fileLen' = pos + n
        BY <3>2 DEF Arrives
      <4>2. Single(index) /\ pos = Reach(index) /\ index \in Seq(Segments)
        BY <4>1, WorkerTip, FreeFacts DEF Arrives
      <4>3. b \in 0 .. pos - 1
        BY <4>2, SingleBytes
      <4> QED
        BY <1>1, <4>1, <4>3
    <3> QED
      BY <3>1, <3>2
  <2> QED
    BY <2>1 DEF Arrives
<1>3. PICK c \in 0 .. m :
        /\ part'.data = part.data \cup (pos .. (pos + c) - 1)
        /\ \A b \in pos .. (pos + m) - 1 :
             fileLen' = -1 \/ b < fileLen' => b \in pos .. (pos + c) - 1
  BY DEF Arrives, Stored
<1>4. Held' \subseteq Held \cup (pos .. (pos + c) - 1)
  <2> SUFFICES ASSUME NEW b \in Bytes(index'), fileLen' = -1 \/ b < fileLen',
                      b \notin pos .. (pos + c) - 1
               PROVE  b \in Bytes(index) /\ (fileLen = -1 \/ b < fileLen)
    BY DEF Held
  <2>1. b \in Bytes(index)
    BY <1>3 DEF Arrives
  <2> QED
    BY <2>1 DEF Arrives
<1> QED
  BY <1>2, <1>3, <1>4

(* What a restart would resume from after a piece.                         *)
LEMMA ArrivesSafe ==
  ASSUME IInv, NEW t \in Ants, NEW n \in Nat, NEW m \in Nat, Arrives(t, m, n)
  PROVE  Recoverable' = Recoverable \/ Recoverable' \subseteq Held
<1>1. /\ Stored(part, offset[t], m, fileLen', part')
      /\ fileLen' \in Nat \cup {-1}
      /\ fileLen' # fileLen => fileLen = -1
      /\ saved' = saved /\ Unlocked
  BY DEF Arrives
<1>2. CASE part'.size = part.size
  BY <1>1, <1>2 DEF Stored, Recoverable, CanResume
<1>3. CASE ~CanResume(FileLen)'
  BY <1>3 DEF Recoverable
<1>4. CASE part'.size # part.size /\ CanResume(FileLen)'
  <2>1. part'.size = FileLen
    BY <1>4 DEF CanResume
  <2>2. fileLen' = -1 \/ FileLen <= fileLen'
    BY <1>1, <1>4, <2>1 DEF Stored
  <2>3. ASSUME NEW b \in Bytes(ReadIndex(saved.segs, FileLen))
        PROVE  b \in Held
    <3>1. b \in Nat /\ b < FileLen /\ FileLen \in Nat
      BY FileManagerAssumption, ReadSaved DEF IInv
    <3>2. fileLen \in Nat \cup {-1}
      BY DEF IInv, TypeOK
    <3>3. fileLen = -1 \/ b < fileLen
      BY <1>1, <2>2, <3>1, <3>2
    <3>4. AtWork
      BY <1>1, FreeFacts
    <3> QED
      BY <3>3, <3>4 DEF IInv, SavedHeld
  <2> QED
    BY <1>1, <2>3 DEF Recoverable
<1> QED
  BY <1>2, <1>3, <1>4

(* What a restart would resume from once the index, or its first segments, *)
(* are on disk.                                                            *)
LEMMA WrittenSafe ==
  ASSUME IInv, AtWork, NEW segs \in Seq(Segments), Bytes(segs) \subseteq Bytes(index),
         saved'.segs = segs, UNCHANGED part
  PROVE  Recoverable' \subseteq Held
<1> SUFFICES ASSUME CanResume(FileLen)', NEW b \in Bytes(ReadIndex(segs, FileLen))
             PROVE  b \in Held
  BY DEF Recoverable
<1>1. part.size = FileLen
  BY DEF CanResume
<1>2. /\ FileLen \in Nat /\ fileLen \in Nat \cup {-1} /\ index \in Seq(Segments)
  BY FileManagerAssumption DEF IInv, TypeOK
<1> DEFINE out == ReadIndex(segs, FileLen)
<1>3. /\ out \in Seq(Segments) /\ Bytes(out) \subseteq Bytes(segs)
      /\ \A k \in DOMAIN out : out[k].end <= FileLen
  BY <1>2, ReadKeeps
<1>4. b \in Bytes(out)
  OBVIOUS
<1> HIDE DEF out
<1>5. b \in Nat /\ b < FileLen
  <2>1. Has(out, b) /\ b \in Nat
    BY <1>3, <1>4, BytesHas
  <2>2. PICK k \in DOMAIN out : out[k].start <= b /\ b < out[k].end
    BY <2>1 DEF Has
  <2>3. out[k].end \in Nat /\ out[k].end <= FileLen
    BY <1>3, SegTypes
  <2> QED
    BY <1>2, <2>1, <2>2, <2>3
<1>6. b \in Bytes(index)
  BY <1>3, <1>4
<1>7. CASE fileLen = -1 \/ FileLen <= fileLen
  BY <1>2, <1>5, <1>6, <1>7 DEF Held
<1>8. CASE fileLen # -1 /\ fileLen < FileLen
  <2>1. Single(index) /\ Reach(index) <= fileLen
    BY <1>1, <1>8 DEF IInv, Growing, Ahead
  <2>2. b \in 0 .. Reach(index) - 1 /\ Reach(index) \in Nat
    BY <1>2, <1>6, <2>1, SingleBytes, SingleLen
  <2>3. b < fileLen
    BY <1>2, <1>5, <2>1, <2>2
  <2> QED
    BY <1>6, <2>3 DEF Held
<1> QED
  BY <1>2, <1>7, <1>8

(* Opening a task does not let a byte slip in; before the first index is   *)
(* written a restart finds nothing.                                        *)
LEMMA EmptySaved ==
  IInv => /\ part.size = 0 => Recoverable = {}
          /\ saved.segs = << >> => Recoverable = {}
<1> SUFFICES ASSUME IInv
             PROVE  /\ part.size = 0 => Recoverable = {}
                    /\ saved.segs = << >> => Recoverable = {}
  OBVIOUS
<1>1. ASSUME part.size = 0 PROVE Recoverable = {}
  <2>1. CASE FileLen = 0
    <3>1. \A b \in Bytes(ReadIndex(saved.segs, FileLen)) : b \in Nat /\ b < FileLen
      BY ReadSaved DEF IInv
    <3>2. Bytes(ReadIndex(saved.segs, FileLen)) = {}
      BY <2>1, <3>1
    <3> QED
      BY <3>2 DEF Recoverable
  <2>2. CASE FileLen # 0
    BY <1>1, <2>2 DEF Recoverable, CanResume
  <2> QED
    BY <2>1, <2>2
<1>2. ASSUME saved.segs = << >> PROVE Recoverable = {}
  <2>1. Bytes(ReadIndex(<< >>, FileLen)) \subseteq Bytes(<< >>)
    <3>1. FileLen \in Nat \cup {-1}
      BY FileManagerAssumption
    <3> QED
      BY <3>1, EmptyIndex, ReadKeeps
  <2> QED
    BY <1>2, <2>1, EmptyIndex DEF Recoverable
<1> QED
  BY <1>1, <1>2

(* The same, after a step.                                                 *)
LEMMA EmptySavedNext ==
  (IInv => /\ part.size = 0 => Recoverable = {}
           /\ saved.segs = << >> => Recoverable = {})'
BY EmptySaved, PTL
-----------------------------------------------------------------------------
(* No byte is claimed that was not written (BytesTrue): whatever           *)
(* interleaving of ants extends and merges segments, wherever the program  *)
(* dies in truncating, allocating or rewriting the files, and however      *)
(* often a task is resumed.                                                *)
THEOREM NothingUntrue == Spec => []BytesTrue
<1>1. IInv => BytesTrue
  BY DEF IInv, BytesTrue, DiskSound
<1> QED
  BY <1>1, Invariance, PTL

(* The segments stay ordered and apart, and the count of received bytes,   *)
(* which FileData adjusts piece by piece, is their sum (IndexRight).       *)
THEOREM IndexStaysRight == Spec => []IndexRight
<1>1. IInv => IndexRight
  BY DEF IInv, Shape, IndexRight, IndexOrdered, Counting, BytesCounted
<1> QED
  BY <1>1, Invariance, PTL

(* The index never holds more segments than ants and one more              *)
(* (IndexBounded): the tables of 20 entries it is copied to suffice.       *)
THEOREM IndexStaysSmall == Spec => []IndexBounded
<1>1. IInv => IndexBounded
  BY DEF IInv, Shape, FewSegments, IndexBounded
<1> QED
  BY <1>1, Invariance, PTL

(* Steps of the ants that only rearrange the segments.                     *)
LEMMA Rearranges ==
  ASSUME IInv, NEW t \in Ants, AntGetTask(t) \/ AntQuits(t) \/ AntCancelled(t)
  PROVE  Bytes(index') = Bytes(index)
<1>1. CASE AntGetTask(t)
  <2> DEFINE task == GetTask(index, t, fileLen)
  <2>1. Unlocked /\ index' = task.index
    BY <1>1 DEF AntGetTask
  <2>2. Given(index, t, fileLen, task)
    BY <2>1, FreeFacts, TaskGiven
  <2> HIDE DEF task
  <2> QED
    BY <2>1, <2>2 DEF Given
<1>2. CASE AntQuits(t) \/ AntCancelled(t)
  <2>1. Unlocked /\ index' = ReleaseIndex(t)
    BY <1>2 DEF AntQuits, AntCancelled
  <2>2. Rearranged(index, ReleaseIndex(t))
    BY <2>1, FreeFacts, TidyKeeps DEF ReleaseIndex
  <2> QED
    BY <2>1, <2>2 DEF Rearranged
<1> QED
  BY <1>1, <1>2

(* No step of a task that is open takes a byte out of the index.           *)
LEMMA StepHolds ==
  ASSUME IInv, [Next]_vars, phase = "up", phase' = "up"
  PROVE  Held \subseteq Held'
<1>1. ASSUME NEW t \in Ants, AntStep(t)
      PROVE  Held \subseteq Held'
  <2>1. CASE AntGetTask(t) \/ AntQuits(t)
    <3>1. Bytes(index') = Bytes(index)
      BY <2>1, Rearranges
    <3>2. fileLen' = fileLen
      BY <2>1 DEF AntGetTask, AntQuits
    <3> QED
      BY <3>1, <3>2 DEF Held
  <2>2. ASSUME NEW n \in PieceLens, NEW end \in BOOLEAN, FileData(t, n, end)
        PROVE  Held \subseteq Held'
    <3>1. n \in Nat
      BY FileManagerAssumption
    <3> QED
      BY <2>2, <3>1, FileDataArrives, ArrivesHeld
  <2>3. ASSUME NEW swap \in BOOLEAN, SaveIndex(t, swap)
        PROVE  Held \subseteq Held'
    BY <2>3 DEF SaveIndex, Held
  <2> QED
    BY <1>1, <2>1, <2>2, <2>3 DEF AntStep
<1>2. ASSUME NEW t \in Ants, AntTrouble(t)
      PROVE  Held \subseteq Held'
  <2>1. ASSUME NEW n \in PieceLens, NEW end \in BOOLEAN, WriteFails(t, n, end)
        PROVE  Held \subseteq Held'
    <3>1. n \in Nat
      BY FileManagerAssumption
    <3>2. PICK k \in 0 .. n : Arrives(t, k, n)
      BY <2>1, WriteFailsArrives
    <3>3. k \in Nat
      BY <3>1
    <3> QED
      BY <3>1, <3>2, <3>3, ArrivesHeld
  <2>2. CASE AntCancelled(t)
    <3>1. Bytes(index') = Bytes(index)
      BY <2>2, Rearranges
    <3>2. fileLen' = fileLen
      BY <2>2 DEF AntCancelled
    <3> QED
      BY <3>1, <3>2 DEF Held
  <2>3. CASE SessionFails(t) \/ AntAdded(t)
    BY <2>3 DEF SessionFails, AntAdded, memory, Held
  <2> QED
    BY <1>2, <2>1, <2>2, <2>3 DEF AntTrouble
<1>3. CASE \E len \in {-1, FileLen} : Open(len)
  BY <1>3 DEF Open
<1>4. CASE CreateIndex \/ Allocate
  BY <1>4 DEF CreateIndex, Allocate
<1>5. CASE Finish \/ Deliver \/ Stop \/ Crash
  BY <1>5 DEF Finish, Deliver, Stop, Crash, Forget
<1>6. CASE UNCHANGED vars
  BY <1>6 DEF vars, memory, Held
<1> QED
  BY <1>1, <1>2, <1>3, <1>4, <1>5, <1>6 DEF Next

(* While a task is open no byte it holds is lost (NothingLost), though     *)
(* pieces are merged, cut at the end of the file and indexed by whoever    *)
(* ends there.                                                             *)
THEOREM NothingIsLost == Spec => NothingLost
<1>1. IInv /\ [Next]_vars => (phase = "up" /\ phase' = "up" => Held \subseteq Held')
  BY StepHolds
<1> QED
  BY <1>1, Invariance, PTL DEF Spec, NothingLost
-----------------------------------------------------------------------------
(* Nothing is left to fetch.                                               *)
Finished(segs, len) == len = 0 \/ (Single(segs) /\ Reach(segs) = len)

(* A segment is marked by an ant that extends it or is about to ask for a  *)
(* position, or by one that used up its retries.                           *)
Marked ==
  fileLen # 0 =>
    \A i \in DOMAIN index : index[i].mark # NoAnt =>
      \/ pc[index[i].mark] \in {"new", "run"}
      \/ retry[index[i].mark] = -1

(* While no ant failed, a task that is not finished has an ant at work.    *)
Attended ==
  AtWork /\ clicks = 0 /\ (\A t \in Ants : retry[t] # -1) =>
    \/ Finished(index, fileLen)
    \/ phase = "up" /\ \E t \in Ants : pc[t] \in {"new", "run"}

(* The inductive invariant of ErrorHasCause.                               *)
EInv == IInv /\ Marked /\ Attended

(* IsTaskFinish is that nothing is left to fetch.                          *)
LEMMA FinishedFully ==
  ASSUME index \in Seq(Segments), fileLen \in Nat \cup {-1}, Finished(index, fileLen)
  PROVE  IsTaskFinish
<1>1. CASE fileLen = 0
  BY <1>1 DEF IsTaskFinish
<1>2. CASE fileLen # 0
  <2>1. Single(index) /\ Reach(index) = fileLen
    BY <1>2 DEF Finished
  <2>2. index # << >>
    BY <1>2, <2>1 DEF Reach
  <2>3. Complete(index, fileLen)
    BY <2>1, <2>2 DEF Single, Reach, Complete
  <2> QED
    BY <2>3 DEF IsTaskFinish
<1> QED
  BY <1>1, <1>2

(* A finished index, or one in which another ant marks a segment, is left  *)
(* as it is.                                                               *)
TurnedAway(ix, len, r) ==
  /\ r.index = ix
  /\ Finished(ix, len) \/ \E k \in DOMAIN ix : ix[k].mark # NoAnt

(* That is all PlaceAnt refuses a position in.                             *)
LEMMA PlaceRefused ==
  ASSUME NEW ix \in Seq(Segments), Ordered(ix), NEW t \in Ants,
         NEW len \in Nat \cup {-1}, Starts(ix, len), len = -1 => Len(ix) <= 1,
         NEW r, r = PlaceAnt(ix, t, len), r.ok = FALSE
  PROVE  TurnedAway(ix, len, r)
<1> USE DEF TurnedAway
<1> DEFINE n == Len(ix)
           None == [ok |-> FALSE, pos |-> 0, index |-> ix]
           At(pos) == [ok |-> TRUE, pos |-> pos, index |-> AddNewIndex(ix, t, pos)]
           Resume(i) ==
             [ok |-> TRUE, pos |-> ix[i].end, index |-> [ix EXCEPT ![i].mark = t]]
           gap == LargestGap(ix, len)
<1>1. /\ n \in Nat /\ DOMAIN ix = 1 .. n /\ (n = 0 <=> ix = << >>)
      /\ \A i \in DOMAIN ix : /\ ix[i].start \in Nat /\ ix[i].end \in Nat
                              /\ ix[i].start <= ix[i].end /\ i \in Nat
  BY SegTypes DEF Ordered
<1>2. \A pos : At(pos).ok = TRUE
  OBVIOUS
<1>3. \A i : Resume(i).ok = TRUE
  OBVIOUS
<1>4. None.index = ix
  OBVIOUS
<1>5. CASE ix = << >>
  BY <1>2, <1>5 DEF PlaceAnt
<1>6. CASE n = 1
  <2>1. ix # << >> /\ DOMAIN ix = {1} /\ 1 \in DOMAIN ix
    BY <1>1, <1>6
  <2>2. r = IF Complete(ix, len) THEN None
            ELSE IF ix[1].start # 0 THEN At(0)
            ELSE IF ix[1].mark = NoAnt THEN Resume(1)
            ELSE IF Splittable(len - ix[1].end) THEN At(Middle(ix[1].end, len))
            ELSE None
    BY <1>6, <2>1 DEF PlaceAnt
  <2> HIDE DEF At, Resume, None
  <2>3. r = None /\ (Complete(ix, len) \/ ix[1].mark # NoAnt)
    BY <1>2, <1>3, <2>2
  <2>4. Complete(ix, len) => Finished(ix, len)
    BY <2>1 DEF Complete, Finished, Single, Reach
  <2> QED
    BY <1>4, <2>1, <2>3, <2>4
<1>7. CASE n > 1
  <2>1. ix # << >> /\ n # 1 /\ len \in Nat
    BY <1>1, <1>7
  <2>2. r = IF Resumable(ix, len) # {} THEN Resume(Min(Resumable(ix, len)))
            ELSE IF Splittable(gap.size)
            THEN At(Middle(gap.pos, gap.pos + gap.size))
            ELSE None
    BY <1>7, <2>1 DEF PlaceAnt
  <2> HIDE DEF At, Resume, None, gap
  <2>3. r = None /\ Resumable(ix, len) = {}
    BY <1>2, <1>3, <2>2
  <2>4. 1 \in DOMAIN ix /\ 2 \in DOMAIN ix
    BY <1>1, <1>7
  <2>5. ix[1].end < ix[2].start /\ ix[2].start <= len
    BY <2>1, <2>4 DEF Ordered, Starts
  <2>6. ix[1].end < len
    BY <1>1, <2>1, <2>4, <2>5
  <2>7. ix[1].mark # NoAnt
    BY <2>3, <2>4, <2>6 DEF Resumable
  <2> QED
    BY <1>4, <2>3, <2>4, <2>7
<1> QED
  BY <1>1, <1>5, <1>6, <1>7

(* An ant that GetTask refuses marks no segment any more, and finds a      *)
(* finished file or a segment of another ant.                              *)
LEMMA Refused ==
  ASSUME NEW segs \in Seq(Segments), Ordered(segs), OneMark(segs), NEW t \in Ants,
         NEW len \in Nat \cup {-1}, Starts(segs, len), len = -1 => Len(segs) <= 1,
         len # 0, NEW r, r = GetTask(segs, t, len), r.ok = FALSE
  PROVE  /\ \A k \in DOMAIN r.index : r.index[k].mark # t
         /\ \/ Finished(r.index, len)
            \/ \E k \in DOMAIN segs : segs[k].mark \notin {NoAnt, t}
<1> DEFINE ix == Tidy(segs, t)
<1>1. r = PlaceAnt(ix, t, len)
  BY DEF GetTask, Tidy
<1>2. Rearranged(segs, ix) /\ \A i \in DOMAIN ix : ix[i].mark # t
  BY TidyKeeps
<1> HIDE DEF ix
<1>3. ix \in Seq(Segments) /\ Ordered(ix) /\ Len(ix) <= Len(segs) /\ MarksFrom(ix, segs)
  BY <1>2 DEF Rearranged
<1>4. Starts(ix, len)
  BY <1>2 DEF Rearranged, Starts
<1>5. len = -1 => Len(ix) <= 1
  <2>1. Len(ix) \in Nat /\ Len(segs) \in Nat
    BY <1>3
  <2> QED
    BY <1>3, <2>1
<1>6. /\ r.index = ix
      /\ Finished(ix, len) \/ \E k \in DOMAIN ix : ix[k].mark # NoAnt
  <2>1. TurnedAway(ix, len, r)
    BY <1>1, <1>3, <1>4, <1>5, PlaceRefused
  <2> QED
    BY <2>1 DEF TurnedAway
<1>7. ASSUME NEW k \in DOMAIN ix, ix[k].mark # NoAnt
      PROVE  \E j \in DOMAIN segs : segs[j].mark \notin {NoAnt, t}
  <2>1. PICK j \in DOMAIN segs : segs[j].mark = ix[k].mark
    BY <1>3, <1>7 DEF MarksFrom
  <2> QED
    BY <1>2, <1>7, <2>1
<1> QED
  BY <1>2, <1>6, <1>7

(* What an ant takes from a finished index, or releases, leaves it so.     *)
LEMMA FinishedStays ==
  ASSUME IInv, Unlocked, NEW t \in Ants, Finished(index, fileLen)
  PROVE  /\ Finished(GetTask(index, t, fileLen).index, fileLen)
         /\ Finished(ReleaseIndex(t), fileLen)
<1>1. CASE fileLen = 0
  BY <1>1 DEF Finished
<1>2. CASE fileLen # 0
  <2>1. Single(index) /\ Reach(index) = fileLen
    BY <1>2 DEF Finished
  <2>2. index \in Seq(Segments) /\ Ordered(index) /\ fileLen \in Nat \cup {-1}
    BY FreeFacts
  <2>3. Reach(index) \in Nat /\ RECVBUF \in Nat /\ RECVBUF >= 4
    BY <2>1, <2>2, SingleLen, FileManagerAssumption
  <2>4. fileLen - Reach(index) < RECVBUF
    BY <2>1, <2>3
  <2>5. SoloGiven(index, t, GetTask(index, t, fileLen))
    BY <2>1, <2>2, <2>4, SingleGiven
  <2>6. Finished(GetTask(index, t, fileLen).index, fileLen)
    BY <2>1, <2>5 DEF SoloGiven, Finished
  <2>7. Single(ReleaseIndex(t)) /\ Reach(ReleaseIndex(t)) = Reach(index)
    BY <2>1, <2>2, SingleReleased DEF ReleaseIndex
  <2> QED
    BY <2>1, <2>6, <2>7 DEF Finished
<1> QED
  BY <1>1, <1>2

(* A mark of the index is an ant.                                          *)
LEMMA Markers ==
  ASSUME IInv
  PROVE  \A i \in DOMAIN index : index[i].mark \in Ants \cup {NoAnt}
<1>1. index \in Seq(Segments)
  BY DEF IInv, TypeOK
<1> QED
  BY <1>1, SegTypes

(* Open with an earlier run's files: nobody marks a segment, and an ant    *)
(* starts.                                                                 *)
LEMMA OpenAttends ==
  ASSUME EInv, NEW len \in {-1, FileLen}, Open(len)
  PROVE  Marked' /\ Attended'
<1> USE DEF EInv
<1>1. CASE CanResume(len)
  <2>1. len = FileLen
    BY <1>1, FileManagerAssumption DEF CanResume
  <2>2. index' = ReadIndex(saved.segs, FileLen) /\ StartAnts(len)
    BY <1>1, <2>1 DEF Open
  <2>3. \A k \in DOMAIN index' : index'[k].mark = NoAnt
    BY <2>2, ReadSaved DEF IInv
  <2>4. Marked'
    BY <2>3 DEF Marked
  <2>5. phase' = "up" /\ \E t \in Ants : pc'[t] = "new"
    BY <2>2 DEF StartAnts
  <2> QED
    BY <2>4, <2>5 DEF Attended
<1>2. CASE ~CanResume(len)
  <2>1. phase = "down" /\ phase' = "truncated" /\ index' = index
    BY <1>2 DEF Open
  <2>2. index' = << >>
    BY <2>1 DEF IInv, Asleep, AtWork
  <2> QED
    BY <2>1, <2>2, EmptyIndex DEF Marked, Attended, AtWork
<1> QED
  BY <1>1, <1>2

(* Before the ants start.                                                  *)
LEMMA AllocateAttends ==
  ASSUME EInv, CreateIndex \/ Allocate
  PROVE  Marked' /\ Attended'
<1> USE DEF EInv
<1>1. index' = index /\ phase \in {"truncated", "indexed"}
  BY DEF CreateIndex, Allocate, memory
<1>2. index' = << >>
  BY <1>1 DEF IInv, Asleep, AtWork
<1>3. Marked'
  BY <1>2, EmptyIndex DEF Marked
<1>4. CASE CreateIndex
  BY <1>3, <1>4 DEF CreateIndex, Attended, AtWork
<1>5. CASE Allocate
  <2>1. phase' = "up" /\ \E t \in Ants : pc'[t] = "new"
    BY <1>5 DEF Allocate, StartAnts
  <2> QED
    BY <1>3, <2>1 DEF Attended
<1> QED
  BY <1>4, <1>5

(* An ant asks for a position: it is given one, or quits and leaves the    *)
(* rest to the ant whose segment is in its way.                            *)
LEMMA GetTaskAttends ==
  ASSUME EInv, NEW t \in Ants, AntGetTask(t)
  PROVE  Marked' /\ Attended'
<1> USE DEF EInv
<1> DEFINE task == GetTask(index, t, fileLen)
<1>1. /\ Unlocked /\ pc[t] = "new" /\ index' = task.index
      /\ pc' = [pc EXCEPT ![t] = IF task.ok THEN "run" ELSE "quit"]
      /\ UNCHANGED <<phase, fileLen, retry, clicks>>
  BY DEF AntGetTask, bounds
<1>2. Given(index, t, fileLen, task)
  BY <1>1, FreeFacts, TaskGiven
<1>3. fileLen # 0 /\ task.ok = FALSE =>
        /\ \A k \in DOMAIN task.index : task.index[k].mark # t
        /\ \/ Finished(task.index, fileLen)
           \/ \E k \in DOMAIN index : index[k].mark \notin {NoAnt, t}
  BY <1>1, FreeFacts, Refused
<1>4. Finished(index, fileLen) => Finished(task.index, fileLen)
  BY <1>1, FinishedStays
<1> HIDE DEF task
<1>5. pc \in [Ants -> {"off", "new", "run", "quit"}]
  BY DEF IInv, TypeOK
<1>6. \A u \in Ants : u # t => pc'[u] = pc[u]
  BY <1>1, <1>5
<1>7. (task.ok = TRUE /\ pc'[t] = "run") \/ task.ok = FALSE
  <2>1. task.ok = TRUE \/ task.ok = FALSE
    BY <1>2, Zenon DEF Given
  <2>2. pc'[t] = IF task.ok THEN "run" ELSE "quit"
    BY <1>1, <1>5
  <2>3. task.ok = TRUE => pc'[t] = "run"
    BY <2>2, Zenon
  <2> QED
    BY <2>1, <2>3, Zenon
<1>8. Marked'
  <2> SUFFICES ASSUME fileLen # 0, NEW k \in DOMAIN index', index'[k].mark # NoAnt
               PROVE  \/ pc'[index'[k].mark] \in {"new", "run"}
                      \/ retry'[index'[k].mark] = -1
    BY <1>1 DEF Marked
  <2>1. CASE index'[k].mark = t
    BY <1>1, <1>3, <1>7, <2>1
  <2>2. CASE index'[k].mark # t
    <3>1. PICK j \in DOMAIN index : index[j].mark = index'[k].mark
      BY <1>1, <1>2, <2>2 DEF Given
    <3>2. index[j].mark \in Ants
      BY <3>1, Markers
    <3>3. pc[index[j].mark] \in {"new", "run"} \/ retry[index[j].mark] = -1
      BY <3>1 DEF Marked
    <3> QED
      BY <1>1, <1>6, <2>2, <3>1, <3>2, <3>3
  <2> QED
    BY <2>1, <2>2
<1>9. Attended'
  <2> SUFFICES ASSUME \A u \in Ants : retry[u] # -1, ~Finished(index', fileLen)
               PROVE  \E u \in Ants : pc'[u] \in {"new", "run"}
    BY <1>1 DEF Attended, Unlocked
  <2>1. CASE pc'[t] = "run"
    BY <2>1
  <2>2. CASE task.ok = FALSE
    <3>1. fileLen # 0
      BY DEF Finished
    <3>2. PICK k \in DOMAIN index : index[k].mark \notin {NoAnt, t}
      BY <1>1, <1>3, <2>2, <3>1
    <3>3. index[k].mark \in Ants
      BY <3>2, Markers
    <3>4. pc[index[k].mark] \in {"new", "run"}
      BY <3>1, <3>2, <3>3 DEF Marked
    <3> QED
      BY <1>6, <3>2, <3>3, <3>4
  <2> QED
    BY <1>7, <2>1, <2>2
<1> QED
  BY <1>8, <1>9

(* An ant that quits has nothing to do with who is still at work.          *)
LEMMA ReleaseAttends ==
  ASSUME EInv, NEW t \in Ants, AntQuits(t) \/ AntCancelled(t)
  PROVE  Marked' /\ Attended'
<1> USE DEF EInv
<1>1. /\ Unlocked /\ index' = ReleaseIndex(t) /\ pc' = [pc EXCEPT ![t] = "off"]
      /\ UNCHANGED <<phase, fileLen, retry>>
  BY DEF AntQuits, AntCancelled, bounds
<1>2. /\ MarksFrom(index', index)
      /\ \A k \in DOMAIN index' : index'[k].mark # t
  <2>1. /\ Rearranged(index, ReleaseIndex(t)) /\ ReleaseIndex(t) = Tidy(index, t)
        /\ \A i \in DOMAIN Tidy(index, t) : Tidy(index, t)[i].mark # t
    BY <1>1, FreeFacts, TidyKeeps DEF ReleaseIndex
  <2> QED
    BY <1>1, <2>1 DEF Rearranged
<1>3. pc \in [Ants -> {"off", "new", "run", "quit"}] /\ clicks \in Nat
  BY FileManagerAssumption DEF IInv, TypeOK
<1>4. \A u \in Ants : u # t => pc'[u] = pc[u]
  BY <1>1, <1>3
<1>5. Marked'
  <2> SUFFICES ASSUME fileLen # 0, NEW k \in DOMAIN index', index'[k].mark # NoAnt
               PROVE  \/ pc'[index'[k].mark] \in {"new", "run"}
                      \/ retry'[index'[k].mark] = -1
    BY <1>1 DEF Marked
  <2>1. PICK j \in DOMAIN index : index[j].mark = index'[k].mark
    BY <1>2 DEF MarksFrom
  <2>2. index[j].mark \in Ants /\ index[j].mark # t
    BY <1>2, <2>1, Markers
  <2>3. pc[index[j].mark] \in {"new", "run"} \/ retry[index[j].mark] = -1
    BY <2>1 DEF Marked
  <2> QED
    BY <1>1, <1>4, <2>1, <2>2, <2>3
<1>6. CASE AntQuits(t)
  <2>1. pc[t] = "quit" /\ clicks' = clicks
    BY <1>6 DEF AntQuits, bounds
  <2>2. Finished(index, fileLen) => Finished(index', fileLen)
    BY <1>1, FinishedStays
  <2>3. Attended'
    BY <1>1, <1>4, <2>1, <2>2 DEF Attended, AtWork
  <2> QED
    BY <1>5, <2>3
<1>7. CASE AntCancelled(t)
  <2>1. clicks' = clicks + 1
    BY <1>7 DEF AntCancelled
  <2>2. clicks' # 0
    BY <1>3, <2>1
  <2> QED
    BY <1>5, <2>2 DEF Attended
<1> QED
  BY <1>6, <1>7

(* An ant that runs keeps at it while it stores a piece.                   *)
LEMMA PieceAttends ==
  ASSUME EInv, NEW t \in Ants, NEW n \in PieceLens, NEW end \in BOOLEAN,
         FileData(t, n, end) \/ WriteFails(t, n, end)
  PROVE  Marked' /\ Attended'
<1> USE DEF EInv
<1> DEFINE len == KnownLen(offset[t] + n, end)
           w == WriteData(index, offset[t], n, len)
<1>1. /\ Unlocked /\ pc[t] = "run" /\ Deliverable(t, n, end) /\ fileLen' = len
      /\ (index' = w.index \/ index' = index)
      /\ UNCHANGED <<phase, pc, retry>>
  BY DEF FileData, WriteFails, threads
<1>2. n \in Nat
  BY FileManagerAssumption
<1>3. /\ len \in Nat \cup {-1} /\ offset[t] \in Nat /\ Starts(index, len)
      /\ len # fileLen => fileLen = -1
  BY <1>1, <1>2, Known
<1>4. Written(index, offset[t], offset[t] + n, len, w)
  BY <1>1, <1>2, <1>3, FreeFacts, PieceWritten
<1> HIDE DEF w, len
<1>5. \A k \in DOMAIN index' : index'[k].mark # NoAnt =>
        \E j \in DOMAIN index : index[j].mark = index'[k].mark
  <2>1. MarksReach(w.index, index, len)
    BY <1>4 DEF Written
  <2> QED
    BY <1>1, <2>1 DEF MarksReach
<1>6. fileLen' # 0 => fileLen # 0
  BY <1>1, <1>3
<1>7. Marked'
  BY <1>1, <1>5, <1>6 DEF Marked
<1>8. phase' = "up" /\ pc'[t] = "run"
  BY <1>1 DEF Unlocked
<1> QED
  BY <1>7, <1>8 DEF Attended

(* The rest of FileData leaves the ant at work.                            *)
LEMMA SaveAttends ==
  ASSUME EInv, NEW t \in Ants, NEW swap \in BOOLEAN, SaveIndex(t, swap)
  PROVE  Marked' /\ Attended'
<1> USE DEF EInv
<1>1. /\ phase = "up" /\ saving.ant = t
      /\ (pc' = pc \/ pc' = [pc EXCEPT ![t] = "new"])
      /\ UNCHANGED <<phase, fileLen, index, retry, clicks>>
  BY DEF SaveIndex, bounds
<1>2. pc \in [Ants -> {"off", "new", "run", "quit"}] /\ pc[t] = "run"
  BY <1>1, FileManagerAssumption DEF IInv, TypeOK, Asleep, NoPiece
<1>3. /\ pc'[t] \in {"new", "run"}
      /\ \A u \in Ants : pc[u] \in {"new", "run"} => pc'[u] \in {"new", "run"}
  BY <1>1, <1>2
<1>4. Marked'
  BY <1>1, <1>3, Markers DEF Marked
<1> QED
  BY <1>1, <1>3, <1>4 DEF Attended

(* A session that fails leaves the ant at work or without retries; an ant  *)
(* that is added is a click.                                               *)
LEMMA TroubleAttends ==
  ASSUME EInv, NEW t \in Ants, SessionFails(t) \/ AntAdded(t)
  PROVE  Marked' /\ Attended'
<1> USE DEF EInv
<1>1. /\ pc \in [Ants -> {"off", "new", "run", "quit"}]
      /\ retry \in [Ants -> -1 .. Retries] /\ clicks \in Nat
  BY FileManagerAssumption DEF IInv, TypeOK
<1>2. CASE SessionFails(t)
  <2>1. Unlocked /\ UNCHANGED <<phase, fileLen, index, clicks>>
    BY <1>2 DEF SessionFails, memory, bounds
  <2>2. PICK cost \in {1, 3, Retries + 1} :
          LET left == IF retry[t] >= cost THEN retry[t] - cost ELSE -1
          IN /\ retry' = [retry EXCEPT ![t] = left]
             /\ pc' = [pc EXCEPT ![t] = IF left = -1 THEN "quit" ELSE "new"]
    BY <1>2 DEF SessionFails
  <2>3. /\ \A u \in Ants : u # t => pc'[u] = pc[u] /\ retry'[u] = retry[u]
        /\ (pc'[t] = "new" \/ retry'[t] = -1)
    BY <1>1, <2>2
  <2>4. Marked'
    BY <2>1, <2>3, Markers DEF Marked
  <2>5. Attended'
    BY <2>1, <2>3 DEF Attended, Unlocked
  <2> QED
    BY <2>4, <2>5
<1>3. CASE AntAdded(t)
  <2>1. /\ clicks' = clicks + 1 /\ pc' = [pc EXCEPT ![t] = "new"]
        /\ retry' = [retry EXCEPT ![t] = Retries]
        /\ UNCHANGED <<phase, fileLen, index>>
    BY <1>3 DEF AntAdded, memory
  <2>2. /\ \A u \in Ants : u # t => pc'[u] = pc[u] /\ retry'[u] = retry[u]
        /\ pc'[t] = "new"
    BY <1>1, <2>1
  <2>3. Marked'
    BY <2>1, <2>2, Markers DEF Marked
  <2>4. clicks' # 0
    BY <1>1, <2>1
  <2> QED
    BY <2>3, <2>4 DEF Attended
<1> QED
  BY <1>2, <1>3

(* The last ant has quit.                                                  *)
LEMMA FinishAttends ==
  ASSUME EInv, Finish
  PROVE  Marked' /\ Attended'
<1>1. /\ Unlocked /\ \A t \in Ants : pc[t] = "off"
      /\ UNCHANGED <<fileLen, index, pc, retry, clicks>>
  BY DEF Finish, memory, threads, bounds
<1>2. Marked'
  BY <1>1 DEF EInv, Marked
<1>3. AtWork
  BY <1>1 DEF AtWork, Unlocked
<1>4. Attended'
  BY <1>1, <1>3 DEF EInv, Attended
<1> QED
  BY <1>2, <1>4

(* Every step keeps the invariant.                                         *)
LEMMA StepAttends == EInv /\ [Next]_vars => EInv'
<1> SUFFICES ASSUME EInv, [Next]_vars PROVE Marked' /\ Attended'
  BY StepKeeps DEF EInv
<1>1. CASE \E len \in {-1, FileLen} : Open(len)
  BY <1>1, OpenAttends
<1>2. CASE CreateIndex \/ Allocate
  BY <1>2, AllocateAttends
<1>3. ASSUME NEW t \in Ants, AntStep(t) \/ AntTrouble(t)
      PROVE  Marked' /\ Attended'
  BY <1>3, GetTaskAttends, PieceAttends, SaveAttends, ReleaseAttends, TroubleAttends
     DEF AntStep, AntTrouble
<1>4. CASE Finish
  BY <1>4, FinishAttends
<1>5. CASE Deliver \/ Stop \/ Crash
  <2>1. phase' = "down" /\ index' = << >>
    BY <1>5 DEF Deliver, Stop, Crash, Forget
  <2> QED
    BY <2>1, EmptyIndex DEF Marked, Attended, AtWork
<1>6. CASE UNCHANGED vars
  BY <1>6 DEF EInv, Marked, Attended, AtWork, vars, memory, threads, bounds
<1> QED
  BY <1>1, <1>2, <1>3, <1>4, <1>5, <1>6 DEF Next

(* No gap is forgotten (ErrorHasCause): however the ants overtake each     *)
(* other, merge segments, ask again and quit, a task that is not complete  *)
(* when the last of them has left lost one to its retries.                 *)
THEOREM ErrorsHaveACause == Spec => []ErrorHasCause
<1>1. Init => EInv
  <2> SUFFICES ASSUME Init PROVE EInv
    OBVIOUS
  <2>1. Marked /\ Attended
    BY EmptyIndex DEF Init, Marked, Attended, AtWork
  <2> QED
    BY <2>1, InitIInv DEF EInv
<1>2. EInv => ErrorHasCause
  <2> SUFFICES ASSUME EInv, phase = "over", clicks = 0, ~IsTaskFinish,
                      \A t \in Ants : retry[t] # -1
               PROVE  FALSE
    BY DEF ErrorHasCause
  <2>1. Finished(index, fileLen)
    BY DEF EInv, Attended, AtWork
  <2> QED
    BY <2>1, FinishedFully DEF EInv, IInv, TypeOK
<1> QED
  BY <1>1, <1>2, StepAttends, PTL DEF Spec
-----------------------------------------------------------------------------
(* An ant is not ahead of a segment it marks, and will not be when its     *)
(* piece is saved and it goes on.                                          *)
NotAhead(t, s) ==
  /\ saving.ant # t => ReachesTo(s, offset[t], fileLen)
  /\ saving.ant = t /\ saving.ret = 1 => ReachesTo(s, saving.to, fileLen)

Reached ==
  \A i \in DOMAIN index :
    LET t == index[i].mark
    IN t # NoAnt /\ pc[t] = "run" => NotAhead(t, index[i])

(* The inductive invariant of MarksAlive.                                  *)
MInv == IInv /\ Reached

(* The types the steps below need.                                         *)
LEMMA AntTypes ==
  ASSUME IInv
  PROVE  /\ pc \in [Ants -> {"off", "new", "run", "quit"}]
         /\ offset \in [Ants -> Nat]
         /\ index \in Seq(Segments) /\ OneMark(index)
         /\ \A i \in DOMAIN index : /\ index[i].mark \in Ants \cup {NoAnt}
                                    /\ index[i].end \in Nat
         /\ fileLen \in Nat \cup {-1}
<1>1. index \in Seq(Segments)
  BY DEF IInv, TypeOK
<1> QED
  BY <1>1, SegTypes DEF IInv, TypeOK, Shape

(* Where no ant is at work no mark is missed.                              *)
LEMMA IdleReaches ==
  ASSUME \A t \in Ants : pc[t] # "run",
         \A i \in DOMAIN index : index[i].mark \in Ants \cup {NoAnt}
  PROVE  Reached
BY DEF Reached

(* Opening a task: no ant has a position yet.                              *)
LEMMA OpenReaches ==
  ASSUME MInv, (\E len \in {-1, FileLen} : Open(len)) \/ CreateIndex \/ Allocate
  PROVE  Reached'
<1>1. IInv'
  <2>1. [Next]_vars
    BY DEF Next
  <2> QED
    BY <2>1, StepKeeps DEF MInv
<1>2. phase # "up"
  BY DEF Open, CreateIndex, Allocate
<1>3. \A t \in Ants : pc[t] = "off"
  BY <1>2 DEF MInv, IInv, Asleep
<1>4. \A t \in Ants : pc'[t] # "run"
  BY <1>3 DEF Open, CreateIndex, Allocate, StartAnts, threads
<1>5. \A i \in DOMAIN index' : index'[i].mark \in Ants \cup {NoAnt}
  <2>1. index' \in Seq(Segments)
    BY <1>1 DEF IInv, TypeOK
  <2> QED
    BY <2>1, SegTypes
<1> QED
  BY <1>4, <1>5 DEF Reached

(* An ant is sent where the segment it then marks ends.                    *)
LEMMA GetTaskReaches ==
  ASSUME MInv, NEW t \in Ants, AntGetTask(t)
  PROVE  Reached'
<1> USE DEF MInv
<1> DEFINE task == GetTask(index, t, fileLen)
<1>1. /\ Unlocked /\ index' = task.index
      /\ pc' = [pc EXCEPT ![t] = IF task.ok THEN "run" ELSE "quit"]
      /\ offset' = [offset EXCEPT ![t] = IF task.ok THEN task.pos ELSE 0]
      /\ UNCHANGED <<fileLen, saving>>
  BY DEF AntGetTask
<1>2. Given(index, t, fileLen, task)
  BY <1>1, FreeFacts, TaskGiven
<1> HIDE DEF task
<1>3. /\ \A u \in Ants : u # t => pc'[u] = pc[u] /\ offset'[u] = offset[u]
      /\ pc'[t] = (IF task.ok THEN "run" ELSE "quit")
      /\ offset'[t] = (IF task.ok THEN task.pos ELSE 0)
  BY <1>1, AntTypes
<1>4. saving = NoPiece /\ saving' = NoPiece /\ NoPiece.ant = NoAnt
  BY <1>1, FreeFacts DEF NoPiece
<1>5. index' \in Seq(Segments)
  BY <1>1, <1>2 DEF Given
<1> SUFFICES ASSUME NEW k \in DOMAIN index', index'[k].mark # NoAnt,
                    pc'[index'[k].mark] = "run"
             PROVE  ReachesTo(index'[k], offset'[index'[k].mark], fileLen)
  BY <1>1, <1>4, FileManagerAssumption DEF Reached, NotAhead
<1>6. index'[k].mark \in Ants /\ index'[k].end \in Nat
  BY <1>5, SegTypes
<1>7. CASE index'[k].mark = t
  <2>1. task.ok = TRUE
    <3>1. task.ok = TRUE \/ task.ok = FALSE
      BY <1>2, Zenon DEF Given
    <3>2. task.ok = FALSE => pc'[t] = "quit"
      BY <1>3, Zenon
    <3>3. pc'[t] = "run"
      BY <1>7
    <3> QED
      BY <3>1, <3>2, <3>3
  <2>2. index'[k].end = task.pos
    BY <1>1, <1>2, <1>7, <2>1 DEF Given
  <2>3. offset'[t] = task.pos
    BY <1>3, <2>1, Zenon
  <2> QED
    BY <1>6, <1>7, <2>2, <2>3 DEF ReachesTo
<1>8. CASE index'[k].mark # t
  <2>1. PICK j \in DOMAIN index : index[j].mark = index'[k].mark /\ index[j].end = index'[k].end
    BY <1>1, <1>2, <1>8 DEF Given
  <2>2. pc[index[j].mark] = "run" /\ index[j].mark # NoAnt /\ index[j].mark # saving.ant
    BY <1>3, <1>4, <1>6, <1>8, <2>1, FileManagerAssumption
  <2>3. ReachesTo(index[j], offset[index[j].mark], fileLen)
    BY <2>2 DEF Reached, NotAhead
  <2> QED
    BY <1>3, <1>6, <1>8, <2>1, <2>3 DEF ReachesTo
<1> QED
  BY <1>7, <1>8

(* Releasing a segment moves no end.                                       *)
LEMMA ReleaseReaches ==
  ASSUME MInv, NEW t \in Ants, AntQuits(t) \/ AntCancelled(t)
  PROVE  Reached'
<1> USE DEF MInv
<1>1. /\ Unlocked /\ index' = ReleaseIndex(t) /\ pc' = [pc EXCEPT ![t] = "off"]
      /\ (offset' = offset \/ offset' = [offset EXCEPT ![t] = 0])
      /\ UNCHANGED <<fileLen, saving>>
  BY DEF AntQuits, AntCancelled
<1>2. index' \in Seq(Segments) /\ MarksFrom(index', index)
  <2>1. Rearranged(index, ReleaseIndex(t))
    BY <1>1, FreeFacts, TidyKeeps DEF ReleaseIndex
  <2> QED
    BY <1>1, <2>1 DEF Rearranged
<1>3. /\ \A u \in Ants : u # t => pc'[u] = pc[u] /\ offset'[u] = offset[u]
      /\ pc'[t] = "off"
  BY <1>1, AntTypes
<1>4. saving = NoPiece /\ saving' = NoPiece /\ NoPiece.ant = NoAnt
  BY <1>1, FreeFacts DEF NoPiece
<1> SUFFICES ASSUME NEW k \in DOMAIN index', index'[k].mark # NoAnt,
                    pc'[index'[k].mark] = "run"
             PROVE  ReachesTo(index'[k], offset'[index'[k].mark], fileLen)
  BY <1>1, <1>4 DEF Reached, NotAhead
<1>5. index'[k].mark \in Ants /\ index'[k].mark # t
  BY <1>2, <1>3, SegTypes
<1>6. PICK j \in DOMAIN index : index[j].mark = index'[k].mark /\ index[j].end = index'[k].end
  BY <1>2 DEF MarksFrom
<1>7. ReachesTo(index[j], offset[index[j].mark], fileLen)
  BY <1>3, <1>4, <1>5, <1>6 DEF Reached, NotAhead
<1> QED
  BY <1>3, <1>5, <1>6, <1>7 DEF ReachesTo

(* A piece: other segments keep their ends, are joined or are cut at the   *)
(* end of the file, and an ant that goes on has its mark before it.        *)
LEMMA PieceMoves ==
  ASSUME MInv, NEW t \in Ants, NEW n \in PieceLens, NEW end \in BOOLEAN,
         FileData(t, n, end)
  PROVE  Reached'
<1> USE DEF MInv
<1> DEFINE len == KnownLen(offset[t] + n, end)
           w == WriteData(index, offset[t], n, len)
<1>1. /\ Unlocked /\ pc[t] = "run" /\ Deliverable(t, n, end) /\ fileLen' = len
      /\ index' = w.index
      /\ saving' = [ant |-> t, to |-> offset[t] + n,
                    ret |-> IF end THEN 0 ELSE w.ret, combine |-> w.combine]
      /\ UNCHANGED <<pc, offset>>
  BY DEF FileData, threads
<1>2. n \in Nat
  BY FileManagerAssumption
<1>3. /\ len \in Nat \cup {-1} /\ offset[t] \in Nat /\ Starts(index, len)
      /\ len # fileLen => fileLen = -1
  BY <1>1, <1>2, Known
<1>4. Written(index, offset[t], offset[t] + n, len, w)
  BY <1>1, <1>2, <1>3, FreeFacts, PieceWritten
<1>5. /\ saving = NoPiece /\ NoPiece.ant = NoAnt /\ index \in Seq(Segments)
      /\ Ordered(index)
  BY <1>1, FreeFacts DEF NoPiece
<1>6. /\ saving'.ant = t /\ saving'.to = offset[t] + n
      /\ saving'.ret = 1 => w.ret = 1
  <2>1. saving'.ret = IF end THEN 0 ELSE w.ret
    BY <1>1
  <2> QED
    BY <1>1, <2>1
<1>7. \A j \in DOMAIN index :
        index[j].mark # NoAnt /\ pc[index[j].mark] = "run" =>
          ReachesTo(index[j], offset[index[j].mark], len)
  BY <1>3, <1>5 DEF Reached, NotAhead, ReachesTo
<1>8. w.ret = 1 => \A k \in DOMAIN w.index :
        w.index[k].mark = t => ReachesTo(w.index[k], offset[t] + n, len)
  <2>1. \A j \in DOMAIN index : index[j].mark = t => ReachesTo(index[j], offset[t], len)
    BY <1>1, <1>7, FileManagerAssumption
  <2> QED
    BY <1>2, <1>3, <1>5, <2>1, PieceReaches
<1> HIDE DEF w, len
<1> SUFFICES ASSUME NEW k \in DOMAIN index', index'[k].mark # NoAnt,
                    pc[index'[k].mark] = "run"
             PROVE  /\ saving'.ant # index'[k].mark =>
                         ReachesTo(index'[k], offset[index'[k].mark], len)
                    /\ saving'.ant = index'[k].mark /\ saving'.ret = 1 =>
                         ReachesTo(index'[k], saving'.to, len)
  BY <1>1 DEF Reached, NotAhead
<1>9. index' \in Seq(Segments) /\ MarksReach(index', index, len)
  BY <1>1, <1>4 DEF Written
<1>10. index'[k].mark \in Ants /\ index'[k].end \in Nat
  BY <1>9, SegTypes
<1>11. CASE index'[k].mark = t
  BY <1>1, <1>6, <1>8, <1>11
<1>12. CASE index'[k].mark # t
  <2>1. PICK j \in DOMAIN index :
          /\ index[j].mark = index'[k].mark
          /\ index[j].end <= index'[k].end \/ (len # -1 /\ index'[k].end = len)
    BY <1>9 DEF MarksReach
  <2>2. ReachesTo(index[j], offset[index[j].mark], len)
    BY <1>7, <2>1
  <2>3. index[j].end \in Nat /\ offset[index[j].mark] \in Nat
    BY <1>10, <2>1, AntTypes
  <2>4. ReachesTo(index'[k], offset[index'[k].mark], len)
    BY <1>3, <1>10, <2>1, <2>2, <2>3 DEF ReachesTo
  <2> QED
    BY <1>6, <1>12, <2>4
<1> QED
  BY <1>11, <1>12

(* The rest of FileData: an ant that goes on does so where the piece ends. *)
LEMMA SaveReaches ==
  ASSUME MInv, NEW t \in Ants, NEW swap \in BOOLEAN, SaveIndex(t, swap)
  PROVE  Reached'
<1> USE DEF MInv
<1>1. /\ saving.ant = t /\ saving' = NoPiece /\ UNCHANGED <<fileLen, index>>
      /\ \/ /\ saving.ret = 1 /\ pc' = pc
            /\ offset' = [offset EXCEPT ![t] = saving.to]
         \/ /\ pc' = [pc EXCEPT ![t] = "new"]
            /\ offset' = [offset EXCEPT ![t] = 0]
  BY DEF SaveIndex
<1>2. NoPiece.ant = NoAnt
  BY DEF NoPiece
<1>a. saving'.ant = NoAnt
  BY <1>1, <1>2
<1>b. /\ pc \in [Ants -> {"off", "new", "run", "quit"}] /\ offset \in [Ants -> Nat]
      /\ \A i \in DOMAIN index : index[i].mark \in Ants \cup {NoAnt}
  BY AntTypes
<1>3. \A u \in Ants : u # t => pc'[u] = pc[u] /\ offset'[u] = offset[u]
  BY <1>1, <1>b
<1> SUFFICES ASSUME NEW k \in DOMAIN index, index[k].mark # NoAnt,
                    pc'[index[k].mark] = "run"
             PROVE  ReachesTo(index[k], offset'[index[k].mark], fileLen)
  BY <1>1, <1>a DEF Reached, NotAhead
<1>4. index[k].mark \in Ants
  BY AntTypes
<1>5. CASE index[k].mark = t
  <2>1. pc'[t] = "run"
    BY <1>5
  <2>2. saving.ret = 1 /\ pc' = pc /\ offset' = [offset EXCEPT ![t] = saving.to]
    BY <1>1, <1>b, <2>1
  <2>3. ReachesTo(index[k], saving.to, fileLen)
    BY <1>1, <1>5, <2>1, <2>2 DEF Reached, NotAhead
  <2>4. offset'[t] = saving.to
    BY <1>b, <2>2
  <2> QED
    BY <1>5, <2>3, <2>4
<1>6. CASE index[k].mark # t
  BY <1>1, <1>3, <1>4, <1>6 DEF Reached, NotAhead
<1> QED
  BY <1>5, <1>6

(* Trouble: no mark moves, and an ant that is not at work has no position. *)
LEMMA TroubleReaches ==
  ASSUME MInv, NEW t \in Ants,
         \/ \E n \in PieceLens, end \in BOOLEAN : WriteFails(t, n, end)
         \/ SessionFails(t) \/ AntAdded(t)
  PROVE  Reached'
<1> USE DEF MInv
<1>1. Unlocked /\ UNCHANGED <<index, saving>>
  BY DEF WriteFails, SessionFails, AntAdded, memory
<1>2. saving = NoPiece /\ saving' = NoPiece /\ NoPiece.ant = NoAnt
  BY <1>1, FreeFacts DEF NoPiece
<1>3. fileLen' = fileLen \/ fileLen = -1
  BY DEF WriteFails, SessionFails, AntAdded, memory, KnownLen
<1>4. \A u \in Ants : pc'[u] = "run" => pc[u] = "run" /\ offset'[u] = offset[u]
  <2>1. CASE \E n \in PieceLens, end \in BOOLEAN : WriteFails(t, n, end)
    BY <2>1 DEF WriteFails, threads
  <2>2. CASE AntAdded(t)
    BY <2>2, AntTypes DEF AntAdded
  <2>3. CASE SessionFails(t)
    <3>1. /\ pc' = [pc EXCEPT ![t] = "quit"] \/ pc' = [pc EXCEPT ![t] = "new"]
          /\ offset' = [offset EXCEPT ![t] = 0]
      BY <2>3 DEF SessionFails
    <3> QED
      BY <3>1, AntTypes
  <2> QED
    BY <2>1, <2>2, <2>3
<1> SUFFICES ASSUME NEW k \in DOMAIN index, index[k].mark # NoAnt,
                    pc'[index[k].mark] = "run"
             PROVE  ReachesTo(index[k], offset'[index[k].mark], fileLen')
  BY <1>1, <1>2 DEF Reached, NotAhead
<1>5. index[k].mark \in Ants
  BY AntTypes
<1>6. ReachesTo(index[k], offset[index[k].mark], fileLen)
  BY <1>2, <1>4, <1>5 DEF Reached, NotAhead
<1> QED
  BY <1>3, <1>4, <1>5, <1>6 DEF ReachesTo

(* Every step keeps the invariant.                                         *)
LEMMA StepReaches == MInv /\ [Next]_vars => MInv'
<1> SUFFICES ASSUME MInv, [Next]_vars PROVE Reached'
  BY StepKeeps DEF MInv
<1>1. CASE (\E len \in {-1, FileLen} : Open(len)) \/ CreateIndex \/ Allocate
  BY <1>1, OpenReaches
<1>2. ASSUME NEW t \in Ants, AntStep(t)
      PROVE  Reached'
  BY <1>2, GetTaskReaches, PieceMoves, SaveReaches, ReleaseReaches DEF AntStep
<1>3. ASSUME NEW t \in Ants, AntTrouble(t)
      PROVE  Reached'
  <2>1. CASE \E n \in PieceLens, end \in BOOLEAN : WriteFails(t, n, end)
    BY <2>1, TroubleReaches
  <2>2. CASE AntCancelled(t)
    BY <2>2, ReleaseReaches
  <2>3. CASE SessionFails(t) \/ AntAdded(t)
    BY <2>3, TroubleReaches
  <2> QED
    BY <1>3, <2>1, <2>2, <2>3 DEF AntTrouble
<1>4. CASE Finish
  BY <1>4 DEF Finish, memory, threads, MInv, Reached, NotAhead
<1>5. CASE Deliver \/ Stop \/ Crash
  <2>1. index' = << >>
    BY <1>5 DEF Deliver, Stop, Crash, Forget
  <2> QED
    BY <2>1, EmptyIndex DEF Reached
<1>6. CASE UNCHANGED vars
  BY <1>6 DEF MInv, Reached, NotAhead, vars, memory, threads
<1> QED
  BY <1>1, <1>2, <1>3, <1>4, <1>5, <1>6 DEF Next

(* No stale mark hides a gap (MarksAlive): however pieces join segments,   *)
(* take marks from other ants and are cut at the end of the file, a mark   *)
(* belongs to one ant that is alive, and to one segment, which reaches the *)
(* ant or the end of the file.                                             *)
THEOREM MarksStayAlive == Spec => []MarksAlive
<1>1. Init => MInv
  <2> SUFFICES ASSUME Init PROVE Reached
    BY InitIInv DEF MInv
  <2> QED
    BY EmptyIndex DEF Init, Reached
<1>2. MInv => MarksAlive
  <2> SUFFICES ASSUME MInv, NEW i \in DOMAIN index, index[i].mark # NoAnt
               PROVE  /\ pc[index[i].mark] # "off"
                      /\ pc[index[i].mark] = "run" /\ saving = NoPiece =>
                           \/ offset[index[i].mark] <= index[i].end
                           \/ fileLen # -1 /\ index[i].end >= fileLen
                      /\ \A j \in DOMAIN index : index[j].mark = index[i].mark => i = j
    BY DEF MarksAlive
  <2>1. pc[index[i].mark] # "off"
    BY DEF MInv, IInv, Alive
  <2>2. ASSUME pc[index[i].mark] = "run", saving = NoPiece
        PROVE  \/ offset[index[i].mark] <= index[i].end
               \/ fileLen # -1 /\ index[i].end >= fileLen
    <3>1. NoPiece.ant = NoAnt
      BY DEF NoPiece
    <3>2. ReachesTo(index[i], offset[index[i].mark], fileLen)
      BY <2>2, <3>1 DEF MInv, Reached, NotAhead
    <3> QED
      BY <3>2, AntTypes DEF ReachesTo, MInv
  <2>3. \A j \in DOMAIN index : index[j].mark = index[i].mark => i = j
    BY AntTypes DEF MInv, OneMark
  <2> QED
    BY <2>1, <2>2, <2>3
<1> QED
  BY <1>1, <1>2, StepReaches, PTL DEF Spec
-----------------------------------------------------------------------------
(* The phase of the abstract download.                                     *)
Outline == IF phase \in {"truncated", "indexed"} THEN "opening" ELSE phase

(* The first state is an abstract first state.                             *)
LEMMA InitMaps == Init => Abstract!Init
<1> SUFFICES ASSUME Init PROVE Abstract!Init
  OBVIOUS
<1>1. /\ phase = "down" /\ fileLen = -1 /\ part.data = {} /\ delivered = Nothing
      /\ part.exists = FALSE /\ index = << >>
  BY DEF Init, NoFile
<1>2. Held = {} /\ Recoverable = {}
  BY <1>1, EmptyIndex DEF Held, Recoverable, CanResume
<1> QED
  BY <1>1, <1>2 DEF Abstract!Init, Nothing

(* A step the abstract download does not see.                              *)
LEMMA StutterMaps ==
  ASSUME UNCHANGED <<fileLen, part, saved, delivered>>, Outline' = Outline,
         Bytes(index') = Bytes(index)
  PROVE  UNCHANGED Abstract!vars
<1>1. Held' = Held /\ Recoverable' = Recoverable
  BY DEF Held, Recoverable, CanResume
<1> QED
  BY <1>1 DEF Abstract!vars, Outline

(* CheckFile resumes or restarts the abstract download.                    *)
LEMMA OpenMaps ==
  ASSUME IInv, NEW len \in {-1, FileLen}, Open(len)
  PROVE  Abstract!Next
<1>1. /\ phase = "down" /\ fileLen' = len /\ saved' = saved /\ delivered' = delivered
      /\ FileLen \in Nat /\ MaxOverrun \in Nat
  BY FileManagerAssumption DEF Open
<1>2. CASE CanResume(len)
  <2>1. /\ index' = ReadIndex(saved.segs, len) /\ StartAnts(len) /\ part' = part
    BY <1>2 DEF Open
  <2>2. len = FileLen /\ len # -1
    BY <1>1, <1>2 DEF CanResume
  <2>3. phase' = "up"
    BY <2>1 DEF StartAnts
  <2>4. Recoverable' = Recoverable /\ Recoverable = Bytes(index')
    BY <1>1, <1>2, <2>1, <2>2 DEF Recoverable, CanResume
  <2>5. Held' = Bytes(index')
    <3>1. \A b \in Bytes(index') : b < FileLen
      BY <2>1, <2>2, ReadSaved DEF IInv
    <3> QED
      BY <1>1, <2>2, <3>1 DEF Held
  <2>6. Abstract!Resume
    BY <1>1, <2>1, <2>2, <2>3, <2>4, <2>5 DEF Abstract!Resume
  <2> QED
    BY <2>6 DEF Abstract!Next
<1>3. CASE ~CanResume(len)
  <2>1. /\ part' = [NoFile EXCEPT !.exists = TRUE] /\ phase' = "truncated"
        /\ index' = index
    BY <1>3 DEF Open
  <2>2. index' = << >> /\ part'.data = {} /\ part'.size = 0
    BY <1>1, <2>1 DEF IInv, Asleep, AtWork, NoFile
  <2>3. Held' = {}
    BY <2>2, EmptyIndex DEF Held
  <2>4. Recoverable' = {}
    BY <1>1, <1>3, <2>2, TruncateKeeps, EmptySavedNext
  <2>5. len \in -1 .. FileLen + MaxOverrun
    BY <1>1
  <2>6. Abstract!Restart
    BY <1>1, <2>1, <2>2, <2>3, <2>4, <2>5 DEF Abstract!Restart
  <2> QED
    BY <2>6 DEF Abstract!Next
<1> QED
  BY <1>2, <1>3

(* Emptying the index file is not seen: nothing was safe before.           *)
LEMMA CreateMaps ==
  ASSUME IInv, CreateIndex
  PROVE  UNCHANGED Abstract!vars
<1>1. /\ phase = "truncated" /\ phase' = "indexed"
      /\ UNCHANGED <<fileLen, index, part, delivered>>
  BY DEF CreateIndex, memory
<1>2. part.size = 0
  BY <1>1 DEF IInv, Asleep, NoFile
<1>3. Recoverable = {} /\ Recoverable' = {}
  BY <1>1, <1>2, CreateKeeps, EmptySaved, EmptySavedNext
<1> QED
  BY <1>1, <1>3 DEF Abstract!vars, Held

(* The abstract download is ready.                                         *)
LEMMA AllocateMaps ==
  ASSUME IInv, Allocate
  PROVE  Abstract!Next
<1>1. /\ phase = "indexed" /\ phase' = "up"
      /\ part' = IF fileLen = -1 THEN part ELSE [part EXCEPT !.size = fileLen]
      /\ UNCHANGED <<fileLen, index, saved, delivered>>
  BY DEF Allocate, memory, StartAnts
<1>2. part'.data = part.data
  <2>1. part \in Parts
    BY DEF IInv, TypeOK, Parts
  <2> QED
    BY <1>1, <2>1 DEF Parts
<1>3. Recoverable = {} /\ Recoverable' = {}
  BY <1>1, AllocateKeeps, EmptySaved, EmptySavedNext DEF IInv, Asleep
<1>4. Held' = Held
  BY <1>1 DEF Held
<1>5. Abstract!Ready
  BY <1>1, <1>2, <1>3, <1>4 DEF Abstract!Ready
<1> QED
  BY <1>5 DEF Abstract!Next

(* A piece is received.                                                    *)
LEMMA ArrivesMaps ==
  ASSUME IInv, NEW t \in Ants, NEW n \in Nat, NEW m \in Nat, Arrives(t, m, n)
  PROVE  Abstract!Next
<1> DEFINE pos == offset[t]
<1>1. /\ phase = "up" /\ phase' = "up" /\ delivered' = delivered
      /\ pos + n <= FileLen + MaxOverrun /\ m <= n
      /\ fileLen' \in Nat \cup {-1}
      /\ fileLen' # fileLen => fileLen = -1 /\ fileLen' = pos + n
  BY DEF Arrives, Unlocked
<1>2. /\ pos \in Nat /\ FileLen \in Nat /\ MaxOverrun \in Nat
      /\ fileLen \in Nat \cup {-1}
      /\ fileLen = -1 \/ fileLen \in 0 .. FileLen + MaxOverrun
  BY FileManagerAssumption DEF IInv, TypeOK, Asleep
<1>3. /\ Held \subseteq Held'
      /\ \E c \in 0 .. m :
           /\ part'.data = part.data \cup (pos .. (pos + c) - 1)
           /\ Held' \subseteq Held \cup (pos .. (pos + c) - 1)
  BY ArrivesHeld
<1>4. Recoverable' = Recoverable \/ Recoverable' \subseteq Held
  BY ArrivesSafe
<1>5. fileLen' \in -1 .. FileLen + MaxOverrun
  BY <1>1, <1>2
<1> HIDE DEF pos
<1>6. PICK c \in 0 .. m : /\ part'.data = part.data \cup (pos .. (pos + c) - 1)
                          /\ Held' \subseteq Held \cup (pos .. (pos + c) - 1)
  BY <1>3
<1>7. pos .. (pos + c) - 1 \in Intervals
  <2>1. pos \in 0 .. FileLen + MaxOverrun /\ (pos + c) - 1 \in -1 .. FileLen + MaxOverrun
    BY <1>1, <1>2
  <2>2. \A a \in 0 .. FileLen + MaxOverrun, b \in -1 .. FileLen + MaxOverrun :
          a .. b \in Intervals
    BY DEF Intervals
  <2> QED
    BY <2>1, <2>2
<1>8. fileLen' \in Abstract!Known
  <2>1. fileLen = -1 => fileLen' \in -1 .. FileLen + MaxOverrun
    BY <1>5
  <2>2. fileLen # -1 => fileLen' = fileLen
    BY <1>1
  <2> QED
    BY <2>1, <2>2 DEF Abstract!Known
<1> DEFINE piece == pos .. (pos + c) - 1
<1>9. piece \in Intervals /\ part'.data = part.data \cup piece
      /\ Held' \subseteq Held \cup piece
  BY <1>6, <1>7
<1> HIDE DEF piece
<1>10. Abstract!Receive(piece)
  BY <1>1, <1>3, <1>4, <1>8, <1>9 DEF Abstract!Receive
<1> QED
  BY <1>9, <1>10 DEF Abstract!Next

(* Rewriting the index file saves what is held.                            *)
LEMMA SaveMaps ==
  ASSUME IInv, NEW t \in Ants, NEW swap \in BOOLEAN, SaveIndex(t, swap)
  PROVE  Abstract!Next
<1>1. /\ phase = "up" /\ saved' = [exists |-> TRUE, segs |-> index]
      /\ UNCHANGED <<phase, fileLen, index, part, delivered>>
  BY DEF SaveIndex
<1>2. AtWork /\ index \in Seq(Segments) /\ saved'.segs = index
  BY <1>1 DEF AtWork, IInv, TypeOK
<1>3. Recoverable' \subseteq Held /\ Held' = Held
  BY <1>1, <1>2, WrittenSafe DEF Held
<1>4. Abstract!Save
  BY <1>1, <1>3 DEF Abstract!Save
<1> QED
  BY <1>4 DEF Abstract!Next

(* The task ends.                                                          *)
LEMMA FinishMaps ==
  ASSUME IInv, Finish
  PROVE  Abstract!Next
<1>1. /\ phase = "up" /\ phase' = "over"
      /\ UNCHANGED <<fileLen, index, part, saved, delivered>>
  BY DEF Finish, Unlocked, memory, disk
<1>2. Held' = Held /\ Recoverable' = Recoverable
  BY <1>1 DEF Held, Recoverable, CanResume
<1>3. Abstract!Finish
  BY <1>1, <1>2 DEF Abstract!Finish
<1> QED
  BY <1>3 DEF Abstract!Next

(* A file without a hole is delivered.                                     *)
LEMMA DeliverMaps ==
  ASSUME IInv, Deliver
  PROVE  Abstract!Next
<1>1. /\ phase = "over" /\ phase' = "down" /\ fileLen' = -1 /\ index' = << >>
      /\ IsTaskFinish /\ part' = NoFile
      /\ delivered' = [len |-> fileLen, data |-> part.data]
  BY DEF Deliver, Forget
<1>2. index \in Seq(Segments) /\ fileLen \in Nat \cup {-1}
  BY DEF IInv, TypeOK
<1>3. 0 .. fileLen - 1 \subseteq Held
  <2>1. CASE fileLen = 0
    BY <2>1
  <2>2. CASE Complete(index, fileLen)
    <3>1. Len(index) = 1 /\ index[1].start = 0 /\ index[1].end = fileLen
      BY <2>2 DEF Complete
    <3>2. Single(index) /\ index # << >> /\ Reach(index) = fileLen
      <4>1. Len(<< >>) # 1
        OBVIOUS
      <4>2. index # << >>
        BY <3>1, <4>1, Zenon
      <4> QED
        BY <3>1, <4>2 DEF Single, Reach
    <3>3. Bytes(index) = 0 .. fileLen - 1
      BY <1>2, <3>2, SingleBytes
    <3> QED
      BY <1>2, <3>3 DEF Held
  <2> QED
    BY <1>1, <2>1, <2>2 DEF IsTaskFinish
<1>4. Held' = {} /\ Recoverable' = {} /\ part'.data = {}
  BY <1>1, EmptyIndex DEF Held, Recoverable, CanResume, NoFile
<1>5. Abstract!Deliver
  BY <1>1, <1>3, <1>4 DEF Abstract!Deliver, Abstract!Full
<1> QED
  BY <1>5 DEF Abstract!Next

(* A task that is given up, or a crash, stops the abstract download.       *)
LEMMA StopMaps ==
  ASSUME IInv, Stop \/ Crash
  PROVE  Abstract!Next
<1>1. /\ phase # "down" /\ phase' = "down" /\ fileLen' = -1 /\ index' = << >>
      /\ UNCHANGED <<part, delivered>>
  BY DEF IInv, Asleep, Stop, Crash, Forget, disk
<1>2. Held' = {}
  BY <1>1, EmptyIndex DEF Held
<1>3. Recoverable' = Recoverable \/ Recoverable' \subseteq Held
  <2>1. CASE UNCHANGED saved
    BY <1>1, <2>1 DEF Recoverable, CanResume
  <2>2. ASSUME Crash, NEW k \in 0 .. Len(index),
               saved' = [exists |-> TRUE, segs |-> SubSeq(index, 1, k)]
        PROVE  Recoverable' \subseteq Held
    <3>1. AtWork /\ index \in Seq(Segments) /\ Ordered(index)
      BY <2>2 DEF Crash, IInv, Asleep, AtWork, TypeOK, Shape
    <3>2. saved'.segs = SubSeq(index, 1, k)
      BY <2>2
    <3>3. saved'.segs \in Seq(Segments) /\ Bytes(saved'.segs) \subseteq Bytes(index)
      BY <3>1, <3>2, Prefix
    <3> QED
      BY <1>1, <3>1, <3>3, WrittenSafe
  <2> QED
    BY <2>1, <2>2 DEF Stop, Crash, disk
<1>4. Abstract!Stop
  BY <1>1, <1>2, <1>3 DEF Abstract!Stop
<1> QED
  BY <1>4 DEF Abstract!Next

(* Every step is an abstract step or is not seen.                          *)
LEMMA StepMaps ==
  ASSUME IInv, [Next]_vars
  PROVE  [Abstract!Next]_(Abstract!vars)
<1>1. ASSUME NEW t \in Ants, AntStep(t)
      PROVE  Abstract!Next \/ UNCHANGED Abstract!vars
  <2>1. CASE AntGetTask(t) \/ AntQuits(t)
    <3>1. UNCHANGED <<fileLen, part, saved, delivered, phase>>
      BY <2>1 DEF AntGetTask, AntQuits, disk
    <3>2. Bytes(index') = Bytes(index)
      BY <2>1, Rearranges
    <3> QED
      BY <3>1, <3>2, StutterMaps DEF Outline
  <2>2. ASSUME NEW n \in PieceLens, NEW end \in BOOLEAN, FileData(t, n, end)
        PROVE  Abstract!Next
    <3>1. n \in Nat
      BY FileManagerAssumption
    <3> QED
      BY <2>2, <3>1, FileDataArrives, ArrivesMaps
  <2> QED
    BY <1>1, <2>1, <2>2, SaveMaps DEF AntStep
<1>2. ASSUME NEW t \in Ants, AntTrouble(t)
      PROVE  Abstract!Next \/ UNCHANGED Abstract!vars
  <2>1. ASSUME NEW n \in PieceLens, NEW end \in BOOLEAN, WriteFails(t, n, end)
        PROVE  Abstract!Next
    <3>1. n \in Nat
      BY FileManagerAssumption
    <3>2. PICK k \in 0 .. n : Arrives(t, k, n)
      BY <2>1, WriteFailsArrives
    <3>3. k \in Nat
      BY <3>1
    <3> QED
      BY <3>1, <3>2, <3>3, ArrivesMaps
  <2>2. CASE SessionFails(t) \/ AntCancelled(t) \/ AntAdded(t)
    <3>1. UNCHANGED <<fileLen, part, saved, delivered, phase>>
      BY <2>2 DEF SessionFails, AntCancelled, AntAdded, memory, disk
    <3>2. Bytes(index') = Bytes(index)
      <4>1. SessionFails(t) \/ AntAdded(t) => index' = index
        BY DEF SessionFails, AntAdded, memory
      <4> QED
        BY <2>2, <4>1, Rearranges
    <3> QED
      BY <3>1, <3>2, StutterMaps DEF Outline
  <2> QED
    BY <1>2, <2>1, <2>2 DEF AntTrouble
<1>3. CASE UNCHANGED vars
  BY <1>3, StutterMaps DEF vars, memory, disk, Outline
<1> QED
  BY <1>1, <1>2, <1>3, OpenMaps, CreateMaps, AllocateMaps, FinishMaps, DeliverMaps, StopMaps
  DEF Next

(* The part file and its index implement the abstract download             *)
(* (ImplementsDownload), through every interleaving and crash.             *)
THEOREM DownloadImplemented == Spec => ImplementsDownload
<1>1. IInv /\ [Next]_vars => [Abstract!Next]_(Abstract!vars)
  BY StepMaps
<1> QED
  BY <1>1, Invariance, InitMaps, PTL DEF Spec, ImplementsDownload, Abstract!Spec
=============================================================================
