-------------------------- MODULE DatabasesProofs ---------------------------
(***************************************************************************)
(* Proofs about the three files and the lists they store, for any tasks,   *)
(* proxies and directories, any length of the history and any number of    *)
(* starts, crashes and full disks: no list gets a double, a running task   *)
(* has its object, a direct connection its reason, and a start finds what  *)
(* was saved.                                                              *)
(***************************************************************************)
EXTENDS Databases, SequenceTheorems, TLAPS

Entry ==
  [status : Statuses, proxy : ProxyNames \cup {Direct}, fields : SUBSET Fields,
   via : ProxyNames \cup {Direct, None}]

SomePaths(h) == h \in Seq(Paths) /\ IsInjective(h) /\ Len(h) <= HistorySize
SomeProxies(l) == l \in Seq(ProxyNames) /\ IsInjective(l)
SomeTasks(l) == l \in Seq(Entry) /\ \A i \in DOMAIN l : l[i].via = None

(* What the file of a list may store.                                      *)
Storable(db, l) ==
  /\ db = "task" => SomeTasks(l)
  /\ db = "proxy" => SomeProxies(l)
  /\ db = "config" => SomePaths(l)

Lists ==
  /\ window \in {"down", "shown", "hidden", "asking", "saving", "closing"}
  /\ tasks \in Seq(Entry) /\ SomeProxies(proxies) /\ SomePaths(history)
  /\ cut \subseteq DBs /\ removed \subseteq ProxyNames
  /\ starts \in Nat /\ excused \in BOOLEAN

(* A file that the last save stored has all of it, in a version that can   *)
(* be read and that has its fields.                                        *)
Stored(db, f, g) ==
  /\ f.ver \in Readable(db) /\ f.records = g
  /\ db = "task" => \A i \in DOMAIN g : \A y \in g[i].fields : Since[y] <= f.ver

(* The file f of a list, when g was meant to be stored: a final header     *)
(* announces all of g, and has no more than that behind it.  The files of  *)
(* c were not stored.                                                      *)
Kept(db, f, g, c) ==
  /\ f = File(f.head, f.ver, f.count, f.records)
  /\ f.head \in {"none", "empty", "draft", "final"}
  /\ Storable(db, f.records) /\ Storable(db, g)
  /\ f.head = "final" => f.count = Len(g) /\ Len(f.records) <= Len(g)
  /\ db \notin c => \/ f.head = "none" /\ g = << >>
                    \/ f.head = "final" /\ Stored(db, f, g)

Disk ==
  /\ files = [db \in DBs |-> files[db]] /\ goal = [db \in DBs |-> goal[db]]
  /\ \A db \in DBs : Kept(db, files[db], goal[db], cut)

(* The lists stay as they are while a handler saves them, so that what it  *)
(* writes is what it meant to store.                                       *)
Writing ==
  /\ queue \in Seq(DBs) /\ fp \in BOOLEAN
  /\ queue # << >> => window \in {"saving", "closing"}
  /\ fp => /\ queue # << >>
           /\ Current \in cut /\ goal[Current] = Whole
           /\ Len(files[Current].records) <= Len(Whole)
           /\ files[Current].head \in {"empty", "draft"}
           /\ files[Current].head = "draft" =>
                files[Current].ver = Version(Current) /\ files[Current].count = Len(Whole)

(* No task is stored as running, and none runs when the list is stored.    *)
NoneRuns(l) == \A i \in DOMAIN l : l[i].status # "running"
Quiet ==
  \/ excused
  \/ /\ "task" \in DBs => NoneRuns(files["task"].records)
     /\ (\E i \in DOMAIN queue : queue[i] = "task") => NoneRuns(tasks)

(* The proxy of a task is known, unless it was removed or lost.            *)
Routes ==
  \A i \in DOMAIN tasks :
    tasks[i].proxy \in {Direct} \cup Range(proxies) \cup removed

IInv == Lists /\ Disk /\ Writing /\ Quiet /\ RunningHasObject /\ Routes /\ DirectHasReason
-----------------------------------------------------------------------------
(* RemoveAt closes the gap.                                                *)
LEMMA RemovedElements ==
  ASSUME NEW S, NEW s \in Seq(S), NEW k \in 1 .. Len(s)
  PROVE  /\ RemoveAt(s, k) \in Seq(S)
         /\ Len(RemoveAt(s, k)) = Len(s) - 1
         /\ \A i \in 1 .. Len(s) - 1 :
              RemoveAt(s, k)[i] = IF i < k THEN s[i] ELSE s[i + 1]
<1> DEFINE a == SubSeq(s, 1, k - 1)
           b == SubSeq(s, k + 1, Len(s))
<1>1. /\ Len(s) \in Nat /\ DOMAIN s = 1 .. Len(s)
      /\ \A i \in 1 .. Len(s) : s[i] \in S
  BY LenProperties, ElementOfSeq
<1>2. \A i \in 1 .. k - 1 : s[i] \in S
  BY <1>1
<1>3. \A i \in k + 1 .. Len(s) : s[i] \in S
  BY <1>1
<1>4. /\ a \in Seq(S)
      /\ Len(a) = k - 1
      /\ \A i \in 1 .. k - 1 : a[i] = s[i]
  BY <1>1, <1>2, SubSeqProperties
<1>5. /\ b \in Seq(S)
      /\ Len(b) = Len(s) - k
      /\ \A i \in 1 .. Len(s) - k : b[i] = s[k + i]
  <2>1. k + 1 \in Int /\ Len(s) \in Int
    BY <1>1
  <2>2. /\ b \in Seq(S)
        /\ Len(b) = IF k + 1 <= Len(s) THEN Len(s) - (k + 1) + 1 ELSE 0
        /\ \A i \in 1 .. Len(s) - (k + 1) + 1 : b[i] = s[(k + 1) + i - 1]
    BY <2>1, <1>3, SubSeqProperties
  <2> HIDE DEF b
  <2>3. Len(b) = Len(s) - k
    <3>1. Len(s) \in Nat
      BY <1>1
    <3>2. CASE k + 1 <= Len(s)
      BY <2>2, <3>1, <3>2
    <3>3. CASE ~(k + 1 <= Len(s))
      BY <2>2, <3>1, <3>3
    <3>4. QED
      BY <3>2, <3>3
  <2>4. ASSUME NEW i \in 1 .. Len(s) - k
        PROVE  b[i] = s[k + i]
    <3>1. i \in 1 .. Len(s) - (k + 1) + 1 /\ (k + 1) + i - 1 = k + i
      BY <1>1
    <3>2. QED
      BY <2>2, <3>1
  <2>5. b \in Seq(S)
    BY <2>2
  <2>6. QED
    BY <2>3, <2>4, <2>5
<1> HIDE DEF a, b
<1>6. /\ a \o b \in Seq(S)
      /\ Len(a \o b) = Len(a) + Len(b)
      /\ \A i \in 1 .. Len(a) + Len(b) :
           (a \o b)[i] = IF i <= Len(a) THEN a[i] ELSE b[i - Len(a)]
  BY <1>4, <1>5, ConcatProperties
<1>7. RemoveAt(s, k) = a \o b
  BY DEF RemoveAt, a, b
<1>8. ASSUME NEW i \in 1 .. Len(s) - 1
      PROVE  (a \o b)[i] = IF i < k THEN s[i] ELSE s[i + 1]
  <2>1. CASE i < k
    BY <2>1, <1>1, <1>4, <1>5, <1>6
  <2>2. CASE ~(i < k)
    <3>1. i - (k - 1) \in 1 .. Len(s) - k /\ k + (i - (k - 1)) = i + 1
      BY <2>2, <1>1
    <3>2. b[i - (k - 1)] = s[i + 1]
      BY <3>1, <1>5
    <3>3. QED
      BY <3>2, <2>2, <1>1, <1>4, <1>5, <1>6
  <2>3. QED
    BY <2>1, <2>2
<1>9. Len(a \o b) = Len(s) - 1
  BY <1>1, <1>4, <1>5, <1>6
<1>10. QED
  BY <1>6, <1>7, <1>8, <1>9

(* In a list without doubles there is one element to find.                 *)
LEMMA FirstNamed ==
  ASSUME NEW S, NEW s \in Seq(S), NEW k \in 1 .. Len(s), IsInjective(s)
  PROVE  RemoveFirst(s, s[k]) = RemoveAt(s, k)
<1>1. /\ Len(s) \in Nat /\ DOMAIN s = 1 .. Len(s)
  BY LenProperties
<1>2. {i \in 1 .. Len(s) : s[i] = s[k]} = {k}
  BY <1>1 DEF IsInjective
<1>3. Min({k}) = k
  BY DEF Min
<1>4. SelectInSeq(s, LAMBDA v : v = s[k]) = k
  BY <1>2, <1>3 DEF SelectInSeq
<1>5. \E i \in 1 .. Len(s) : s[i] = s[k]
  OBVIOUS
<1>6. QED
  BY <1>4, <1>5 DEF RemoveFirst

(* An element that is taken away leaves all others.                        *)
LEMMA NoneRemoved ==
  ASSUME NEW S, NEW s \in Seq(S), NEW k \in 1 .. Len(s), IsInjective(s)
  PROVE  /\ RemoveAt(s, k) \in Seq(S)
         /\ IsInjective(RemoveAt(s, k))
         /\ Range(s) \subseteq Range(RemoveAt(s, k)) \cup {s[k]}
<1> DEFINE r == RemoveAt(s, k)
<1>1. Len(s) \in Nat /\ DOMAIN s = 1 .. Len(s)
  BY LenProperties
<1>2. /\ r \in Seq(S)
      /\ Len(r) = Len(s) - 1
      /\ \A i \in 1 .. Len(s) - 1 : r[i] = IF i < k THEN s[i] ELSE s[i + 1]
  BY RemovedElements
<1> HIDE DEF r
<1>3. DOMAIN r = 1 .. Len(s) - 1
  BY <1>2, LenProperties
<1>4. ASSUME NEW i \in DOMAIN r, NEW j \in DOMAIN r, r[i] = r[j]
      PROVE  i = j
  <2> DEFINE From(x) == IF x < k THEN x ELSE x + 1
  <2>1. From(i) \in DOMAIN s /\ From(j) \in DOMAIN s
    BY <1>1, <1>3
  <2>2. r[i] = s[From(i)] /\ r[j] = s[From(j)]
    BY <1>2, <1>3
  <2>3. From(i) = From(j)
    BY <2>1, <2>2, <1>4 DEF IsInjective
  <2>4. i \in Int /\ j \in Int /\ k \in Int
    BY <1>1, <1>3
  <2>5. QED
    BY <2>3, <2>4
<1>5. ASSUME NEW j \in DOMAIN s, s[j] # s[k]
      PROVE  s[j] \in Range(r)
  <2>1. CASE j < k
    <3>1. j \in DOMAIN r /\ r[j] = s[j]
      BY <2>1, <1>1, <1>2, <1>3
    <3>2. QED
      BY <3>1 DEF Range
  <2>2. CASE j > k
    <3>1. j - 1 \in 1 .. Len(s) - 1 /\ ~(j - 1 < k) /\ (j - 1) + 1 = j
      BY <2>2, <1>1
    <3>2. j - 1 \in DOMAIN r /\ r[j - 1] = s[j]
      BY <3>1, <1>2, <1>3
    <3>3. QED
      BY <3>2 DEF Range
  <2>3. QED
    BY <1>1, <1>5, <2>1, <2>2
<1>6. Range(s) \subseteq Range(r) \cup {s[k]}
  BY <1>5 DEF Range
<1>7. IsInjective(r)
  BY <1>4 DEF IsInjective
<1>8. QED
  BY <1>2, <1>6, <1>7 DEF r

(* A new element keeps a list free of doubles.                             *)
LEMMA NewElement ==
  ASSUME NEW S, NEW s \in Seq(S), NEW e \in S, IsInjective(s), \A i \in DOMAIN s : s[i] # e
  PROVE  /\ Append(s, e) \in Seq(S) /\ IsInjective(Append(s, e))
         /\ Range(s) \subseteq Range(Append(s, e))
<1> DEFINE r == Append(s, e)
<1>1. Len(s) \in Nat /\ DOMAIN s = 1 .. Len(s)
  BY LenProperties
<1>2. /\ r \in Seq(S) /\ Len(r) = Len(s) + 1
      /\ \A i \in 1 .. Len(s) : r[i] = s[i]
      /\ r[Len(s) + 1] = e
  BY AppendProperties
<1> HIDE DEF r
<1>3. DOMAIN r = 1 .. Len(s) + 1
  BY <1>2, LenProperties
<1>4. ASSUME NEW i \in DOMAIN r, NEW j \in DOMAIN r, r[i] = r[j]
      PROVE  i = j
  <2>1. CASE i = Len(s) + 1 /\ j = Len(s) + 1
    BY <2>1
  <2>2. CASE i # Len(s) + 1 /\ j # Len(s) + 1
    <3>1. i \in DOMAIN s /\ j \in DOMAIN s
      BY <2>2, <1>1, <1>3
    <3>2. QED
      BY <3>1, <1>1, <1>2, <1>4 DEF IsInjective
  <2>3. CASE i = Len(s) + 1 /\ j # Len(s) + 1
    <3>1. j \in DOMAIN s
      BY <2>3, <1>1, <1>3
    <3>2. QED
      BY <3>1, <2>3, <1>1, <1>2, <1>4
  <2>4. CASE i # Len(s) + 1 /\ j = Len(s) + 1
    <3>1. i \in DOMAIN s
      BY <2>4, <1>1, <1>3
    <3>2. QED
      BY <3>1, <2>4, <1>1, <1>2, <1>4
  <2>5. QED
    BY <2>1, <2>2, <2>3, <2>4
<1>5. IsInjective(r)
  BY <1>4 DEF IsInjective
<1>6. ASSUME NEW i \in DOMAIN s
      PROVE  s[i] \in Range(r)
  <2>1. i \in DOMAIN r /\ r[i] = s[i]
    BY <1>1, <1>2, <1>3
  <2>2. QED
    BY <2>1 DEF Range
<1>7. Range(s) \subseteq Range(r)
  BY <1>6 DEF Range
<1>8. QED
  BY <1>2, <1>5, <1>7 DEF r

(* The first elements of a list without doubles have none.                 *)
LEMMA FirstElements ==
  ASSUME NEW S, NEW s \in Seq(S), NEW n \in 0 .. Len(s)
  PROVE  /\ SubSeq(s, 1, n) \in Seq(S) /\ Len(SubSeq(s, 1, n)) = n
         /\ \A i \in 1 .. n : i \in DOMAIN s /\ SubSeq(s, 1, n)[i] = s[i]
         /\ IsInjective(s) => IsInjective(SubSeq(s, 1, n))
<1> DEFINE r == SubSeq(s, 1, n)
<1>1. Len(s) \in Nat /\ DOMAIN s = 1 .. Len(s)
  BY LenProperties
<1>2. \A i \in 1 .. n : i \in DOMAIN s /\ s[i] \in S
  BY <1>1, ElementOfSeq
<1>3. /\ r \in Seq(S)
      /\ Len(r) = IF 1 <= n THEN n - 1 + 1 ELSE 0
      /\ \A i \in 1 .. n - 1 + 1 : r[i] = s[1 + i - 1]
  BY <1>1, <1>2, SubSeqProperties
<1> HIDE DEF r
<1>4. Len(r) = n
  BY <1>1, <1>3
<1>5. ASSUME NEW i \in 1 .. n
      PROVE  r[i] = s[i]
  <2>1. i \in 1 .. n - 1 + 1 /\ 1 + i - 1 = i
    BY <1>1
  <2>2. QED
    BY <2>1, <1>3
<1>6. DOMAIN r = 1 .. n
  BY <1>3, <1>4, LenProperties
<1>7. ASSUME IsInjective(s)
      PROVE  IsInjective(r)
  BY <1>2, <1>5, <1>6, <1>7 DEF IsInjective
<1>8. QED
  BY <1>2, <1>3, <1>4, <1>5, <1>7 DEF r

(* A known path changes places with the first one, a new one goes before   *)
(* the others, and the last of too many is dropped.                        *)
LEMMA PathRecorded ==
  ASSUME NEW h, NEW p \in Paths, SomePaths(h)
  PROVE  SomePaths(Recorded(h, p))
<1>1. /\ h \in Seq(Paths) /\ Len(h) \in Nat /\ DOMAIN h = 1 .. Len(h)
      /\ IsInjective(h) /\ Len(h) <= HistorySize /\ HistorySize \in Nat \ {0}
      /\ \A j \in DOMAIN h : h[j] \in Paths
  BY DatabasesAssumption, LenProperties, ElementOfSeq DEF SomePaths
<1>2. CASE p \in Range(h)
  <2> DEFINE i == CHOOSE j \in DOMAIN h : h[j] = p
             r == [h EXCEPT ![i] = h[1], ![1] = p]
             From(j) == IF j = 1 THEN i ELSE IF j = i THEN 1 ELSE j
  <2>1. i \in DOMAIN h /\ h[i] = p
    BY <1>2 DEF Range
  <2> HIDE DEF i
  <2>2. 1 \in DOMAIN h /\ h[1] \in Paths
    BY <2>1, <1>1
  <2>3. r \in Seq(Paths) /\ Len(r) = Len(h) /\ DOMAIN r = DOMAIN h
    BY <2>1, <2>2, <1>1
  <2>4. \A j \in DOMAIN h : From(j) \in DOMAIN h /\ r[j] = h[From(j)]
    BY <2>1, <2>2
  <2>5. ASSUME NEW j \in DOMAIN r, NEW k \in DOMAIN r, r[j] = r[k]
        PROVE  j = k
    <3>1. From(j) = From(k)
      BY <2>3, <2>4, <2>5, <1>1 DEF IsInjective
    <3>2. QED
      BY <3>1
  <2>6. IsInjective(r)
    BY <2>5 DEF IsInjective
  <2>7. Recorded(h, p) = r
    BY <1>2 DEF Recorded, i
  <2>8. QED
    BY <2>3, <2>6, <2>7, <1>1 DEF SomePaths
<1>3. CASE p \notin Range(h)
  <2> DEFINE c == <<p>> \o h
  <2>1. /\ c \in Seq(Paths) /\ Len(c) = Len(h) + 1
        /\ \A j \in 1 .. Len(h) + 1 : c[j] = IF j <= 1 THEN p ELSE h[j - 1]
    <3>1. <<p>> \in Seq(Paths) /\ Len(<<p>>) = 1 /\ <<p>>[1] = p
      OBVIOUS
    <3>2. /\ c \in Seq(Paths) /\ Len(c) = 1 + Len(h)
          /\ \A j \in 1 .. 1 + Len(h) : c[j] = IF j <= 1 THEN <<p>>[j] ELSE h[j - 1]
      BY <3>1, <1>1, ConcatProperties
    <3> HIDE DEF c
    <3>3. ASSUME NEW j \in 1 .. Len(h) + 1
          PROVE  c[j] = IF j <= 1 THEN p ELSE h[j - 1]
      <4>1. j \in 1 .. 1 + Len(h)
        BY <1>1
      <4>2. j <= 1 => <<p>>[j] = p
        BY <3>1, <1>1
      <4>3. QED
        BY <3>2, <4>1, <4>2
    <3>4. Len(c) = Len(h) + 1
      BY <3>2, <1>1
    <3>5. c \in Seq(Paths)
      BY <3>2
    <3>6. QED
      BY <3>3, <3>4, <3>5
  <2> HIDE DEF c
  <2>2. DOMAIN c = 1 .. Len(h) + 1
    BY <2>1, LenProperties
  <2>3. ASSUME NEW j \in DOMAIN c, NEW k \in DOMAIN c, c[j] = c[k]
        PROVE  j = k
    <3>1. \A m \in DOMAIN h : h[m] # p
      BY <1>3 DEF Range
    <3>2. CASE j > 1 /\ k > 1
      <4>1. j - 1 \in DOMAIN h /\ k - 1 \in DOMAIN h /\ h[j - 1] = h[k - 1]
        BY <3>2, <2>1, <2>2, <2>3, <1>1
      <4>2. j - 1 = k - 1
        BY <4>1, <1>1 DEF IsInjective
      <4>3. QED
        BY <4>2, <2>2, <1>1
    <3>3. CASE j > 1 /\ ~(k > 1)
      <4>1. j - 1 \in DOMAIN h /\ h[j - 1] = p
        BY <3>3, <2>1, <2>2, <2>3, <1>1
      <4>2. QED
        BY <3>1, <4>1
    <3>4. CASE ~(j > 1) /\ k > 1
      <4>1. k - 1 \in DOMAIN h /\ h[k - 1] = p
        BY <3>4, <2>1, <2>2, <2>3, <1>1
      <4>2. QED
        BY <3>1, <4>1
    <3>5. CASE ~(j > 1) /\ ~(k > 1)
      BY <3>5, <2>2, <1>1
    <3>6. QED
      BY <3>2, <3>3, <3>4, <3>5
  <2>4. IsInjective(c)
    BY <2>3 DEF IsInjective
  <2>5. Recorded(h, p) = Trimmed(c)
    BY <1>3 DEF Recorded, c
  <2>6. CASE Len(c) > HistorySize
    <3>1. Len(c) - 1 \in 0 .. Len(c)
      BY <2>1, <1>1
    <3>2. /\ SubSeq(c, 1, Len(c) - 1) \in Seq(Paths)
          /\ Len(SubSeq(c, 1, Len(c) - 1)) = Len(c) - 1
          /\ IsInjective(SubSeq(c, 1, Len(c) - 1))
      BY <3>1, <2>1, <2>4, FirstElements
    <3>3. Len(c) - 1 <= HistorySize
      BY <2>1, <1>1
    <3>4. Recorded(h, p) = SubSeq(c, 1, Len(c) - 1)
      BY <2>5, <2>6 DEF Trimmed, Front
    <3>5. QED
      BY <3>2, <3>3, <3>4 DEF SomePaths
  <2>7. CASE ~(Len(c) > HistorySize)
    BY <2>1, <2>4, <2>5, <2>7, <1>1 DEF Trimmed, SomePaths
  <2>8. QED
    BY <2>6, <2>7
<1>4. QED
  BY <1>2, <1>3

-----------------------------------------------------------------------------
LEMMA FunctionIsSeq ==
  ASSUME NEW S, NEW n \in Nat, NEW f \in [1 .. n -> S]
  PROVE  f \in Seq(S) /\ Len(f) = n
OBVIOUS

LEMMA EmptyIsStorable ==
  /\ SomeTasks(<< >>) /\ SomeProxies(<< >>) /\ SomePaths(<< >>)
  /\ \A db \in DBs : Storable(db, << >>)
<1>1. SomeTasks(<< >>) /\ SomeProxies(<< >>) /\ SomePaths(<< >>)
  BY DatabasesAssumption DEF SomeTasks, SomeProxies, SomePaths, IsInjective
<1>2. QED
  BY <1>1 DEF Storable

(* What a crash, or a full disk, leaves of a list.                         *)
LEMMA PartIsStorable ==
  ASSUME NEW db \in DBs, NEW l, Storable(db, l), NEW n \in 0 .. Len(l)
  PROVE  Storable(db, SubSeq(l, 1, n)) /\ Len(SubSeq(l, 1, n)) = n
<1> DEFINE r == SubSeq(l, 1, n)
<1>1. db \in {"task", "proxy", "config"}
  BY DatabasesAssumption
<1>2. CASE db = "task"
  <2>1. l \in Seq(Entry) /\ \A i \in DOMAIN l : l[i].via = None
    BY <1>2 DEF Storable, SomeTasks
  <2>2. /\ r \in Seq(Entry) /\ Len(r) = n
        /\ \A i \in 1 .. n : i \in DOMAIN l /\ r[i] = l[i]
    BY <2>1, FirstElements
  <2> HIDE DEF r
  <2>3. DOMAIN r = 1 .. n
    BY <2>2, LenProperties
  <2>4. SomeTasks(r)
    BY <2>1, <2>2, <2>3 DEF SomeTasks
  <2>5. QED
    BY <2>2, <2>4, <1>2 DEF Storable, r
<1>3. CASE db = "proxy"
  <2>1. l \in Seq(ProxyNames) /\ IsInjective(l)
    BY <1>3 DEF Storable, SomeProxies
  <2>2. r \in Seq(ProxyNames) /\ Len(r) = n /\ IsInjective(r)
    BY <2>1, FirstElements
  <2>3. QED
    BY <2>2, <1>3 DEF Storable, SomeProxies
<1>4. CASE db = "config"
  <2>1. l \in Seq(Paths) /\ IsInjective(l) /\ Len(l) <= HistorySize /\ Len(l) \in Nat
    BY <1>4, LenProperties DEF Storable, SomePaths
  <2>2. r \in Seq(Paths) /\ Len(r) = n /\ IsInjective(r)
    BY <2>1, FirstElements
  <2>3. n <= HistorySize
    BY <2>1, DatabasesAssumption
  <2>4. QED
    BY <2>2, <2>3, <1>4 DEF Storable, SomePaths
<1>5. QED
  BY <1>1, <1>2, <1>3, <1>4

(* A saved task loses its object, and nothing else.                        *)
LEMMA SavedTasks ==
  ASSUME NEW l \in Seq(Entry)
  PROVE  /\ SomeTasks(Saved(l)) /\ DOMAIN Saved(l) = DOMAIN l
         /\ \A i \in DOMAIN l : Saved(l)[i].status = l[i].status
<1>1. /\ Len(l) \in Nat /\ DOMAIN l = 1 .. Len(l)
      /\ \A i \in DOMAIN l : l[i] \in Entry
  BY LenProperties, ElementOfSeq
<1>2. \A i \in DOMAIN l : /\ [l[i] EXCEPT !.via = None] \in Entry
                          /\ [l[i] EXCEPT !.via = None].via = None
                          /\ [l[i] EXCEPT !.via = None].status = l[i].status
  BY <1>1 DEF Entry
<1>3. /\ DOMAIN Saved(l) = 1 .. Len(l)
      /\ Saved(l) \in [1 .. Len(l) -> Entry]
      /\ \A i \in DOMAIN l : Saved(l)[i] = [l[i] EXCEPT !.via = None]
  BY <1>1, <1>2 DEF Saved
<1>4. Saved(l) \in Seq(Entry)
  BY <1>1, <1>3, FunctionIsSeq
<1>5. SomeTasks(Saved(l))
  BY <1>1, <1>2, <1>3, <1>4 DEF SomeTasks
<1>6. QED
  BY <1>1, <1>2, <1>3, <1>5

LEMMA WholeIsStorable ==
  ASSUME Lists, NEW db \in DBs
  PROVE  Storable(db, InMemory[db])
<1>1. db \in {"task", "proxy", "config"}
  BY DatabasesAssumption
<1>2. SomeTasks(Saved(tasks))
  BY SavedTasks DEF Lists
<1>3. QED
  BY <1>1, <1>2 DEF InMemory, Storable, Lists

LEMMA ReadLists ==
  ASSUME Disk
  PROVE  /\ SomeTasks(ReadTaskDB) /\ SomeProxies(ReadProxyDB) /\ SomePaths(ReadConfig)
         /\ ~excused /\ Quiet => NoneRuns(ReadTaskDB)
<1>1. \A db \in DBs : Storable(db, files[db].records)
  BY DEF Disk, Kept
<1>2. \A db : Accepted(db) => db \in DBs
  BY DEF Accepted
<1>3. SomeProxies(ReadProxyDB) /\ SomePaths(ReadConfig)
  BY <1>1, <1>2, EmptyIsStorable DEF ReadProxyDB, ReadConfig, Storable
<1>4. CASE Accepted("task")
  <2> DEFINE l == files["task"].records
             v == files["task"].ver
  <2>1. l \in Seq(Entry) /\ \A i \in DOMAIN l : l[i].via = None
    BY <1>1, <1>2, <1>4 DEF Storable, SomeTasks
  <2>2. ReadTaskDB = [i \in DOMAIN l |-> Upgrade(l[i], v)]
    BY <1>4 DEF ReadTaskDB
  <2>3. ~excused /\ Quiet => NoneRuns(l)
    BY <1>2, <1>4 DEF Quiet
  <2> HIDE DEF l, v
  <2>4. /\ Len(l) \in Nat /\ DOMAIN l = 1 .. Len(l)
        /\ \A i \in DOMAIN l : l[i] \in Entry
    BY <2>1, LenProperties, ElementOfSeq
  <2>5. \A i \in DOMAIN l : /\ Upgrade(l[i], v) \in Entry
                            /\ Upgrade(l[i], v).via = l[i].via
                            /\ Upgrade(l[i], v).status = l[i].status
    BY <2>4 DEF Entry, Upgrade
  <2>6. ReadTaskDB \in [1 .. Len(l) -> Entry] /\ DOMAIN ReadTaskDB = 1 .. Len(l)
    BY <2>2, <2>4, <2>5
  <2>7. ReadTaskDB \in Seq(Entry)
    BY <2>4, <2>6, FunctionIsSeq
  <2>8. \A i \in DOMAIN l : /\ ReadTaskDB[i].via = None
                            /\ ReadTaskDB[i].status = l[i].status
    BY <2>1, <2>2, <2>5
  <2>9. QED
    BY <1>3, <2>3, <2>4, <2>6, <2>7, <2>8 DEF SomeTasks, NoneRuns
<1>5. CASE ~Accepted("task")
  BY <1>3, <1>5, EmptyIsStorable DEF ReadTaskDB, NoneRuns
<1>6. QED
  BY <1>4, <1>5

(* A handler gives one task another status and another object.             *)
Changed(l, i, st, v, m) ==
  /\ m \in Seq(Entry) /\ DOMAIN m = DOMAIN l
  /\ m[i].status = st /\ m[i].via = v /\ m[i].proxy = l[i].proxy
  /\ \A j \in DOMAIN l \ {i} : m[j] = l[j]

LEMMA TaskReplaced ==
  ASSUME NEW l \in Seq(Entry), NEW i \in DOMAIN l, NEW e \in Entry
  PROVE  /\ [l EXCEPT ![i] = e] \in Seq(Entry) /\ DOMAIN [l EXCEPT ![i] = e] = DOMAIN l
         /\ [l EXCEPT ![i] = e][i] = e
         /\ \A j \in DOMAIN l \ {i} : [l EXCEPT ![i] = e][j] = l[j]
OBVIOUS

LEMMA TaskChanged ==
  ASSUME NEW l \in Seq(Entry), NEW i \in DOMAIN l, NEW st \in Statuses,
         NEW v \in ProxyNames \cup {Direct, None},
         NEW m, m = [l EXCEPT ![i].status = st, ![i].via = v]
  PROVE  Changed(l, i, st, v, m)
<1> DEFINE e == [l[i] EXCEPT !.status = st, !.via = v]
           r == [l EXCEPT ![i] = e]
<1>1. /\ Len(l) \in Nat /\ DOMAIN l = 1 .. Len(l)
      /\ \A j \in DOMAIN l : l[j] \in Entry
  BY LenProperties, ElementOfSeq
<1>2. e \in Entry /\ e.status = st /\ e.via = v /\ e.proxy = l[i].proxy
  BY <1>1 DEF Entry
<1>3. m = r
  OBVIOUS
<1> HIDE DEF e
<1>4. /\ r \in Seq(Entry) /\ DOMAIN r = DOMAIN l /\ r[i] = e
      /\ \A j \in DOMAIN l \ {i} : r[j] = l[j]
  BY <1>2, TaskReplaced
<1> HIDE DEF r
<1>5. QED
  BY <1>2, <1>3, <1>4 DEF Changed

-----------------------------------------------------------------------------
LEMMA DiskStays ==
  ASSUME Disk, UNCHANGED <<files, goal, cut>>
  PROVE  Disk'
BY DEF Disk

(* A handler that only changes the lists: nothing is being saved.          *)
LEMMA ListStep ==
  ASSUME IInv, UNCHANGED <<window, disk, starts, excused>>,
         window \notin {"saving", "closing"},
         Lists', RunningHasObject', Routes', DirectHasReason'
  PROVE  IInv'
<1>1. Disk'
  BY DiskStays DEF IInv, disk
<1>2. queue = << >> /\ ~fp
  BY DEF IInv, Writing
<1>3. Writing'
  BY <1>2 DEF IInv, Writing, disk
<1>4. Quiet'
  BY <1>2 DEF IInv, Quiet, disk, NoneRuns
<1>5. QED
  BY <1>1, <1>3, <1>4 DEF IInv

(* A step of a save, or of the window, that leaves the lists alone.        *)
LEMMA ListsStay ==
  ASSUME IInv, UNCHANGED <<mem, starts, removed>>, cut' \subseteq DBs,
         window' \in {"down", "shown", "hidden", "asking", "saving", "closing"},
         excused' \in BOOLEAN, excused => excused'
  PROVE  Lists' /\ RunningHasObject' /\ Routes' /\ DirectHasReason'
<1>1. UNCHANGED <<tasks, proxies, history, starts, removed>>
  BY DEF mem
<1>2. Lists'
  BY <1>1 DEF IInv, Lists, SomeProxies, SomePaths
<1>3. RunningHasObject' /\ Routes' /\ DirectHasReason'
  BY <1>1 DEF IInv, RunningHasObject, Routes, DirectHasReason
<1>4. QED
  BY <1>2, <1>3

LEMMA AtFirst == Init => IInv
<1> SUFFICES ASSUME Init
             PROVE  IInv
  OBVIOUS
<1>1. /\ << >> \in Seq(DBs) /\ DOMAIN << >> = {} /\ << >> \in Seq(Entry)
  BY LenProperties
<1>2. PICK f \in Earlier \cup {Absent} :
        /\ files = [db \in DBs |-> IF db = "task" THEN f ELSE Absent]
        /\ goal = [db \in DBs |-> IF db = "task" THEN f.records ELSE << >>]
        /\ cut = IF f.ver > 5 THEN {"task"} \cap DBs ELSE {}
  BY DEF Init
<1>3. Lists
  <2>1. cut \subseteq DBs
    BY <1>2
  <2>2. QED
    BY <1>1, <2>1, EmptyIsStorable DEF Init, Lists
<1>4. Writing /\ RunningHasObject /\ Routes /\ DirectHasReason
  BY <1>1 DEF Init, Writing, RunningHasObject, Routes, DirectHasReason
<1> DEFINE First(v) ==
             File("final", v, 1, <<Task("pause", Direct, {x \in Fields : Since[x] <= v}, None)>>)
           Fine(x) == /\ x.head \in {"none", "final"}
                      /\ NoneRuns(x.records) /\ SomeTasks(x.records)
                      /\ x = File(x.head, x.ver, x.count, x.records)
           Told(x) == /\ x.head = "final" => /\ x.ver \in 1 .. 6 /\ x.count = Len(x.records)
                                             /\ \A i \in DOMAIN x.records :
                                                  \A y \in x.records[i].fields : Since[y] <= x.ver
                      /\ x.head = "none" => x.ver = 0 /\ x.records = << >>
<1>5. f = Absent \/ \E v \in 1 .. 6 : f = First(v)
  BY DEF Earlier
<1>6. Fine(Absent) /\ Told(Absent)
  BY <1>1, EmptyIsStorable DEF Absent, File, NoneRuns
<1>7. ASSUME NEW v \in 1 .. 6
      PROVE  Fine(First(v)) /\ Told(First(v))
  <2> DEFINE t == Task("pause", Direct, {x \in Fields : Since[x] <= v}, None)
  <2>1. /\ t \in Entry /\ t.via = None /\ t.status = "pause"
        /\ \A y \in t.fields : Since[y] <= v
    BY DEF Task, Entry, Statuses
  <2> HIDE DEF t
  <2>2. <<t>> \in Seq(Entry) /\ Len(<<t>>) = 1 /\ DOMAIN <<t>> = 1 .. 1 /\ <<t>>[1] = t
    BY <2>1
  <2>3. SomeTasks(<<t>>) /\ NoneRuns(<<t>>)
    BY <2>1, <2>2 DEF SomeTasks, NoneRuns
  <2>4. First(v) = File("final", v, 1, <<t>>)
    BY DEF t
  <2> HIDE DEF First
  <2>5. /\ First(v).records = <<t>> /\ First(v).head = "final"
        /\ First(v).ver = v /\ First(v).count = 1
    BY <2>4 DEF File
  <2>6. Fine(First(v))
    BY <2>3, <2>4, <2>5
  <2>7. Told(First(v))
    BY <2>1, <2>2, <2>5
  <2>8. QED
    BY <2>6, <2>7
<1> HIDE DEF First, Fine, Told
<1>8. Fine(f) /\ Told(f)
  BY <1>5, <1>6, <1>7
<1>9. Quiet
  <2>1. ~(\E i \in DOMAIN queue : queue[i] = "task")
    BY <1>1 DEF Init
  <2>2. QED
    BY <1>2, <1>8, <2>1 DEF Quiet, Fine
<1>10. ASSUME NEW db \in DBs
       PROVE  Kept(db, files[db], goal[db], cut)
  <2>1. CASE db = "task"
    <3>1. files[db] = f /\ goal[db] = f.records
      BY <1>2, <2>1
    <3>2. Storable(db, f.records)
      BY <1>8, <2>1 DEF Fine, Storable
    <3>3. Len(f.records) \in Nat
      BY <1>8, LenProperties DEF Fine, SomeTasks
    <3>4. db \notin cut => f.head = "none" \/ f.ver \in 1 .. 5
      <4>1. db \notin cut => ~(f.ver > 5)
        BY <1>2, <2>1
      <4>2. QED
        BY <4>1, <1>8 DEF Fine, Told
    <3>5. Readable(db) = 0 .. 5
      BY <2>1 DEF Readable
    <3>6. Kept(db, f, f.records, cut)
      BY <3>2, <3>3, <3>4, <3>5, <1>8 DEF Kept, Stored, Fine, Told
    <3>7. QED
      BY <3>1, <3>6
  <2>2. CASE db # "task"
    <3>1. files[db] = Absent /\ goal[db] = << >>
      BY <1>2, <2>2
    <3>2. /\ Absent.head = "none" /\ Absent.records = << >>
          /\ Absent = File(Absent.head, Absent.ver, Absent.count, Absent.records)
      BY DEF Absent, File
    <3>3. Kept(db, Absent, << >>, cut)
      BY <3>2, EmptyIsStorable DEF Kept
    <3>4. QED
      BY <3>1, <3>3
  <2>3. QED
    BY <2>1, <2>2
<1>11. Disk
  BY <1>2, <1>10 DEF Disk
<1>12. QED
  BY <1>3, <1>4, <1>9, <1>11 DEF IInv

-----------------------------------------------------------------------------
LEMMA KeptByStart == IInv /\ Start => IInv'
<1> SUFFICES ASSUME IInv, Start
             PROVE  IInv'
  OBVIOUS
<1>1. /\ window' = "shown" /\ starts' = starts + 1 /\ UNCHANGED <<disk, excused>>
      /\ tasks' = ReadTaskDB /\ proxies' = ReadProxyDB /\ history' = ReadConfig
      /\ removed' = removed \cup
           ({tasks'[i].proxy : i \in DOMAIN tasks'} \ (Range(proxies') \cup {Direct}))
  BY DEF Start
<1>2. /\ SomeTasks(tasks') /\ SomeProxies(proxies') /\ SomePaths(history')
      /\ ~excused /\ Quiet => NoneRuns(tasks')
  BY <1>1, ReadLists DEF IInv
<1>3. tasks' \in Seq(Entry) /\ \A i \in DOMAIN tasks' : tasks'[i] \in Entry /\ tasks'[i].via = None
  BY <1>2, LenProperties, ElementOfSeq DEF SomeTasks
<1>4. removed' \subseteq ProxyNames
  <2>1. \A i \in DOMAIN tasks' : tasks'[i].proxy \in ProxyNames \cup {Direct}
    BY <1>3 DEF Entry
  <2>2. QED
    BY <1>1, <2>1 DEF IInv, Lists
<1>5. Lists'
  BY <1>1, <1>2, <1>3, <1>4 DEF IInv, Lists, disk
<1>6. Disk'
  BY <1>1, DiskStays DEF IInv, disk
<1>7. queue = << >> /\ ~fp
  BY DEF IInv, Writing, Start
<1>8. Writing'
  BY <1>1, <1>7 DEF IInv, Writing, disk
<1>9. Quiet'
  BY <1>1, <1>7 DEF IInv, Quiet, disk, NoneRuns
<1>10. RunningHasObject'
  BY <1>1, <1>2 DEF IInv, RunningHasObject, NoneRuns
<1>11. Routes' /\ DirectHasReason'
  BY <1>1, <1>3 DEF Routes, DirectHasReason, Direct, None
<1>12. QED
  BY <1>5, <1>6, <1>8, <1>9, <1>10, <1>11 DEF IInv

(* Where a handler may change the lists, no file is being saved.           *)
LEMMA KeptByNewTask ==
  ASSUME IInv, NEW st \in {"waiting", "pause"}, NEW p \in {Direct} \cup Range(proxies),
         NEW f \in SUBSET Fields, NEW path \in Paths, NewTask(st, p, f, path)
  PROVE  IInv'
<1> DEFINE t == Task(st, p, f, None)
<1>1. /\ window \in {"shown", "hidden"} /\ UNCHANGED <<window, proxies, disk, ghosts>>
      /\ tasks' = Append(tasks, t) /\ history' = Recorded(history, path)
  BY DEF NewTask, Idle
<1>2. tasks \in Seq(Entry) /\ SomeProxies(proxies) /\ SomePaths(history)
  BY DEF IInv, Lists
<1>3. Range(proxies) \subseteq ProxyNames
  BY <1>2, RangeOfSeq DEF SomeProxies
<1>4. t \in Entry /\ t.via = None /\ t.status # "running" /\ t.proxy = p
  BY <1>3 DEF Task, Entry, Statuses
<1> HIDE DEF t
<1>5. /\ tasks' \in Seq(Entry) /\ DOMAIN tasks' = DOMAIN tasks \cup {Len(tasks) + 1}
      /\ \A i \in DOMAIN tasks : tasks'[i] = tasks[i]
      /\ tasks'[Len(tasks) + 1] = t
  <2>1. /\ tasks' \in Seq(Entry) /\ Len(tasks') = Len(tasks) + 1
        /\ \A i \in 1 .. Len(tasks) : tasks'[i] = tasks[i]
        /\ tasks'[Len(tasks) + 1] = t
    BY <1>1, <1>2, <1>4, AppendProperties
  <2>2. DOMAIN tasks = 1 .. Len(tasks) /\ DOMAIN tasks' = 1 .. Len(tasks') /\ Len(tasks) \in Nat
    BY <1>2, <2>1, LenProperties
  <2>3. QED
    BY <2>1, <2>2
<1>6. Lists'
  BY <1>1, <1>2, <1>5, PathRecorded DEF IInv, Lists, disk, ghosts
<1>7. RunningHasObject'
  BY <1>1, <1>4, <1>5 DEF IInv, RunningHasObject, ghosts
<1>8. Routes' /\ DirectHasReason'
  BY <1>1, <1>4, <1>5 DEF IInv, Routes, DirectHasReason, ghosts, Direct, None
<1>9. QED
  BY <1>1, <1>6, <1>7, <1>8, ListStep DEF ghosts

(* One task changes its status and its object.                             *)
LEMMA TaskStep ==
  ASSUME IInv, NEW i \in DOMAIN tasks, NEW st \in Statuses,
         NEW v \in ProxyNames \cup {Direct, None},
         tasks' = [tasks EXCEPT ![i].status = st, ![i].via = v],
         UNCHANGED <<window, proxies, history, disk, ghosts>>,
         window \notin {"saving", "closing"},
         st = "running" => v # None,
         v = Direct /\ tasks[i].proxy # Direct => tasks[i].proxy \in removed
  PROVE  IInv'
<1>1. tasks \in Seq(Entry)
  BY DEF IInv, Lists
<1>2. Changed(tasks, i, st, v, tasks')
  BY <1>1, TaskChanged
<1>3. UNCHANGED <<starts, excused, removed, cut>>
  BY DEF ghosts, disk
<1>4. Lists'
  BY <1>2, <1>3 DEF IInv, Lists, SomeProxies, SomePaths, Changed
<1>5. RunningHasObject'
  BY <1>2, <1>3 DEF IInv, RunningHasObject, Changed
<1>6. Routes' /\ DirectHasReason'
  BY <1>2, <1>3 DEF IInv, Routes, DirectHasReason, Changed
<1>7. QED
  BY <1>3, <1>4, <1>5, <1>6, ListStep

LEMMA KeptByRun ==
  ASSUME IInv, NEW i \in DOMAIN tasks, Run(i)
  PROVE  IInv'
<1>1. tasks[i] \in Entry
  BY LenProperties, ElementOfSeq DEF IInv, Lists
<1>2. Route(tasks[i].proxy) \in ProxyNames \cup {Direct}
  BY <1>1 DEF Route, Entry
<1>3. Route(tasks[i].proxy) # None
  BY <1>2, NamesAssumption DEF Direct, None
<1>4. Route(tasks[i].proxy) = Direct /\ tasks[i].proxy # Direct => tasks[i].proxy \in removed
  BY DEF IInv, Routes, Route, GetProxyByName
<1>5. "running" \in Statuses
  BY DEF Statuses
<1>6. QED
  BY <1>2, <1>3, <1>4, <1>5, TaskStep DEF Run, Idle

LEMMA KeptByLeave ==
  ASSUME IInv, NEW i \in DOMAIN tasks, NEW st \in Statuses, Leave(i, st)
  PROVE  IInv'
<1>1. st # "running" /\ None # Direct
  BY DEF Leave, None, Direct
<1>2. window \notin {"saving", "closing"}
  BY DEF Leave, Idle
<1>3. QED
  BY <1>1, <1>2, TaskStep DEF Leave

LEMMA KeptByErase ==
  ASSUME IInv, NEW i \in DOMAIN tasks, Erase(i)
  PROVE  IInv'
<1>1. /\ UNCHANGED <<window, proxies, history, disk, ghosts>>
      /\ tasks' = RemoveAt(tasks, i) /\ window \notin {"saving", "closing"}
  BY DEF Erase, Idle
<1>2. /\ tasks \in Seq(Entry) /\ Len(tasks) \in Nat /\ DOMAIN tasks = 1 .. Len(tasks)
  BY LenProperties DEF IInv, Lists
<1>3. /\ tasks' \in Seq(Entry) /\ Len(tasks') = Len(tasks) - 1
      /\ \A j \in 1 .. Len(tasks) - 1 :
           tasks'[j] = IF j < i THEN tasks[j] ELSE tasks[j + 1]
  BY <1>1, <1>2, RemovedElements
<1>4. DOMAIN tasks' = 1 .. Len(tasks) - 1
  BY <1>3, LenProperties
<1>5. \A j \in DOMAIN tasks' : \E k \in DOMAIN tasks : tasks'[j] = tasks[k]
  <2>1. ASSUME NEW j \in DOMAIN tasks'
        PROVE  \E k \in DOMAIN tasks : tasks'[j] = tasks[k]
    <3>1. j \in DOMAIN tasks /\ j + 1 \in DOMAIN tasks
      BY <1>2, <1>4
    <3>2. tasks'[j] = IF j < i THEN tasks[j] ELSE tasks[j + 1]
      BY <1>3, <1>4
    <3>3. QED
      BY <3>1, <3>2
  <2>2. QED
    BY <2>1
<1>6. UNCHANGED <<starts, excused, removed, cut>>
  BY <1>1 DEF ghosts, disk
<1>7. Lists'
  BY <1>1, <1>3, <1>6 DEF IInv, Lists, SomeProxies, SomePaths
<1>8. RunningHasObject' /\ Routes' /\ DirectHasReason'
  BY <1>1, <1>5, <1>6 DEF IInv, RunningHasObject, Routes, DirectHasReason
<1>9. QED
  BY <1>1, <1>6, <1>7, <1>8, ListStep

(* The list of proxies changes, and no task loses its proxy by that.       *)
LEMMA ProxyStep ==
  ASSUME IInv, SomeProxies(proxies'), removed' \in SUBSET ProxyNames,
         Range(proxies) \cup removed \subseteq Range(proxies') \cup removed',
         removed \subseteq removed',
         UNCHANGED <<window, tasks, history, disk, starts, excused>>,
         window \notin {"saving", "closing"}
  PROVE  IInv'
<1>1. Lists'
  BY DEF IInv, Lists, SomePaths, disk
<1>2. RunningHasObject' /\ Routes' /\ DirectHasReason'
  BY DEF IInv, RunningHasObject, Routes, DirectHasReason
<1>3. QED
  BY <1>1, <1>2, ListStep

LEMMA KeptByAddProxy ==
  ASSUME IInv, NEW n \in ProxyNames, AddProxy(n)
  PROVE  IInv'
<1>1. /\ proxies' = Append(proxies, n) /\ \A i \in DOMAIN proxies : proxies[i] # n
      /\ UNCHANGED <<window, tasks, history, disk, ghosts>>
      /\ window \notin {"saving", "closing"}
  BY DEF AddProxy, KnownProxy, Idle
<1>2. proxies \in Seq(ProxyNames) /\ IsInjective(proxies) /\ removed \subseteq ProxyNames
  BY DEF IInv, Lists, SomeProxies
<1>3. SomeProxies(proxies') /\ Range(proxies) \subseteq Range(proxies')
  BY <1>1, <1>2, NewElement DEF SomeProxies
<1>4. UNCHANGED <<starts, excused, removed>>
  BY <1>1 DEF ghosts
<1>5. QED
  BY <1>1, <1>2, <1>3, <1>4, ProxyStep

LEMMA KeptByRemoveProxy ==
  ASSUME IInv, NEW n \in ProxyNames, RemoveProxy(n)
  PROVE  IInv'
<1>1. /\ proxies' = RemoveFirst(proxies, n) /\ removed' = removed \cup {n}
      /\ UNCHANGED <<window, tasks, history, disk, starts, excused>>
      /\ window \notin {"saving", "closing"}
  BY DEF RemoveProxy, Idle
<1>2. /\ proxies \in Seq(ProxyNames) /\ IsInjective(proxies) /\ removed \subseteq ProxyNames
      /\ DOMAIN proxies = 1 .. Len(proxies)
  BY LenProperties DEF IInv, Lists, SomeProxies
<1>3. PICK k \in 1 .. Len(proxies) : proxies[k] = n
  BY <1>2 DEF RemoveProxy, KnownProxy
<1>4. proxies' = RemoveAt(proxies, k)
  BY <1>1, <1>2, <1>3, FirstNamed
<1>5. /\ proxies' \in Seq(ProxyNames) /\ IsInjective(proxies')
      /\ Range(proxies) \subseteq Range(proxies') \cup {n}
  BY <1>2, <1>3, <1>4, NoneRemoved
<1>6. QED
  BY <1>1, <1>2, <1>5, ProxyStep DEF SomeProxies
-----------------------------------------------------------------------------
(* A step of the window that writes nothing.                               *)
LEMMA WindowStep ==
  ASSUME IInv, Lists', RunningHasObject', Routes', DirectHasReason',
         UNCHANGED <<files, fp, goal, cut>>, ~fp, excused => excused',
         queue' \in Seq(DBs), queue' # << >> => window' \in {"saving", "closing"},
         excused' \/ NoneRuns(tasks') \/ \A i \in DOMAIN queue' : queue'[i] # "task"
  PROVE  IInv'
<1>1. Disk'
  BY DiskStays DEF IInv
<1>2. Writing'
  BY DEF IInv, Writing
<1>3. Quiet'
  BY DEF IInv, Quiet, NoneRuns
<1>4. QED
  BY <1>1, <1>2, <1>3 DEF IInv

LEMMA AllFiles == All \in Seq(DBs)
BY DEF All, Only

(* What the lists hold at a close: with no object left, no task runs.      *)
LEMMA KeptByWindow ==
  ASSUME IInv, HideOrShow \/ OnClose \/ SayNo \/ ForcedClose
  PROVE  IInv'
<1>1. /\ UNCHANGED <<mem, files, fp, goal, cut, starts, removed>>
      /\ window \in {"shown", "hidden", "asking"}
  BY DEF HideOrShow, OnClose, SayNo, ForcedClose, Idle, disk, ghosts
<1>2. queue = << >> /\ ~fp
  BY <1>1 DEF IInv, Writing
<1>3. << >> \in Seq(DBs) /\ DOMAIN << >> = {}
  BY LenProperties
<1>4. Objects(tasks) = {} => excused \/ NoneRuns(tasks)
  BY DEF IInv, RunningHasObject, Objects, NoneRuns
<1>5. /\ excused' \in BOOLEAN
      /\ excused => excused'
      /\ window' \in {"down", "shown", "hidden", "asking", "saving", "closing"}
      /\ queue' \in Seq(DBs)
      /\ queue' # << >> => window' \in {"saving", "closing"}
      /\ excused' \/ NoneRuns(tasks') \/ \A i \in DOMAIN queue' : queue'[i] # "task"
  <2>1. CASE HideOrShow \/ SayNo
    BY <2>1, <1>2, <1>3 DEF HideOrShow, SayNo, disk, ghosts, IInv, Lists
  <2>2. CASE OnClose
    BY <2>2, <1>2, <1>3, <1>4, AllFiles DEF OnClose, mem, ghosts, IInv, Lists, NoneRuns
  <2>3. CASE ForcedClose
    BY <2>3, <1>4, AllFiles DEF ForcedClose, mem, IInv, Lists, NoneRuns
  <2>4. QED
    BY <2>1, <2>2, <2>3
<1>6. UNCHANGED <<mem, starts, removed>> /\ UNCHANGED <<files, fp, goal, cut>>
  BY <1>1
<1>7. cut' \subseteq DBs
  BY <1>1 DEF IInv, Lists
<1>8. Lists' /\ RunningHasObject' /\ Routes' /\ DirectHasReason'
  BY <1>5, <1>6, <1>7, ListsStay
<1>9. QED
  BY <1>2, <1>5, <1>6, <1>8, WindowStep

LEMMA KeptByOnSave ==
  ASSUME IInv, NEW db \in DBs, OnSave(db)
  PROVE  IInv'
<1>1. /\ UNCHANGED <<mem, starts, removed>> /\ UNCHANGED <<files, fp, goal, cut>>
      /\ window = "shown" /\ window' = "saving" /\ queue' = <<db>>
      /\ excused' = (excused \/ (db = "task" /\ Objects(tasks) # {}))
  BY DEF OnSave
<1>2. ~fp
  BY <1>1 DEF IInv, Writing
<1>3. queue' \in Seq(DBs) /\ \A i \in DOMAIN queue' : queue'[i] = db
  BY <1>1
<1>4. excused' \in BOOLEAN
  BY <1>1 DEF IInv, Lists
<1>5. excused' \/ NoneRuns(tasks') \/ \A i \in DOMAIN queue' : queue'[i] # "task"
  <2>1. Objects(tasks) = {} => excused \/ NoneRuns(tasks)
    BY DEF IInv, RunningHasObject, Objects, NoneRuns
  <2>2. tasks' = tasks
    BY <1>1 DEF mem
  <2>3. QED
    BY <1>1, <1>3, <2>1, <2>2
<1>6. cut' \subseteq DBs
  BY <1>1 DEF IInv, Lists
<1>7. Lists' /\ RunningHasObject' /\ Routes' /\ DirectHasReason'
  BY <1>1, <1>4, <1>6, ListsStay
<1>8. QED
  BY <1>1, <1>2, <1>3, <1>5, <1>7, WindowStep

LEMMA KeptBySayYes ==
  ASSUME IInv, SayYes
  PROVE  IInv'
<1>1. /\ window = "asking" /\ window' = "closing" /\ queue' = All /\ tasks' = StopAllTask
      /\ UNCHANGED <<proxies, history, starts, excused, removed>>
      /\ UNCHANGED <<files, fp, goal, cut>>
  BY DEF SayYes, ghosts
<1>2. ~fp
  BY <1>1 DEF IInv, Writing
<1>3. /\ Len(tasks) \in Nat /\ DOMAIN tasks = 1 .. Len(tasks)
      /\ \A i \in DOMAIN tasks : tasks[i] \in Entry
  BY LenProperties, ElementOfSeq DEF IInv, Lists
<1> DEFINE Stopped(i) ==
             [tasks[i] EXCEPT !.status = IF @ \in {"waiting", "running"} THEN "pause" ELSE @,
                              !.via = None]
<1>4. \A i \in DOMAIN tasks :
        /\ Stopped(i) \in Entry /\ Stopped(i).via = None /\ Stopped(i).status # "running"
        /\ Stopped(i).proxy = tasks[i].proxy
  BY <1>3 DEF Entry, Statuses
<1>5. /\ DOMAIN tasks' = 1 .. Len(tasks)
      /\ \A i \in DOMAIN tasks : tasks'[i] = Stopped(i)
      /\ tasks' = [i \in 1 .. Len(tasks) |-> Stopped(i)]
  BY <1>1, <1>3 DEF StopAllTask
<1> HIDE DEF Stopped
<1>6. tasks' \in [1 .. Len(tasks) -> Entry]
  BY <1>3, <1>4, <1>5
<1>7. tasks' \in Seq(Entry)
  BY <1>3, <1>6, FunctionIsSeq
<1>8. /\ NoneRuns(tasks')
      /\ \A i \in DOMAIN tasks' : tasks'[i].via = None /\ tasks'[i].proxy = tasks[i].proxy
  BY <1>3, <1>4, <1>5 DEF NoneRuns
<1>9. Lists'
  BY <1>1, <1>7 DEF IInv, Lists, SomeProxies, SomePaths
<1>10. RunningHasObject'
  BY <1>8 DEF RunningHasObject, NoneRuns
<1>11. Routes' /\ DirectHasReason'
  BY <1>1, <1>3, <1>5, <1>8 DEF IInv, Routes, DirectHasReason, Direct, None
<1>12. QED
  BY <1>1, <1>2, <1>8, <1>9, <1>10, <1>11, WindowStep, AllFiles
-----------------------------------------------------------------------------
LEMMA CurrentIsFile ==
  ASSUME IInv, Saving
  PROVE  /\ Current \in DBs /\ Storable(Current, Whole) /\ Len(Whole) \in Nat
         /\ window \in {"saving", "closing"}
         /\ Tail(queue) \in Seq(DBs)
         /\ \E i \in DOMAIN queue : queue[i] = Current
         /\ \A i \in DOMAIN Tail(queue) : \E j \in DOMAIN queue : queue[j] = Tail(queue)[i]
<1>1. queue \in Seq(DBs) /\ queue # << >> /\ window \in {"saving", "closing"}
  BY DEF IInv, Writing, Saving
<1>2. Current \in DBs /\ Tail(queue) \in Seq(DBs)
  BY <1>1, HeadTailProperties DEF Current
<1>3. Storable(Current, Whole)
  BY <1>2, WholeIsStorable DEF IInv, Whole
<1>4. Len(Whole) \in Nat
  <2>1. Current \in {"task", "proxy", "config"}
    BY <1>2, DatabasesAssumption
  <2>2. Whole \in Seq(Entry) \/ Whole \in Seq(ProxyNames) \/ Whole \in Seq(Paths)
    BY <1>3, <2>1 DEF Storable, SomeTasks, SomeProxies, SomePaths
  <2>3. QED
    BY <2>2, LenProperties
<1>5. /\ DOMAIN queue = 1 .. Len(queue) /\ Len(queue) \in Nat \ {0}
      /\ DOMAIN Tail(queue) = 1 .. Len(queue) - 1
      /\ \A i \in 1 .. Len(queue) - 1 : Tail(queue)[i] = queue[i + 1]
  BY <1>1, <1>2, HeadTailProperties, LenProperties, EmptySeq
<1>6. queue[1] = Current /\ 1 \in DOMAIN queue
  BY <1>1, <1>5 DEF Current
<1>7. ASSUME NEW i \in DOMAIN Tail(queue)
      PROVE  \E j \in DOMAIN queue : queue[j] = Tail(queue)[i]
  <2>1. i + 1 \in DOMAIN queue /\ queue[i + 1] = Tail(queue)[i]
    BY <1>5
  <2>2. QED
    BY <2>1
<1>8. QED
  BY <1>1, <1>2, <1>3, <1>4, <1>6, <1>7

(* A step of a save changes one file.                                      *)
LEMMA FileStep ==
  ASSUME IInv, NEW d \in DBs, NEW f, NEW g,
         files' = [files EXCEPT ![d] = f], goal' = [goal EXCEPT ![d] = g],
         Kept(d, f, g, cut'), cut \subseteq cut' \cup {d}
  PROVE  /\ Disk'
         /\ files'[d] = f /\ goal'[d] = g
         /\ \A db \in DBs \ {d} : files'[db] = files[db] /\ goal'[db] = goal[db]
<1>1. /\ files = [db \in DBs |-> files[db]] /\ goal = [db \in DBs |-> goal[db]]
      /\ \A db \in DBs : Kept(db, files[db], goal[db], cut)
  BY DEF IInv, Disk
<1>2. /\ files'[d] = f /\ goal'[d] = g
      /\ \A db \in DBs \ {d} : files'[db] = files[db] /\ goal'[db] = goal[db]
      /\ files' = [db \in DBs |-> files'[db]] /\ goal' = [db \in DBs |-> goal'[db]]
  BY <1>1
<1>3. \A db \in DBs \ {d} : Kept(db, files[db], goal[db], cut')
  BY <1>1 DEF Kept
<1>4. \A db \in DBs : Kept(db, files'[db], goal'[db], cut')
  BY <1>2, <1>3
<1>5. QED
  BY <1>2, <1>4 DEF Disk

LEMMA KeptByOpenDB ==
  ASSUME IInv, OpenDB
  PROVE  IInv'
<1> DEFINE d == Current
           f == File("empty", 0, 0, << >>)
<1>1. /\ Saving /\ fp' = TRUE /\ cut' = cut \cup {d}
      /\ files' = [files EXCEPT ![d] = f] /\ goal' = [goal EXCEPT ![d] = Whole]
      /\ UNCHANGED <<mem, starts, removed>> /\ UNCHANGED <<window, queue, excused>>
  BY DEF OpenDB, ghosts
<1>2. /\ d \in DBs /\ Storable(d, Whole) /\ Len(Whole) \in Nat /\ queue # << >>
  BY <1>1, CurrentIsFile DEF Saving
<1>3. Current' = d /\ Whole' = Whole
  BY <1>1 DEF Current, Whole, InMemory, mem
<1> HIDE DEF d
<1>4. f.head = "empty" /\ f.records = << >> /\ f = File(f.head, f.ver, f.count, f.records)
  BY DEF File
<1> HIDE DEF f
<1>5. Kept(d, f, Whole, cut')
  BY <1>1, <1>2, <1>4, EmptyIsStorable DEF Kept
<1>6. /\ Disk' /\ files'[d] = f /\ goal'[d] = Whole
      /\ \A db \in DBs \ {d} : files'[db] = files[db]
  BY <1>1, <1>2, <1>5, FileStep
<1>7. Len(<< >>) = 0 /\ DOMAIN << >> = {}
  BY LenProperties
<1>8. Writing'
  BY <1>1, <1>2, <1>3, <1>4, <1>6, <1>7 DEF IInv, Writing
<1>9. NoneRuns(<< >>)
  BY <1>7 DEF NoneRuns
<1>10. Quiet'
  BY <1>1, <1>4, <1>6, <1>9 DEF IInv, Quiet, mem, NoneRuns
<1>11. /\ cut' \subseteq DBs /\ excused' \in BOOLEAN
       /\ window' \in {"down", "shown", "hidden", "asking", "saving", "closing"}
  BY <1>1, <1>2 DEF IInv, Lists
<1>12. Lists' /\ RunningHasObject' /\ Routes' /\ DirectHasReason'
  BY <1>1, <1>11, ListsStay
<1>13. QED
  BY <1>6, <1>8, <1>10, <1>12 DEF IInv

LEMMA KeptByFlush ==
  ASSUME IInv, NEW n \in Nat, Flush(n)
  PROVE  IInv'
<1> DEFINE d == Current
           part == SubSeq(Whole, 1, n)
           f == File("draft", Version(d), Len(Whole), part)
<1>1. /\ Saving /\ fp /\ n <= Len(Whole)
      /\ files' = [files EXCEPT ![d] = f]
      /\ UNCHANGED <<mem, starts, removed>>
      /\ UNCHANGED <<window, queue, fp, goal, cut, excused>>
  BY DEF Flush, ghosts
<1>2. /\ d \in DBs /\ Storable(d, Whole) /\ Len(Whole) \in Nat /\ queue # << >>
      /\ \E i \in DOMAIN queue : queue[i] = d
  BY <1>1, CurrentIsFile DEF Saving
<1>3. Current' = d /\ Whole' = Whole
  BY <1>1 DEF Current, Whole, InMemory, mem
<1>4. /\ d \in cut /\ goal[d] = Whole
  BY <1>1 DEF IInv, Writing
<1>5. Storable(d, part) /\ Len(part) = n
  BY <1>1, <1>2, PartIsStorable
<1>6. d = "task" /\ ~excused => NoneRuns(part)
  <2> SUFFICES ASSUME d = "task", ~excused
               PROVE  NoneRuns(part)
    OBVIOUS
  <2>1. NoneRuns(tasks)
    BY <1>2 DEF IInv, Quiet
  <2>2. Whole = Saved(tasks) /\ tasks \in Seq(Entry)
    BY DEF Whole, InMemory, IInv, Lists
  <2>3. /\ Whole \in Seq(Entry) /\ DOMAIN Whole = DOMAIN tasks
        /\ \A i \in DOMAIN tasks : Whole[i].status = tasks[i].status
    BY <2>2, SavedTasks DEF SomeTasks
  <2>4. /\ part \in Seq(Entry) /\ Len(part) = n
        /\ \A i \in 1 .. n : i \in DOMAIN Whole /\ part[i] = Whole[i]
    BY <2>3, <1>1, <1>2, FirstElements
  <2>5. DOMAIN part = 1 .. n
    BY <2>4, LenProperties
  <2>6. QED
    BY <2>1, <2>3, <2>4, <2>5 DEF NoneRuns
<1> HIDE DEF d, part
<1>7. /\ f.head = "draft" /\ f.records = part /\ f.ver = Version(d) /\ f.count = Len(Whole)
      /\ f = File(f.head, f.ver, f.count, f.records)
  BY DEF File
<1> HIDE DEF f
<1>8. Kept(d, f, Whole, cut')
  BY <1>1, <1>2, <1>4, <1>5, <1>7 DEF Kept
<1>9. /\ goal' = [goal EXCEPT ![d] = Whole] /\ cut \subseteq cut' \cup {d}
      /\ files' = [files EXCEPT ![d] = f] /\ d \in DBs
  BY <1>1, <1>2, <1>4 DEF IInv, Disk
<1>10. /\ Disk' /\ files'[d] = f
       /\ \A db \in DBs \ {d} : files'[db] = files[db]
  BY <1>8, <1>9, FileStep
<1>11. Writing'
  BY <1>1, <1>2, <1>3, <1>4, <1>5, <1>7, <1>10 DEF IInv, Writing
<1>12. Quiet'
  BY <1>1, <1>6, <1>7, <1>10 DEF IInv, Quiet, mem, NoneRuns
<1>13. /\ cut' \subseteq DBs /\ excused' \in BOOLEAN
       /\ window' \in {"down", "shown", "hidden", "asking", "saving", "closing"}
  BY <1>1 DEF IInv, Lists
<1>14. Lists' /\ RunningHasObject' /\ Routes' /\ DirectHasReason'
  BY <1>1, <1>13, ListsStay
<1>15. QED
  BY <1>10, <1>11, <1>12, <1>14 DEF IInv

(* The handler goes on to the next file, or ends.                          *)
LEMMA AfterSave ==
  ASSUME IInv, Saving, NextDB, UNCHANGED <<mem, starts, removed>>,
         UNCHANGED excused, cut' \subseteq cut, Disk',
         "task" \in DBs => files'["task"].records = files["task"].records
  PROVE  IInv'
<1>1. /\ queue' = Tail(queue) /\ fp' = FALSE
      /\ window' = IF queue' = << >> /\ window = "saving" THEN "shown" ELSE window
  BY DEF NextDB
<1>2. /\ window \in {"saving", "closing"} /\ queue' \in Seq(DBs)
      /\ \A i \in DOMAIN queue' : \E j \in DOMAIN queue : queue[j] = queue'[i]
  BY <1>1, CurrentIsFile
<1>3. Writing'
  BY <1>1, <1>2 DEF Writing
<1>4. Quiet'
  BY <1>2 DEF IInv, Quiet, NoneRuns, mem
<1>5. /\ cut' \subseteq DBs /\ excused' \in BOOLEAN
      /\ window' \in {"down", "shown", "hidden", "asking", "saving", "closing"}
  BY <1>1, <1>2 DEF IInv, Lists
<1>6. Lists' /\ RunningHasObject' /\ Routes' /\ DirectHasReason'
  BY <1>5, ListsStay
<1>7. QED
  BY <1>3, <1>4, <1>6 DEF IInv

LEMMA KeptByCannotOpen ==
  ASSUME IInv, CannotOpen
  PROVE  IInv'
<1>1. /\ Saving /\ NextDB /\ UNCHANGED <<mem, starts, removed>>
      /\ UNCHANGED <<files, goal, cut>> /\ UNCHANGED excused
  BY DEF CannotOpen, ghosts
<1>2. Disk'
  BY <1>1, DiskStays DEF IInv
<1>3. cut' \subseteq cut /\ files' = files
  BY <1>1
<1>4. QED
  BY <1>1, <1>2, <1>3, AfterSave

LEMMA KeptByFinishDB ==
  ASSUME IInv, FinishDB
  PROVE  IInv'
<1> DEFINE d == Current
           h == IF files[d].head = "draft" THEN "final" ELSE "none"
           f == File(h, files[d].ver, files[d].count, files[d].records)
<1>1. /\ Saving /\ fp /\ NextDB /\ UNCHANGED <<mem, starts, removed>>
      /\ files' = [files EXCEPT ![d].head = IF @ = "draft" THEN "final" ELSE "none"]
      /\ cut' = IF files[d].head = "draft" /\ files[d].records = Whole
                THEN cut \ {d} ELSE cut
      /\ UNCHANGED excused /\ UNCHANGED goal
  BY DEF FinishDB, ghosts
<1>2. /\ d \in DBs /\ Storable(d, Whole) /\ Len(Whole) \in Nat
  BY <1>1, CurrentIsFile
<1>3. /\ d \in cut /\ goal[d] = Whole
      /\ Len(files[d].records) <= Len(Whole)
      /\ files[d].head \in {"empty", "draft"}
      /\ files[d].head = "draft" =>
           files[d].ver = Version(d) /\ files[d].count = Len(Whole)
  BY <1>1 DEF IInv, Writing
<1>4. /\ Kept(d, files[d], goal[d], cut) /\ goal = [db \in DBs |-> goal[db]]
      /\ files = [db \in DBs |-> files[db]]
  BY <1>2 DEF IInv, Disk
<1> HIDE DEF d
<1>5. f = [files[d] EXCEPT !.head = h]
  <2>1. \A x : x = File(x.head, x.ver, x.count, x.records) =>
          [x EXCEPT !.head = h] = File(h, x.ver, x.count, x.records)
    BY DEF File
  <2>2. QED
    BY <1>4, <2>1 DEF Kept
<1>6. files' = [files EXCEPT ![d] = f]
  BY <1>1, <1>5
<1>7. d = "task" => \A i \in DOMAIN Whole : \A y \in Whole[i].fields : Since[y] <= 5
  <2>1. d = "task" => Whole \in Seq(Entry)
    BY <1>2 DEF Storable, SomeTasks
  <2>2. d = "task" => \A i \in DOMAIN Whole : Whole[i].fields \subseteq Fields
    <3>1. \A l \in Seq(Entry) : \A i \in DOMAIN l : l[i] \in Entry
      BY LenProperties, ElementOfSeq
    <3>2. \A e \in Entry : e.fields \subseteq Fields
      BY DEF Entry
    <3>3. QED
      BY <2>1, <3>1, <3>2
  <2>3. \A y \in Fields : Since[y] <= 5
    BY DatabasesAssumption DEF Since
  <2>4. QED
    BY <2>2, <2>3
<1>8. /\ Version(d) \in Readable(d)
      /\ d = "task" => Version(d) = 5
  BY <1>2, DatabasesAssumption DEF Version, Readable
<1>9. d \notin cut' => /\ files[d].head = "draft" /\ files[d].records = Whole
                       /\ Stored(d, f, Whole)
  <2> SUFFICES ASSUME d \notin cut'
               PROVE  /\ files[d].head = "draft" /\ files[d].records = Whole
                      /\ Stored(d, f, Whole)
    OBVIOUS
  <2>1. files[d].head = "draft" /\ files[d].records = Whole
    BY <1>1, <1>3
  <2>2. f.ver = Version(d) /\ f.records = Whole
    BY <2>1, <1>3 DEF File
  <2> HIDE DEF f
  <2>3. d = "task" => \A i \in DOMAIN Whole : \A y \in Whole[i].fields : Since[y] <= f.ver
    BY <2>2, <1>7, <1>8
  <2>4. QED
    BY <2>1, <2>2, <2>3, <1>8 DEF Stored
<1>10. /\ f.head = h /\ f.count = files[d].count /\ f.records = files[d].records
       /\ f = File(f.head, f.ver, f.count, f.records)
  BY DEF File
<1> HIDE DEF f
<1>11. Storable(d, f.records)
  BY <1>4, <1>10 DEF Kept
<1>12. Kept(d, f, Whole, cut')
  BY <1>2, <1>3, <1>9, <1>10, <1>11 DEF Kept
<1>13. goal' = [goal EXCEPT ![d] = Whole] /\ cut \subseteq cut' \cup {d} /\ cut' \subseteq cut
  BY <1>1, <1>2, <1>3, <1>4
<1>14. /\ Disk' /\ files'[d] = f
       /\ \A db \in DBs \ {d} : files'[db] = files[db]
  BY <1>2, <1>6, <1>12, <1>13, FileStep
<1>15. "task" \in DBs => files'["task"].records = files["task"].records
  BY <1>10, <1>14
<1>16. QED
  BY <1>1, <1>13, <1>14, <1>15, AfterSave

(* The end of the program leaves a file of which nothing was written       *)
(* empty, and the others as they are.                                      *)
LEMMA KeptByGone ==
  ASSUME IInv, Gone
  PROVE  IInv'
<1>1. /\ window' = "down" /\ queue' = << >> /\ fp' = FALSE
      /\ tasks' = << >> /\ proxies' = << >> /\ history' = << >>
      /\ files' = [db \in DBs |-> IF files[db].head = "empty" THEN Absent ELSE files[db]]
      /\ UNCHANGED <<goal, cut>> /\ UNCHANGED <<starts, excused, removed>>
  BY DEF Gone, ghosts
<1>2. << >> \in Seq(DBs) /\ << >> \in Seq(Entry) /\ DOMAIN << >> = {}
  BY LenProperties
<1>3. Lists'
  BY <1>1, <1>2, EmptyIsStorable DEF IInv, Lists, SomeProxies, SomePaths
<1>4. Writing' /\ RunningHasObject' /\ Routes' /\ DirectHasReason'
  BY <1>1, <1>2 DEF Writing, RunningHasObject, Routes, DirectHasReason
<1>5. Absent.head = "none" /\ Absent.records = << >> /\ NoneRuns(Absent.records)
      /\ Absent = File(Absent.head, Absent.ver, Absent.count, Absent.records)
  BY <1>2 DEF Absent, File, NoneRuns
<1>6. Disk'
  <2>1. /\ goal = [db \in DBs |-> goal[db]]
        /\ \A db \in DBs : Kept(db, files[db], goal[db], cut)
    BY DEF IInv, Disk
  <2>2. ASSUME NEW db \in DBs
        PROVE  Kept(db, files'[db], goal[db], cut)
    <3>1. CASE files[db].head = "empty"
      <4>1. db \in cut /\ Storable(db, goal[db])
        BY <2>1, <3>1 DEF Kept
      <4>2. Kept(db, Absent, goal[db], cut)
        BY <4>1, <1>5, EmptyIsStorable DEF Kept
      <4>3. files'[db] = Absent
        BY <1>1, <3>1
      <4>4. QED
        BY <4>2, <4>3
    <3>2. CASE files[db].head # "empty"
      BY <2>1, <3>2, <1>1
    <3>3. QED
      BY <3>1, <3>2
  <2>3. files' = [db \in DBs |-> files'[db]]
    BY <1>1
  <2>4. QED
    BY <2>1, <2>2, <2>3, <1>1 DEF Disk
<1>7. Quiet'
  <2>1. ~(\E i \in DOMAIN queue' : queue'[i] = "task")
    BY <1>1, <1>2
  <2>2. "task" \in DBs /\ NoneRuns(files["task"].records) => NoneRuns(files'["task"].records)
    BY <1>1, <1>5
  <2>3. excused' = excused
    BY <1>1
  <2>4. QED
    BY <2>1, <2>2, <2>3 DEF IInv, Quiet, NoneRuns
<1>8. QED
  BY <1>3, <1>4, <1>6, <1>7 DEF IInv

-----------------------------------------------------------------------------
LEMMA KeptByNext == IInv /\ [Next]_vars => IInv'
<1> SUFFICES ASSUME IInv, [Next]_vars
             PROVE  IInv'
  OBVIOUS
<1>1. ASSUME NEW st \in {"waiting", "pause"}, NEW p \in {Direct} \cup Range(proxies),
             NEW f \in SUBSET Fields, NEW path \in Paths, NewTask(st, p, f, path)
      PROVE  IInv'
  BY <1>1, KeptByNewTask
<1>2. ASSUME NEW i \in DOMAIN tasks,
             Run(i) \/ Erase(i) \/ \E st \in Statuses : Leave(i, st)
      PROVE  IInv'
  BY <1>2, KeptByRun, KeptByErase, KeptByLeave
<1>3. ASSUME NEW n \in ProxyNames, AddProxy(n) \/ RemoveProxy(n)
      PROVE  IInv'
  BY <1>3, KeptByAddProxy, KeptByRemoveProxy
<1>4. ASSUME NEW db \in DBs, OnSave(db)
      PROVE  IInv'
  BY <1>4, KeptByOnSave
<1>5. ASSUME NEW n \in 0 .. MaxTasks, Flush(n)
      PROVE  IInv'
  <2>1. n \in Nat
    BY DatabasesAssumption
  <2>2. QED
    BY <1>5, <2>1, KeptByFlush
<1>6. CASE Start
  BY <1>6, KeptByStart
<1>7. CASE HideOrShow \/ OnClose \/ SayNo \/ ForcedClose
  BY <1>7, KeptByWindow
<1>8. CASE SayYes
  BY <1>8, KeptBySayYes
<1>9. CASE OpenDB \/ CannotOpen \/ FinishDB
  BY <1>9, KeptByOpenDB, KeptByCannotOpen, KeptByFinishDB
<1>10. CASE Destroy \/ Crash
  BY <1>10, KeptByGone DEF Destroy, Crash
<1>11. CASE UNCHANGED vars
  <2>1. /\ UNCHANGED <<mem, starts, removed>> /\ UNCHANGED <<files, goal, cut>>
        /\ UNCHANGED <<window, queue, fp, excused>> /\ UNCHANGED <<tasks, proxies, history>>
    BY <1>11 DEF vars, disk, ghosts, mem
  <2>2. Disk'
    BY <2>1, DiskStays DEF IInv
  <2>3. /\ cut' \subseteq DBs /\ excused' \in BOOLEAN
        /\ window' \in {"down", "shown", "hidden", "asking", "saving", "closing"}
    BY <2>1 DEF IInv, Lists
  <2>4. Lists' /\ RunningHasObject' /\ Routes' /\ DirectHasReason'
    BY <2>1, <2>3, ListsStay
  <2>5. Writing'
    BY <2>1 DEF IInv, Writing, Current, Whole, InMemory
  <2>6. Quiet'
    BY <2>1 DEF IInv, Quiet, NoneRuns
  <2>7. QED
    BY <2>2, <2>4, <2>5, <2>6 DEF IInv
<1>12. QED
  BY <1>1, <1>2, <1>3, <1>4, <1>5, <1>6, <1>7, <1>8, <1>9, <1>10, <1>11 DEF Next

(* The invariant on which the others rest: while a file is written, the    *)
(* lists stay as the save found them; a file with a final header announces *)
(* what the save was to store.                                             *)
THEOREM Invariance == Spec => []IInv
<1>1. Init => IInv
  BY AtFirst
<1>2. IInv /\ [Next]_vars => IInv'
  BY KeptByNext
<1>3. QED
  BY <1>1, <1>2, PTL DEF Spec

(* The lists keep their types, the history its length, and neither a       *)
(* directory nor a proxy is listed twice, whatever is done, saved, cut off *)
(* and read back (RecordSavePath, AddProxy, RemoveProxy, the Read and Save *)
(* functions).                                                             *)
THEOREM ListsStayRight == Spec => []ListsRight
<1>1. IInv => ListsRight
  <2> SUFFICES ASSUME IInv
               PROVE  ListsRight
    OBVIOUS
  <2>1. /\ tasks \in Seq(Entry) /\ proxies \in Seq(ProxyNames) /\ history \in Seq(Paths)
        /\ IsInjective(proxies) /\ IsInjective(history) /\ Len(history) <= HistorySize
    BY DEF IInv, Lists, SomeProxies, SomePaths
  <2>2. \A i \in DOMAIN tasks : tasks[i] \in Entry
    BY <2>1, LenProperties, ElementOfSeq
  <2>3. Range(proxies) \subseteq ProxyNames /\ Range(history) \subseteq Paths
    BY <2>1, RangeOfSeq
  <2>4. TypeOK
    BY <2>1, <2>2, <2>3 DEF TypeOK, IInv, Lists, Entry
  <2>5. QED
    BY <2>1, <2>4 DEF ListsRight, ListedOnce
<1>2. QED
  BY <1>1, Invariance, PTL

(* A task that is shown as running has an object, also after a start; the  *)
(* exceptions are those of the definition (OnSaveTask and a forced close). *)
THEOREM RunningTasksHaveObjects == Spec => []RunningHasObject
<1>1. IInv => RunningHasObject
  BY DEF IInv
<1>2. QED
  BY <1>1, Invariance, PTL

(* No task gives up its proxy for a direct connection while the proxy is   *)
(* in the list (GetProxyByName, CTaskManager::AddTask).                    *)
THEOREM DirectConnectionsHaveReasons == Spec => []DirectHasReason
<1>1. IInv => DirectHasReason
  BY DEF IInv
<1>2. QED
  BY <1>1, Invariance, PTL
-----------------------------------------------------------------------------
(* A field that the version of the file has is read back.                  *)
LEMMA UpgradeKeeps ==
  ASSUME NEW r \in Entry, NEW v, \A y \in r.fields : Since[y] <= v
  PROVE  Upgrade(r, v) = r
BY DEF Upgrade, Entry

LEMMA OnlyStartReads ==
  ASSUME [Next]_vars, Reads
  PROVE  Start
<1>1. CASE UNCHANGED vars
  BY <1>1 DEF Reads, vars
<1>2. CASE Next
  BY <1>2 DEF Next, Reads, HideOrShow, OnClose, SayNo, SayYes, ForcedClose, NewTask, Run,
       Erase, Leave, AddProxy, RemoveProxy, OnSave, OpenDB, CannotOpen, FinishDB, Flush,
       Saving, Idle, Destroy, Crash, Gone
<1>3. QED
  BY <1>1, <1>2

(* What a start makes of one file.                                         *)
ReadOf(db) == [task |-> ReadTaskDB, proxy |-> ReadProxyDB, config |-> ReadConfig][db]

LEMMA AcceptedIsRead ==
  ASSUME NEW db \in DBs, Accepted(db), Storable(db, files[db].records)
  PROVE  Len(ReadOf(db)) = Len(files[db].records)
<1>1. db \in {"task", "proxy", "config"}
  BY DatabasesAssumption
<1>2. CASE db = "task"
  <2> DEFINE l == files["task"].records
             v == files["task"].ver
  <2>1. l \in Seq(Entry)
    BY <1>2 DEF Storable, SomeTasks
  <2>2. ReadOf(db) = [i \in DOMAIN l |-> Upgrade(l[i], v)]
    BY <1>2 DEF ReadOf, ReadTaskDB
  <2> HIDE DEF l, v
  <2>3. /\ Len(l) \in Nat /\ DOMAIN l = 1 .. Len(l)
        /\ \A i \in DOMAIN l : l[i] \in Entry
    BY <2>1, LenProperties, ElementOfSeq
  <2>4. \A i \in DOMAIN l : Upgrade(l[i], v) \in Entry
    BY <2>3 DEF Upgrade, Entry
  <2>5. ReadOf(db) \in [1 .. Len(l) -> Entry]
    BY <2>2, <2>3, <2>4
  <2>6. Len(ReadOf(db)) = Len(l)
    BY <2>3, <2>5, FunctionIsSeq
  <2>7. QED
    BY <2>6, <1>2 DEF l
<1>3. CASE db \in {"proxy", "config"}
  BY <1>3 DEF ReadOf, ReadProxyDB, ReadConfig
<1>4. QED
  BY <1>1, <1>2, <1>3

LEMMA RefusedIsEmpty ==
  ASSUME NEW db \in DBs, ~Accepted(db)
  PROVE  ReadOf(db) = << >>
<1>1. db \in {"task", "proxy", "config"}
  BY DatabasesAssumption
<1>2. QED
  BY <1>1 DEF ReadOf, ReadTaskDB, ReadProxyDB, ReadConfig

LEMMA StoredIsRead ==
  ASSUME NEW db \in DBs, Accepted(db), Stored(db, files[db], goal[db]),
         Storable(db, goal[db])
  PROVE  ReadOf(db) = goal[db]
<1>1. db \in {"task", "proxy", "config"} /\ files[db].records = goal[db]
  BY DatabasesAssumption DEF Stored
<1>2. CASE db = "task"
  <2> DEFINE l == goal[db]
             v == files[db].ver
  <2>1. ReadOf(db) = [i \in DOMAIN l |-> Upgrade(l[i], v)]
    BY <1>1, <1>2 DEF ReadOf, ReadTaskDB
  <2>2. l \in Seq(Entry) /\ \A i \in DOMAIN l : \A y \in l[i].fields : Since[y] <= v
    BY <1>2 DEF Storable, SomeTasks, Stored
  <2> HIDE DEF l, v
  <2>3. /\ Len(l) \in Nat /\ l \in [1 .. Len(l) -> Entry] /\ DOMAIN l = 1 .. Len(l)
        /\ \A i \in DOMAIN l : l[i] \in Entry
    BY <2>2, LenProperties, ElementOfSeq
  <2>4. \A i \in DOMAIN l : Upgrade(l[i], v) = l[i]
    BY <2>2, <2>3, UpgradeKeeps
  <2>5. ReadOf(db) = l
    BY <2>1, <2>3, <2>4
  <2>6. QED
    BY <2>5 DEF l
<1>3. CASE db \in {"proxy", "config"}
  BY <1>1, <1>3 DEF ReadOf, ReadProxyDB, ReadConfig
<1>4. QED
  BY <1>1, <1>2, <1>3

LEMMA AllOrNothingIsRead ==
  ASSUME IInv, NEW db \in DBs
  PROVE  Len(ReadOf(db)) \in {0, Len(goal[db])}
<1>1. Kept(db, files[db], goal[db], cut)
  BY DEF IInv, Disk
<1>2. CASE Accepted(db)
  <2>1. /\ Len(files[db].records) >= files[db].count
        /\ files[db].count = Len(goal[db]) /\ Len(files[db].records) <= Len(goal[db])
    BY <1>1, <1>2 DEF Accepted, Enough, Kept
  <2>2. Len(files[db].records) \in Nat /\ Len(goal[db]) \in Nat
    <3>1. db \in {"task", "proxy", "config"}
      BY DatabasesAssumption
    <3>2. \A l : Storable(db, l) => l \in Seq(Entry) \/ l \in Seq(ProxyNames) \/ l \in Seq(Paths)
      BY <3>1 DEF Storable, SomeTasks, SomeProxies, SomePaths
    <3>3. QED
      BY <1>1, <3>2, LenProperties DEF Kept
  <2>3. Len(files[db].records) = Len(goal[db])
    BY <2>1, <2>2
  <2>4. QED
    BY <2>3, <1>1, <1>2, AcceptedIsRead DEF Kept
<1>3. CASE ~Accepted(db)
  <2>1. Len(<< >>) = 0
    OBVIOUS
  <2>2. QED
    BY <2>1, <1>3, RefusedIsEmpty
<1>4. QED
  BY <1>2, <1>3

LEMMA WhatWasSavedIsRead ==
  ASSUME IInv, NEW db \in DBs \ cut
  PROVE  ReadOf(db) = goal[db]
<1>1. Kept(db, files[db], goal[db], cut)
  BY DEF IInv, Disk
<1>2. CASE files[db].head = "none" /\ goal[db] = << >>
  BY <1>2, RefusedIsEmpty DEF Accepted
<1>3. CASE files[db].head = "final" /\ Stored(db, files[db], goal[db])
  <2>1. Storable(db, goal[db]) /\ files[db].count = Len(goal[db])
    BY <1>1, <1>3 DEF Kept
  <2>2. Len(goal[db]) \in Nat
    <3>1. db \in {"task", "proxy", "config"}
      BY DatabasesAssumption
    <3>2. goal[db] \in Seq(Entry) \/ goal[db] \in Seq(ProxyNames) \/ goal[db] \in Seq(Paths)
      BY <2>1, <3>1 DEF Storable, SomeTasks, SomeProxies, SomePaths
    <3>3. QED
      BY <3>2, LenProperties
  <2>3. Enough(files[db])
    BY <2>1, <2>2, <1>3 DEF Enough, Stored
  <2>4. Accepted(db)
    BY <1>3, <2>3 DEF Accepted, Stored
  <2>5. QED
    BY <1>3, <2>1, <2>4, StoredIsRead
<1>4. QED
  BY <1>1, <1>2, <1>3 DEF Kept

(* Whatever was interrupted, and however full the disk was, a start finds  *)
(* all records the last save was to store, or none; what a save that ended *)
(* well has written, it finds with every field (the Save and Read          *)
(* functions of the three files).                                          *)
THEOREM ReadsWhatWasSaved == Spec => ReadBack
<1>1. ASSUME IInv, [Next]_vars, Reads
      PROVE  /\ \A db \in DOMAIN files : Len(Result(db)) \in {0, Len(goal[db])}
             /\ \A db \in DOMAIN files \ cut : Result(db) = goal[db]
  <2>1. tasks' = ReadTaskDB /\ proxies' = ReadProxyDB /\ history' = ReadConfig
    BY <1>1, OnlyStartReads DEF Start
  <2>2. \A db : Result(db) = ReadOf(db)
    BY <2>1 DEF Result, ReadOf
  <2>3. DOMAIN files = DBs
    BY <1>1 DEF IInv, Disk
  <2>4. QED
    BY <1>1, <2>2, <2>3, AllOrNothingIsRead, WhatWasSavedIsRead
<1>2. IInv /\ [Next]_vars =>
        [Reads => \A db \in DOMAIN files : Len(Result(db)) \in {0, Len(goal[db])}]_vars
  BY <1>1
<1>3. IInv /\ [Next]_vars =>
        [Reads => \A db \in DOMAIN files \ cut : Result(db) = goal[db]]_vars
  BY <1>1
<1>4. Spec => AllOrNothing
  BY <1>2, Invariance, PTL DEF Spec, AllOrNothing
<1>5. Spec => SavedIsRead
  BY <1>3, Invariance, PTL DEF Spec, SavedIsRead
<1>6. QED
  BY <1>4, <1>5, PTL DEF ReadBack
=============================================================================
