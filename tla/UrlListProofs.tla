--------------------------- MODULE UrlListProofs ---------------------------
(***************************************************************************)
(* The list of URLs, for every number of ants and mirrors, whatever the    *)
(* servers redirect to and whoever stores a priority over a report: a      *)
(* mirror is checked once, and two entries are the same only by a redirect *)
(* (UrlsRight); an invalid one is not used again before all others are     *)
(* charged down to it, however many uses and pieces that takes             *)
(* (InvalidShunned).                                                       *)
(*                                                                         *)
(* CheckedOnce is inductive with Checked, that an entry nobody used was    *)
(* not checked and the list has no entry beyond its end; the types need    *)
(* Tries (an ant at work has retries left, so a failure leaves -3 at       *)
(* least) and Packs (an increment belongs to the ant that stores a piece,  *)
(* and the packs counted are pieces delivered).                            *)
(***************************************************************************)
EXTENDS UrlList, FiniteSetTheorems, WellFoundedInduction, TLAPS

(* Every set of natural numbers that is not empty has a least element.     *)
LEMMA Least ==
  ASSUME NEW S, S \subseteq Nat, S # {}
  PROVE  \E x \in S : \A y \in S : x <= y
<1> DEFINE R == OpToRel(<, Nat)
<1>1. IsWellFoundedOn(R, Nat)
  BY NatLessThanWellFounded
<1>2. \A x, y \in Nat : y < x => <<y, x>> \in R
  BY DEF OpToRel
<1> HIDE DEF R
<1>3. PICK x \in S : \A y \in S : ~(<<y, x>> \in R)
  BY <1>1, WFMin
<1>4. \A y \in S : ~(y < x) /\ x \in Nat /\ y \in Nat
  BY <1>2, <1>3
<1> QED
  BY <1>4

(* Its minimum is that element.                                            *)
LEMMA MinIn ==
  ASSUME NEW S, S \subseteq Nat, S # {}
  PROVE  Min(S) \in S
BY Least DEF Min

(* Induction, for a set.                                                   *)
LEMMA Induct ==
  ASSUME NEW S, 0 \in S, \A n \in Nat : n \in S => n + 1 \in S
  PROVE  \A n \in Nat : n \in S
<1> DEFINE T == {n \in Nat : n \notin S}
<1> SUFFICES ASSUME T # {} PROVE FALSE
  OBVIOUS
<1>1. PICK x \in T : \A y \in T : x <= y
  BY Least
<1>2. x # 0 /\ x - 1 \in Nat /\ x - 1 \notin T
  BY <1>1
<1> QED
  BY <1>2
-----------------------------------------------------------------------------
(* What an entry holds.                                                    *)
URLs == {Main} \cup Mirrors \cup {Moves[u] : u \in DOMAIN Moves}
Rec == [url : URLs, prior : Int, bused : BOOLEAN, moved : BOOLEAN]

(* The entries of a list.                                                  *)
LEMMA Listed ==
  ASSUME NEW l \in Seq(Rec)
  PROVE  /\ Len(l) \in Nat /\ DOMAIN l = 1 .. Len(l)
         /\ \A i \in DOMAIN l :
              /\ i \in Nat /\ l[i] \in Rec
              /\ l[i].prior \in Int /\ l[i].url \in URLs
              /\ l[i].bused \in BOOLEAN /\ l[i].moved \in BOOLEAN
<1>1. Len(l) \in Nat /\ DOMAIN l = 1 .. Len(l)
  OBVIOUS
<1>2. ASSUME NEW i \in DOMAIN l
      PROVE  i \in Nat /\ l[i] \in Rec
  BY <1>1
<1> QED
  BY <1>1, <1>2 DEF Rec

(* There is an entry of the highest priority among any of the list, the    *)
(* first of them if there are more.                                        *)
LEMMA Foremost ==
  ASSUME NEW l \in Seq(Rec), NEW H \in SUBSET DOMAIN l, H # {}
  PROVE  \E i \in H : \A j \in H : \/ l[i].prior > l[j].prior
                                   \/ l[i].prior = l[j].prior /\ i <= j
<1> DEFINE Wins(i, j) == \/ l[i].prior > l[j].prior
                         \/ l[i].prior = l[j].prior /\ i <= j
           First(n) == {i \in H : i <= n}
           S == {n \in Nat : First(n) # {} =>
                   \E i \in First(n) : \A j \in First(n) : Wins(i, j)}
<1>1. /\ Len(l) \in Nat /\ DOMAIN l = 1 .. Len(l)
      /\ \A i \in H : i \in Nat /\ i \in 1 .. Len(l) /\ l[i].prior \in Int
  BY Listed
<1>2. 0 \in S
  BY <1>1
<1>3. ASSUME NEW n \in Nat, n \in S
      PROVE  n + 1 \in S
  <2> SUFFICES ASSUME First(n + 1) # {}
               PROVE  \E i \in First(n + 1) : \A j \in First(n + 1) : Wins(i, j)
    OBVIOUS
  <2>1. \A i \in First(n + 1) : i \in First(n) \/ i = n + 1
    BY <1>1
  <2>2. CASE n + 1 \notin H
    <3>1. First(n + 1) = First(n)
      BY <1>1, <2>1, <2>2
    <3> QED
      BY <1>3, <3>1
  <2>3. CASE n + 1 \in H /\ First(n) = {}
    <3>1. \A i \in First(n + 1) : i = n + 1
      BY <2>1, <2>3
    <3>2. n + 1 \in First(n + 1)
      BY <2>3
    <3>3. Wins(n + 1, n + 1)
      BY <1>1, <2>3
    <3> QED
      BY <3>1, <3>2, <3>3
  <2>4. CASE n + 1 \in H /\ First(n) # {}
    <3>1. PICK b \in First(n) : \A j \in First(n) : Wins(b, j)
      BY <1>3, <2>4
    <3>2. b \in First(n + 1) /\ n + 1 \in First(n + 1)
      BY <1>1, <2>4
    <3>3. l[b].prior \in Int /\ l[n + 1].prior \in Int /\ b \in Nat /\ b <= n
      BY <1>1, <2>4
    <3>4. CASE l[b].prior >= l[n + 1].prior
      <4>1. Wins(b, n + 1)
        BY <3>3, <3>4
      <4> QED
        BY <2>1, <3>1, <3>2, <4>1
    <3>5. CASE l[b].prior < l[n + 1].prior
      <4>1. ASSUME NEW j \in First(n + 1)
            PROVE  Wins(n + 1, j)
        <5>1. CASE j = n + 1
          BY <3>3, <5>1
        <5>2. CASE j \in First(n)
          <6>1. Wins(b, j) /\ l[j].prior \in Int
            BY <1>1, <3>1, <5>2
          <6> QED
            BY <3>3, <3>5, <6>1
        <5> QED
          BY <2>1, <5>1, <5>2
      <4> QED
        BY <3>2, <4>1
    <3> QED
      BY <3>3, <3>4, <3>5
  <2> QED
    BY <2>2, <2>3, <2>4
<1> HIDE DEF S
<1>4. Len(l) \in S
  BY <1>1, <1>2, <1>3, Induct
<1>5. First(Len(l)) = H
  BY <1>1
<1> QED
  BY <1>4, <1>5 DEF S

(* The entry GetTask picks is one of the list.                             *)
LEMMA BestListed ==
  ASSUME list \in Seq(Rec), Len(list) >= 1
  PROVE  Best \in Entries
<1>1. CASE Healthy = {}
  BY <1>1, Listed DEF Best, Entries
<1>2. CASE Healthy # {}
  <2> DEFINE Tops(i) == \A j \in Healthy : \/ list[i].prior > list[j].prior
                                           \/ list[i].prior = list[j].prior /\ i <= j
  <2>1. Healthy \in SUBSET DOMAIN list
    BY DEF Healthy, Entries
  <2>2. \E i \in Healthy : Tops(i)
    BY <1>2, <2>1, Foremost
  <2>3. Best = CHOOSE i \in Healthy : Tops(i)
    BY <1>2 DEF Best
  <2> HIDE DEF Tops
  <2>4. Best \in Healthy
    BY <2>2, <2>3
  <2> QED
    BY <2>4 DEF Healthy
<1> QED
  BY <1>1, <1>2
-----------------------------------------------------------------------------
(* What a step may do to an entry: its URL is changed only by a redirect,  *)
(* and a URL that was used stays used.                                     *)
Later(d, e) ==
  /\ (e.url = d.url /\ e.moved = d.moved) \/ e.moved = TRUE
  /\ e.bused = FALSE => d.bused = FALSE

(* What it does to the list: no entry is lost, each may change.            *)
Changed(l, m) ==
  /\ m \in Seq(Rec) /\ Len(m) = Len(l)
  /\ \A i \in DOMAIN l : Later(l[i], m[i])

(* One entry is replaced.                                                  *)
LEMMA EntryChanged ==
  ASSUME NEW l \in Seq(Rec), NEW i \in DOMAIN l, NEW e \in Rec, Later(l[i], e),
         NEW m, m = [l EXCEPT ![i] = e]
  PROVE  Changed(l, m) /\ m[i] = e
<1>1. Len(l) \in Nat /\ DOMAIN l = 1 .. Len(l) /\ \A k \in DOMAIN l : l[k] \in Rec
  BY Listed
<1>2. /\ DOMAIN m = DOMAIN l /\ m[i] = e
      /\ \A k \in DOMAIN l : k # i => m[k] = l[k]
  BY <1>1
<1>3. m = [k \in 1 .. Len(l) |-> m[k]] /\ \A k \in 1 .. Len(l) : m[k] \in Rec
  BY <1>1, <1>2
<1>4. m \in Seq(Rec) /\ Len(m) = Len(l)
  BY <1>1, <1>3
<1>5. \A k \in DOMAIN l : Later(l[k], m[k])
  BY <1>2 DEF Later
<1> QED
  BY <1>2, <1>4, <1>5 DEF Changed

(* A list that stays.                                                      *)
LEMMA Unchanged ==
  ASSUME NEW l \in Seq(Rec)
  PROVE  Changed(l, l)
BY DEF Changed, Later

(* Only the priority of an entry is changed.                               *)
LEMMA PriorChanged ==
  ASSUME NEW l \in Seq(Rec), NEW i \in DOMAIN l, NEW p \in Int,
         NEW m, m = [l EXCEPT ![i].prior = p]
  PROVE  Changed(l, m)
<1> DEFINE e == [l[i] EXCEPT !.prior = p]
<1>1. l[i] \in Rec
  BY Listed
<1>2. e \in Rec /\ e.url = l[i].url /\ e.moved = l[i].moved /\ e.bused = l[i].bused
  BY <1>1 DEF Rec
<1>3. m = [l EXCEPT ![i] = e]
  OBVIOUS
<1> HIDE DEF e
<1>4. Later(l[i], e)
  BY <1>2 DEF Later
<1> QED
  BY <1>2, <1>3, <1>4, EntryChanged

(* An entry is used.                                                       *)
LEMMA UsedChanged ==
  ASSUME NEW l \in Seq(Rec), NEW i \in DOMAIN l,
         NEW m, m = [l EXCEPT ![i] = Used(l[i])]
  PROVE  Changed(l, m) /\ m[i].bused = TRUE
<1> DEFINE d == l[i]
           e == Used(d)
<1>1. d \in Rec /\ d.bused \in BOOLEAN /\ d.prior \in Int
  BY Listed
<1>2. d.bused = TRUE \/ d.bused = FALSE
  BY <1>1, Zenon
<1> HIDE DEF d
<1>3. e \in Rec /\ e.url = d.url /\ e.moved = d.moved /\ e.bused = TRUE
  <2>1. CASE d.bused = TRUE
    <3>1. e = [d EXCEPT !.prior = @ - 500]
      BY <2>1, Zenon DEF Used
    <3>2. e \in Rec /\ e.url = d.url /\ e.moved = d.moved /\ e.bused = d.bused
      BY <1>1, <3>1 DEF Rec
    <3> QED
      BY <2>1, <3>2, Zenon
  <2>2. CASE d.bused = FALSE
    <3>1. e = [d EXCEPT !.bused = TRUE, !.prior = 0]
      BY <2>2, Zenon DEF Used
    <3>2. e = [url |-> d.url, prior |-> 0, bused |-> TRUE, moved |-> d.moved]
      BY <1>1, <3>1 DEF Rec
    <3>3. d.url \in URLs /\ d.moved \in BOOLEAN
      BY <1>1, Zenon DEF Rec
    <3>4. TRUE \in BOOLEAN /\ 0 \in Int
      OBVIOUS
    <3>5. e \in Rec
      BY <3>2, <3>3, <3>4 DEF Rec
    <3>6. e.url = d.url /\ e.moved = d.moved /\ e.bused = TRUE
      BY <3>2
    <3> QED
      BY <3>5, <3>6
  <2> QED
    BY <1>2, <2>1, <2>2
<1> HIDE DEF e
<1>4. Later(d, e)
  <2>1. ~(e.bused = FALSE)
    BY <1>3, Zenon
  <2> QED
    BY <1>3, <2>1, Zenon DEF Later
<1>5. Changed(l, m) /\ m[i] = e
  BY <1>3, <1>4, EntryChanged DEF d, e
<1> QED
  BY <1>3, <1>5, Zenon
-----------------------------------------------------------------------------
(* The list holds entries, and no more than the URLs that were entered.    *)
Listing == list \in Seq(Rec) /\ Len(list) \in 1 .. Size

(* Two entries of a list have the same URL only when one was redirected.   *)
Twins(l) ==
  \A i, j \in DOMAIN l :
    i # j /\ l[i].url = l[j].url => l[i].moved = TRUE \/ l[j].moved = TRUE

(* An ant that is told an entry finds it in the list.                      *)
Places == index \in [Ants -> Nat] /\ \A t \in Ants : index[t] \in DOMAIN list

(* An ant at work has retries left.                                        *)
States == {"again", "check", "go", "piece", "other", "off"}
Tries ==
  /\ pc \in [Ants -> States] /\ retry \in [Ants -> -3 .. Retries]
  /\ \A t \in Ants : pc[t] # "off" => retry[t] >= 0

(* An increment belongs to the ant that stores a piece, and a pack that is *)
(* counted to a piece that was delivered.                                  *)
Pending == IF inc.ant = None THEN 0 ELSE 1
Packs ==
  /\ speed \in [Ants -> Nat] /\ sum \in Nat /\ swap \in Ants \cup {None}
  /\ inc \in [ant : Ants \cup {None}, prior : Int, size : Nat]
  /\ count \in [uses : Nat, pieces : 0 .. MaxPieces]
  /\ \A t \in Ants : pc[t] = "piece" => inc.ant = t
  /\ sum + Pending <= count.pieces

(* An entry that nobody used was not checked, nor one that is not there.   *)
Checked ==
  /\ checks \in [1 .. Size -> Nat] /\ checks[1] = 0
  /\ \A i \in 1 .. Size :
       /\ checks[i] <= 1
       /\ i \notin DOMAIN list => checks[i] = 0
       /\ i \in DOMAIN list => (list[i].bused = FALSE => checks[i] = 0)

(* The inductive invariant.                                                *)
IInv == Listing /\ Twins(list) /\ Places /\ Tries /\ Packs /\ Checked

(* The number of URLs.                                                     *)
LEMMA SizeType == Size \in Nat /\ Size >= 1
BY UrlListAssumption, FS_CardinalityType DEF Size

LEMMA InitIInv == Init => IInv
<1> SUFFICES ASSUME Init PROVE IInv
  OBVIOUS
<1> DEFINE e == Entry(Main)
<1>1. e = [url |-> Main, prior |-> 10000, bused |-> FALSE, moved |-> FALSE]
  BY DEF Entry
<1>2. Main \in URLs
  BY DEF URLs
<1>3. e \in Rec
  BY <1>1, <1>2 DEF Rec
<1>4. list = <<e>>
  BY DEF Init
<1> HIDE DEF e
<1>5. list \in Seq(Rec) /\ Len(list) = 1 /\ DOMAIN list = {1}
  BY <1>3, <1>4
<1>6. Listing
  BY <1>5, SizeType DEF Listing
<1>7. Twins(list)
  BY <1>5 DEF Twins
<1>8. Places
  BY <1>5 DEF Init, Places
<1>9. Tries
  BY UrlListAssumption DEF Init, Tries, States
<1>10. Packs
  BY UrlListAssumption DEF Init, Packs, Pending, Idle, Slow, None
<1>11. Checked
  BY SizeType DEF Init, Checked
<1> QED
  BY <1>6, <1>7, <1>8, <1>9, <1>10, <1>11 DEF IInv
-----------------------------------------------------------------------------
(* A list whose entries change as a step may change them.                  *)
LEMMA ListKept ==
  ASSUME IInv, Changed(list, list')
  PROVE  Listing' /\ Twins(list)'
<1>1. list' \in Seq(Rec) /\ Len(list') = Len(list) /\ DOMAIN list' = DOMAIN list
  BY DEF Changed, IInv, Listing
<1>2. Listing'
  BY <1>1 DEF IInv, Listing, Size
<1>3. \A i \in DOMAIN list : Later(list[i], list'[i])
  BY DEF Changed
<1>4. Twins(list')
  BY <1>1, <1>3 DEF IInv, Twins, Later
<1> QED
  BY <1>2, <1>4

(* A report changes the priority of an entry, if any has the URL.          *)
LEMMA Reported ==
  ASSUME IInv, NEW u, NEW adjust \in Int, ReportUrl(u, adjust)
  PROVE  Changed(list, list')
<1>1. list \in Seq(Rec)
  BY DEF IInv, Listing
<1>2. CASE Matching(u) = {}
  BY <1>1, <1>2, Unchanged DEF ReportUrl
<1>3. CASE Matching(u) # {}
  <2> DEFINE i == Min(Matching(u))
  <2>1. Matching(u) \subseteq Nat
    BY <1>1, Listed DEF Matching, Entries
  <2>2. i \in Matching(u)
    BY <1>3, <2>1, MinIn
  <2>3. i \in DOMAIN list
    BY <2>2 DEF Matching, Entries
  <2>4. list' = [list EXCEPT ![i].prior = @ + adjust]
    BY <1>3 DEF ReportUrl
  <2> HIDE DEF i
  <2>5. list[i].prior + adjust \in Int
    BY <1>1, <2>3, Listed
  <2>6. list' = [list EXCEPT ![i].prior = list[i].prior + adjust]
    BY <2>4
  <2> QED
    BY <1>1, <2>3, <2>5, <2>6, PriorChanged
<1> QED
  BY <1>2, <1>3

(* A redirect changes the URL of an entry, and marks it.                   *)
LEMMA Moving ==
  ASSUME IInv, NEW t \in Ants, Redirected(t)
  PROVE  Changed(list, list')
<1>1. list \in Seq(Rec)
  BY DEF IInv, Listing
<1>2. CASE Matching(url[t]) = {}
  BY <1>1, <1>2, Unchanged DEF Redirected
<1>3. CASE Matching(url[t]) # {}
  <2> DEFINE i == Min(Matching(url[t]))
             d == list[i]
             to == Moves[url[t]]
             e == MovedTo(d, to)
  <2>1. Matching(url[t]) \subseteq Nat
    BY <1>1, Listed DEF Matching, Entries
  <2>2. i \in Matching(url[t])
    BY <1>3, <2>1, MinIn
  <2>3. i \in DOMAIN list
    BY <2>2 DEF Matching, Entries
  <2>4. list' = [list EXCEPT ![i] = e]
    BY <1>3 DEF Redirected
  <2>5. to \in URLs
    BY DEF URLs, Redirected
  <2>6. d \in Rec /\ d.prior \in Int /\ d.bused \in BOOLEAN
    BY <1>1, <2>3, Listed
  <2>7. e = [d EXCEPT !.url = to, !.prior = @ + 100, !.moved = TRUE]
    BY DEF MovedTo
  <2> HIDE DEF i, to, d, e
  <2>8. e = [url |-> to, prior |-> d.prior + 100, bused |-> d.bused, moved |-> TRUE]
    BY <2>6, <2>7 DEF Rec
  <2>9. TRUE \in BOOLEAN /\ d.prior + 100 \in Int
    BY <2>6
  <2>10. e \in Rec
    BY <2>5, <2>6, <2>8, <2>9 DEF Rec
  <2>11. e.moved = TRUE /\ e.bused = d.bused
    BY <2>8
  <2>12. Later(d, e)
    BY <2>11 DEF Later
  <2> QED
    BY <1>1, <2>3, <2>4, <2>10, <2>12, EntryChanged DEF d
<1> QED
  BY <1>2, <1>3

(* An entry of its own for a URL that is entered.                          *)
LEMMA Entered ==
  ASSUME IInv, NEW u \in Mirrors, AddMirrorUrl(u)
  PROVE  /\ Listing' /\ Twins(list)' /\ Len(list') = Len(list) + 1
         /\ \A i \in DOMAIN list : i \in DOMAIN list' /\ list'[i] = list[i]
<1> DEFINE e == Entry(u)
<1>1. e = [url |-> u, prior |-> 10000, bused |-> FALSE, moved |-> FALSE]
  BY DEF Entry
<1>2. u \in URLs
  BY DEF URLs
<1>3. e \in Rec /\ e.url = u
  BY <1>1, <1>2 DEF Rec
<1>4. list' = Append(list, e) /\ ~Known(u) /\ Len(list) < Size
  BY DEF AddMirrorUrl
<1> HIDE DEF e
<1>5. list \in Seq(Rec) /\ Len(list) \in 1 .. Size /\ Size \in Nat
  BY SizeType DEF IInv, Listing
<1>6. /\ list' \in Seq(Rec) /\ Len(list') = Len(list) + 1
      /\ DOMAIN list = 1 .. Len(list) /\ DOMAIN list' = 1 .. Len(list) + 1
      /\ \A i \in DOMAIN list : list'[i] = list[i]
      /\ list'[Len(list) + 1] = e
  BY <1>3, <1>4, <1>5
<1>7. Listing'
  BY <1>4, <1>5, <1>6 DEF Listing, Size
<1>8. \A i \in DOMAIN list : list[i].url # u
  BY <1>4 DEF Known, Entries
<1>9. Twins(list')
  <2> SUFFICES ASSUME NEW i \in DOMAIN list', NEW j \in DOMAIN list', i # j,
                      list'[i].url = list'[j].url
               PROVE  list'[i].moved = TRUE \/ list'[j].moved = TRUE
    BY DEF Twins
  <2>1. i \in DOMAIN list /\ j \in DOMAIN list
    BY <1>3, <1>5, <1>6, <1>8
  <2> QED
    BY <1>6, <2>1 DEF IInv, Twins
<1> QED
  BY <1>5, <1>6, <1>7, <1>9

(* A step of an ant, but for the choice of its next URL.                   *)
Works(t) ==
  \/ NoMoreTask(t) \/ Down(t) \/ Up(t)
  \/ CheckFails(t) \/ Redirected(t) \/ WrongLength(t) \/ CheckPassed(t)
  \/ OtherProtocol(t) \/ SessionEnds(t) \/ SessionFails(t) \/ Load(t) \/ Store(t)

(* It changes entries as a step may, and no table of entries.              *)
LEMMA WorkChanges ==
  ASSUME IInv, NEW t \in Ants, Works(t)
  PROVE  Changed(list, list') /\ UNCHANGED <<index, checks>>
<1>1. list \in Seq(Rec) /\ Changed(list, list)
  BY Unchanged DEF IInv, Listing
<1>2. CASE NoMoreTask(t) \/ Down(t) \/ Up(t) \/ SessionEnds(t) \/ Load(t)
  BY <1>1, <1>2 DEF NoMoreTask, Down, Up, SessionEnds, Load, told
<1>3. CASE CheckFails(t) \/ WrongLength(t) \/ CheckPassed(t) \/ OtherProtocol(t)
  <2>1. Invalid \in Int
    BY DEF Invalid
  <2> QED
    BY <1>3, <2>1, Reported DEF CheckFails, WrongLength, CheckPassed, OtherProtocol
<1>4. CASE SessionFails(t)
  BY <1>1, <1>4, Reported DEF SessionFails
<1>5. CASE Redirected(t)
  BY <1>5, Moving DEF Redirected, told
<1>6. CASE Store(t)
  <2>1. inc.prior + 1 \in Int /\ index[t] \in DOMAIN list
    BY DEF IInv, Packs, Places
  <2>2. list' = list \/ list' = [list EXCEPT ![index[t]].prior = inc.prior + 1]
    BY <1>6 DEF Store
  <2>3. Changed(list, list')
    BY <1>1, <2>1, <2>2, PriorChanged
  <2> QED
    BY <1>6, <2>3 DEF Store
<1> QED
  BY <1>2, <1>3, <1>4, <1>5, <1>6 DEF Works

(* Tables of a list whose entries were changed but not used.               *)
LEMMA TablesKept ==
  ASSUME IInv, Changed(list, list'), UNCHANGED <<index, checks>>
  PROVE  Listing' /\ Twins(list)' /\ Places' /\ Checked'
<1>1. Listing' /\ Twins(list)'
  BY ListKept
<1>2. DOMAIN list' = DOMAIN list
  BY Listed DEF Changed, IInv, Listing
<1>3. \A i \in DOMAIN list : list'[i].bused = FALSE => list[i].bused = FALSE
  BY DEF Changed, Later
<1>4. Places'
  BY <1>2 DEF IInv, Places
<1>5. Checked'
  BY <1>2, <1>3 DEF IInv, Checked, Size
<1> QED
  BY <1>1, <1>4, <1>5

(* GetTask: the check of an entry begins at its first use.                 *)
LEMMA GetTaskTables ==
  ASSUME IInv, NEW t \in Ants, GetTask(t)
  PROVE  Listing' /\ Twins(list)' /\ Places' /\ Checked'
<1>1. list \in Seq(Rec) /\ Len(list) \in 1 .. Size /\ Best \in DOMAIN list
  BY BestListed, SizeType DEF IInv, Listing, Entries
<1> DEFINE b == Best
<1>2. /\ list' = [list EXCEPT ![b] = Used(list[b])]
      /\ index' = [index EXCEPT ![t] = b]
      /\ \/ checks' = checks
         \/ checks' = [checks EXCEPT ![b] = @ + IF NeedCheck(b) THEN 1 ELSE 0]
  BY DEF GetTask
<1> HIDE DEF b
<1>3. b \in DOMAIN list /\ b \in 1 .. Size
  BY <1>1, SizeType, Listed DEF b
<1>4. Changed(list, list') /\ list'[b].bused = TRUE
  BY <1>1, <1>2, <1>3, UsedChanged
<1>5. DOMAIN list' = DOMAIN list
  BY <1>1, <1>4, Listed DEF Changed
<1>6. Places'
  BY <1>1, <1>2, <1>3, <1>5, Listed DEF IInv, Places
<1>7. Checked'
  <2>1. \A i \in DOMAIN list :
          list'[i].bused = FALSE => list[i].bused = FALSE /\ i # b
    BY <1>4 DEF Changed, Later
  <2>2. /\ checks \in [1 .. Size -> Nat] /\ checks[1] = 0
        /\ \A i \in 1 .. Size : checks[i] <= 1
        /\ \A i \in 1 .. Size : i \notin DOMAIN list => checks[i] = 0
        /\ \A i \in DOMAIN list : i \in 1 .. Size /\ list[i].bused = FALSE => checks[i] = 0
        /\ 1 \in 1 .. Size
    BY SizeType DEF IInv, Checked
  <2>3. CASE checks' = checks
    BY <1>5, <2>1, <2>2, <2>3 DEF Checked, Size
  <2>4. CASE checks' # checks
    <3> DEFINE n == IF NeedCheck(b) THEN 1 ELSE 0
    <3>1. checks' = [checks EXCEPT ![b] = checks[b] + n]
      BY <1>2, <2>4
    <3>2. NeedCheck(b)
      <4> SUFFICES ASSUME ~NeedCheck(b) PROVE FALSE
        OBVIOUS
      <4>1. n = 0
        OBVIOUS
      <4> HIDE DEF n
      <4>2. checks' = checks
        BY <1>3, <2>2, <3>1, <4>1
      <4> QED
        BY <2>4, <4>2
    <3>3. n = 1
      BY <3>2
    <3> HIDE DEF n
    <3>4. b # 1 /\ list[b].bused = FALSE
      <4>1. list[b].bused \in BOOLEAN
        BY <1>1, <1>3, Listed
      <4> QED
        BY <3>2, <4>1, Zenon DEF NeedCheck
    <3>5. checks[b] = 0
      BY <1>3, <2>2, <3>4
    <3>6. /\ checks' \in [1 .. Size -> Nat] /\ checks'[b] = 1
          /\ \A i \in 1 .. Size : i # b => checks'[i] = checks[i]
      BY <1>3, <2>2, <3>1, <3>3, <3>5
    <3> QED
      BY <1>3, <1>5, <2>1, <2>2, <3>4, <3>6 DEF Checked, Size
  <2> QED
    BY <2>3, <2>4
<1> QED
  BY <1>4, <1>6, <1>7, ListKept

(* AddMirrorUrl: a new entry is not used and was not checked.              *)
LEMMA AddTables ==
  ASSUME IInv, NEW u \in Mirrors, AddMirrorUrl(u)
  PROVE  Listing' /\ Twins(list)' /\ Places' /\ Checked'
<1>1. UNCHANGED <<index, checks>>
  BY DEF AddMirrorUrl, told
<1>2. /\ Listing' /\ Twins(list)' /\ Len(list') = Len(list) + 1
      /\ \A i \in DOMAIN list : i \in DOMAIN list' /\ list'[i] = list[i]
  BY Entered
<1>3. Places'
  BY <1>1, <1>2 DEF IInv, Places
<1>4. Checked'
  BY <1>1, <1>2 DEF IInv, Checked, Size
<1> QED
  BY <1>2, <1>3, <1>4
-----------------------------------------------------------------------------
(* A failure leaves -3 at least, and below nothing the ant is off.         *)
LEMMA Charged ==
  ASSUME IInv, NEW t \in Ants, NEW n \in {1, 3}, Charge(t, n), pc[t] \in {"check", "go"}
  PROVE  Tries'
<1>1. retry[t] >= 0 /\ retry[t] \in -3 .. Retries /\ Retries \in Nat
  BY UrlListAssumption DEF IInv, Tries
<1>2. retry' = [retry EXCEPT ![t] = retry[t] - n] /\ retry[t] - n \in -3 .. Retries
  BY <1>1 DEF Charge
<1>3. retry' \in [Ants -> -3 .. Retries] /\ retry'[t] = retry[t] - n
      /\ \A u \in Ants : u # t => retry'[u] = retry[u]
  BY <1>2 DEF IInv, Tries
<1>4. /\ pc' \in [Ants -> States]
      /\ pc'[t] = (IF retry[t] < n THEN "off" ELSE "again")
      /\ \A u \in Ants : u # t => pc'[u] = pc[u]
  BY DEF Charge, IInv, Tries, States
<1>5. \A u \in Ants : pc'[u] # "off" => retry'[u] >= 0
  BY <1>1, <1>3, <1>4 DEF IInv, Tries
<1> QED
  BY <1>3, <1>4, <1>5 DEF Tries

(* An ant at work has retries left, after every step.                      *)
LEMMA TriesKeeps ==
  ASSUME IInv, [Next]_vars
  PROVE  Tries'
<1>1. /\ pc \in [Ants -> States] /\ retry \in [Ants -> -3 .. Retries]
      /\ \A t \in Ants : pc[t] # "off" => retry[t] >= 0
  BY DEF IInv, Tries
<1>2. ASSUME retry' = retry, NEW t \in Ants, pc[t] # "off", NEW c \in States,
             pc' = [pc EXCEPT ![t] = c]
      PROVE  Tries'
  BY <1>1, <1>2 DEF Tries
<1>3. ASSUME UNCHANGED <<pc, retry>>
      PROVE  Tries'
  BY <1>1, <1>3 DEF Tries
<1>4. ASSUME NEW u \in Mirrors, AddMirrorUrl(u)
      PROVE  Tries'
  BY <1>3, <1>4 DEF AddMirrorUrl, ants
<1>5. ASSUME NEW t \in Ants, GetTask(t)
      PROVE  Tries'
  <2>1. pc[t] # "off" /\ retry' = retry
    BY <1>5 DEF GetTask
  <2>2. PICK c \in States : pc' = [pc EXCEPT ![t] = c]
    BY <1>5 DEF GetTask, Begin, States
  <2> QED
    BY <1>2, <2>1, <2>2
<1>6. ASSUME NEW t \in Ants,
             \/ NoMoreTask(t) \/ Down(t) \/ CheckPassed(t)
             \/ OtherProtocol(t) \/ SessionEnds(t) \/ Load(t) \/ Store(t)
      PROVE  Tries'
  <2>1. pc[t] # "off" /\ retry' = retry
    BY <1>6 DEF NoMoreTask, Down, CheckPassed, OtherProtocol, SessionEnds, Load, Store
  <2>2. PICK c \in {"again", "go", "piece", "off"} : pc' = [pc EXCEPT ![t] = c]
    <3>1. CASE Store(t)
      BY <3>1 DEF Store
    <3>2. CASE ~Store(t)
      BY <1>6, <3>2 DEF NoMoreTask, Down, CheckPassed, OtherProtocol, SessionEnds, Load
    <3> QED
      BY <3>1, <3>2
  <2>3. c \in States
    BY <2>2 DEF States
  <2> QED
    BY <1>2, <2>1, <2>2, <2>3
<1>7. ASSUME NEW t \in Ants, Redirected(t)
      PROVE  Tries'
  BY <1>3, <1>7 DEF Redirected
<1>8. ASSUME NEW t \in Ants, Up(t)
      PROVE  Tries'
  <2>1. /\ pc' = [pc EXCEPT ![t] = "again"] /\ retry' = [retry EXCEPT ![t] = Retries]
        /\ Retries \in -3 .. Retries /\ Retries >= 0
    BY <1>8, UrlListAssumption DEF Up
  <2> QED
    BY <1>1, <2>1 DEF Tries, States
<1>9. ASSUME NEW t \in Ants, CheckFails(t) \/ WrongLength(t) \/ SessionFails(t)
      PROVE  Tries'
  BY <1>9, Charged DEF CheckFails, WrongLength, SessionFails
<1>10. CASE UNCHANGED vars
  BY <1>3, <1>10 DEF vars, ants
<1> QED
  BY <1>4, <1>5, <1>6, <1>7, <1>8, <1>9, <1>10 DEF Next
-----------------------------------------------------------------------------
(* The slowest of some ants of which one has received something is an ant. *)
LEMMA SlowestIs ==
  ASSUME NEW sp \in [Ants -> Nat], NEW t \in Ants, sp[t] > 0
  PROVE  Slowest(sp) \in Ants
<1> DEFINE moving == {u \in Ants : sp[u] > 0}
           packs == {sp[u] : u \in moving}
           least == Min(packs)
           named == {u \in moving : sp[u] = least}
<1>1. Ants \subseteq Nat
  BY UrlListAssumption
<1>2. least \in packs
  <2>1. packs \subseteq Nat /\ packs # {}
    OBVIOUS
  <2> QED
    BY <2>1, MinIn
<1>3. named \subseteq Nat /\ named # {}
  BY <1>1, <1>2
<1>4. Slowest(sp) = Min(named)
  BY DEF Slowest
<1> HIDE DEF named
<1>5. Min(named) \in named
  BY <1>3, MinIn
<1> QED
  BY <1>4, <1>5 DEF named

(* An increment is loaded.                                                 *)
LEMMA LoadPacks ==
  ASSUME IInv, NEW t \in Ants, Load(t)
  PROVE  Packs'
<1>1. /\ inc = Idle /\ count.pieces < MaxPieces
      /\ inc' = [ant |-> t, prior |-> list[index[t]].prior, size |-> Len(list)]
      /\ pc' = [pc EXCEPT ![t] = "piece"]
      /\ count' = [count EXCEPT !.pieces = @ + 1]
      /\ UNCHANGED <<speed, sum, swap>>
  BY DEF Load, speeds
<1>2. /\ speed \in [Ants -> Nat] /\ sum \in Nat /\ swap \in Ants \cup {None}
      /\ count \in [uses : Nat, pieces : 0 .. MaxPieces] /\ pc \in [Ants -> States]
      /\ \A u \in Ants : pc[u] = "piece" => inc.ant = u
      /\ sum + Pending <= count.pieces
  BY DEF IInv, Packs, Tries
<1>3. inc.ant = None /\ t # None /\ MaxPieces \in Nat /\ \A u \in Ants : u # None
  BY <1>1, UrlListAssumption DEF Idle, None
<1>4. list[index[t]].prior \in Int /\ Len(list) \in Nat
  BY Listed DEF IInv, Listing, Places
<1>5. inc' \in [ant : Ants \cup {None}, prior : Int, size : Nat] /\ inc'.ant = t
  BY <1>1, <1>4
<1>6. count'.pieces = count.pieces + 1 /\ count' \in [uses : Nat, pieces : 0 .. MaxPieces]
  BY <1>1, <1>2, <1>3
<1>7. \A u \in Ants : pc'[u] = "piece" => inc'.ant = u
  BY <1>1, <1>2, <1>3, <1>5
<1>8. Pending = 0 /\ Pending' = 1
  BY <1>3, <1>5 DEF Pending
<1>9. sum' + Pending' <= count'.pieces
  BY <1>1, <1>2, <1>6, <1>8
<1> QED
  BY <1>1, <1>2, <1>5, <1>6, <1>7, <1>9 DEF Packs

(* The increment is stored, and the pack is counted.                       *)
LEMMA StorePacks ==
  ASSUME IInv, NEW t \in Ants, Store(t)
  PROVE  Packs'
<1>1. /\ pc[t] = "piece" /\ inc' = Idle /\ UNCHANGED count
      /\ IF Goes(t) \/ Waits(t)
         THEN speed' = Slow /\ sum' = 0 /\ swap' = None
         ELSE /\ speed' = NewSpeed(t) /\ sum' = sum + 1
              /\ swap' = IF Compares THEN Slowest(NewSpeed(t)) ELSE swap
      /\ pc' = [pc EXCEPT ![t] = IF Goes(t) THEN "again" ELSE "go"]
  BY DEF Store
<1>2. /\ speed \in [Ants -> Nat] /\ sum \in Nat /\ swap \in Ants \cup {None}
      /\ count \in [uses : Nat, pieces : 0 .. MaxPieces] /\ pc \in [Ants -> States]
      /\ \A u \in Ants : pc[u] = "piece" => inc.ant = u
      /\ sum + Pending <= count.pieces
  BY DEF IInv, Packs, Tries
<1>3. t # None /\ MaxPieces \in Nat
  BY UrlListAssumption DEF None
<1>4. Pending = 1 /\ Pending' = 0
  BY <1>1, <1>2, <1>3 DEF Pending, Idle
<1>5. inc' \in [ant : Ants \cup {None}, prior : Int, size : Nat]
  BY <1>1 DEF Idle
<1>6. NewSpeed(t) \in [Ants -> Nat] /\ NewSpeed(t)[t] > 0 /\ Slow \in [Ants -> Nat]
  BY <1>2 DEF NewSpeed, Slow
<1>7. Slowest(NewSpeed(t)) \in Ants
  BY <1>6, SlowestIs
<1>8. /\ speed' \in [Ants -> Nat] /\ swap' \in Ants \cup {None}
      /\ sum' = 0 \/ sum' = sum + 1
  BY <1>1, <1>2, <1>6, <1>7
<1>9. sum' \in Nat /\ sum' + Pending' <= count'.pieces
  BY <1>1, <1>2, <1>4, <1>8
<1>10. \A u \in Ants : pc'[u] = "piece" => inc'.ant = u
  <2>1. ASSUME NEW u \in Ants PROVE pc'[u] # "piece"
    <3>1. CASE u = t
      <4>1. pc'[t] = "again" \/ pc'[t] = "go"
        BY <1>1, <1>2
      <4> QED
        BY <3>1, <4>1
    <3>2. CASE u # t
      BY <1>1, <1>2, <3>2
    <3> QED
      BY <3>1, <3>2
  <2> QED
    BY <2>1
<1> QED
  BY <1>1, <1>2, <1>5, <1>8, <1>9, <1>10 DEF Packs

(* Every other step leaves the increments and the packs alone.             *)
LEMMA PacksKeeps ==
  ASSUME IInv, [Next]_vars
  PROVE  Packs'
<1>1. /\ speed \in [Ants -> Nat] /\ sum \in Nat /\ swap \in Ants \cup {None}
      /\ inc \in [ant : Ants \cup {None}, prior : Int, size : Nat]
      /\ count \in [uses : Nat, pieces : 0 .. MaxPieces] /\ pc \in [Ants -> States]
      /\ \A t \in Ants : pc[t] = "piece" => inc.ant = t
      /\ sum + Pending <= count.pieces
  BY DEF IInv, Packs, Tries
<1>2. ASSUME UNCHANGED <<speed, sum, swap, inc, count>>,
             \A t \in Ants : pc'[t] = "piece" => pc[t] = "piece"
      PROVE  Packs'
  BY <1>1, <1>2 DEF Packs, Pending
<1>3. ASSUME NEW u \in Mirrors, AddMirrorUrl(u)
      PROVE  Packs'
  BY <1>2, <1>3 DEF AddMirrorUrl, speeds, ants
<1>4. ASSUME NEW t \in Ants, GetTask(t)
      PROVE  Packs'
  <2>1. /\ count' = [count EXCEPT !.uses = @ + 1] /\ speed' = Slow /\ sum' = 0
        /\ UNCHANGED <<swap, inc>>
    BY <1>4 DEF GetTask
  <2>2. \A u \in Ants : pc'[u] = "piece" => pc[u] = "piece"
    BY <1>1, <1>4 DEF GetTask, Begin
  <2>3. count' \in [uses : Nat, pieces : 0 .. MaxPieces] /\ count'.pieces = count.pieces
    BY <1>1, <2>1
  <2>4. Pending' = Pending /\ Pending \in {0, 1}
    BY <2>1 DEF Pending
  <2>5. sum' + Pending' <= count'.pieces
    BY <1>1, <2>1, <2>3, <2>4, UrlListAssumption
  <2> QED
    BY <1>1, <2>1, <2>2, <2>3, <2>5 DEF Packs, Slow
<1>5. ASSUME NEW t \in Ants, Works(t), ~Load(t), ~Store(t)
      PROVE  Packs'
  <2>1. UNCHANGED <<speed, sum, swap, inc, count>>
    BY <1>5 DEF Works, NoMoreTask, Down, Up, CheckFails, Redirected, WrongLength,
                CheckPassed, OtherProtocol, SessionEnds, SessionFails, speeds
  <2>2. pc' = pc \/ \E c \in {"again", "go", "off"} : pc' = [pc EXCEPT ![t] = c]
    BY <1>5 DEF Works, NoMoreTask, Down, Up, CheckFails, Redirected, WrongLength,
                CheckPassed, OtherProtocol, SessionEnds, SessionFails, Charge
  <2>3. \A u \in Ants : pc'[u] = "piece" => pc[u] = "piece"
    BY <1>1, <2>2
  <2> QED
    BY <1>2, <2>1, <2>3
<1>6. CASE UNCHANGED vars
  BY <1>2, <1>6 DEF vars, speeds, ants
<1> QED
  BY <1>3, <1>4, <1>5, <1>6, LoadPacks, StorePacks DEF Next, Works
-----------------------------------------------------------------------------
(* Every step keeps the invariant.                                         *)
LEMMA StepKeeps == IInv /\ [Next]_vars => IInv'
<1> SUFFICES ASSUME IInv, [Next]_vars PROVE IInv'
  OBVIOUS
<1>1. Tries' /\ Packs'
  BY TriesKeeps, PacksKeeps
<1>2. Listing' /\ Twins(list)' /\ Places' /\ Checked'
  <2>1. ASSUME NEW t \in Ants, Works(t)
        PROVE  Listing' /\ Twins(list)' /\ Places' /\ Checked'
    BY <2>1, WorkChanges, TablesKept
  <2>2. CASE UNCHANGED vars
    <3>1. Changed(list, list)
      BY Unchanged DEF IInv, Listing
    <3> QED
      BY <2>2, <3>1, TablesKept DEF vars, told
  <2> QED
    BY <2>1, <2>2, GetTaskTables, AddTables DEF Next, Works
<1> QED
  BY <1>1, <1>2 DEF IInv

(* The tables hold numbers of ants and of entries; a mirror is checked     *)
(* once, by one ant, whoever reports, redirects, enters mirrors or stores  *)
(* a priority that is out of date meanwhile; and no URL is listed twice    *)
(* unless a server redirected to it (UrlsRight).                           *)
THEOREM UrlsStayRight == Spec => []UrlsRight
<1>1. IInv => UrlsRight
  <2> SUFFICES ASSUME IInv PROVE UrlsRight
    OBVIOUS
  <2>1. TypeOK
    <3>1. \A i \in Entries : list[i].bused \in BOOLEAN /\ list[i].prior \in Int
      BY Listed DEF IInv, Listing, Entries
    <3>2. \A t \in Ants : index[t] \in Entries /\ retry[t] \in -3 .. Retries
      BY DEF IInv, Places, Tries, Entries
    <3>3. swap \in Ants \cup {None} /\ inc.ant \in Ants \cup {None}
      BY DEF IInv, Packs
    <3>4. Pending \in {0, 1} /\ sum \in Nat /\ count.pieces \in 0 .. MaxPieces
      BY DEF IInv, Packs, Pending
    <3>5. sum <= MaxPieces
      BY <3>4, UrlListAssumption DEF IInv, Packs
    <3> QED
      BY <3>1, <3>2, <3>3, <3>5 DEF TypeOK
  <2>2. CheckedOnce
    BY DEF IInv, Checked, CheckedOnce
  <2>3. SameOnlyByRedirect
    BY Zenon DEF IInv, Twins, SameOnlyByRedirect, Entries
  <2> QED
    BY <2>1, <2>2, <2>3 DEF UrlsRight
<1> QED
  BY <1>1, InitIInv, StepKeeps, PTL DEF Spec
-----------------------------------------------------------------------------
(* An entry has no more than it was credited with, and 100000 less when it *)
(* was reported as invalid; an entry of the future has its preset.         *)
Owing(B, i) == IF i \in B THEN 100000 ELSE 0

Credited ==
  /\ credit \in [1 .. Size -> Nat]
  /\ \A i \in DOMAIN list : i \notin revived => list[i].prior <= credit[i] - Owing(bad, i)
  /\ \A i \in 1 .. Size : i \notin DOMAIN list => credit[i] = 10000 /\ i \notin bad

(* A step that gives an entry no more than it is credited with.            *)
Fair ==
  /\ credit' \in [1 .. Size -> Nat] /\ DOMAIN list' = DOMAIN list
  /\ \A i \in DOMAIN list :
       i \notin revived' =>
         /\ i \notin revived
         /\ list'[i].prior - credit'[i] + Owing(bad', i) <= list[i].prior - credit[i] + Owing(bad, i)
  /\ \A i \in 1 .. Size : i \notin DOMAIN list =>
       credit'[i] = credit[i] /\ (i \in bad' => i \in bad)

LEMMA FairKeeps ==
  ASSUME IInv, Credited, Fair, list' \in Seq(Rec)
  PROVE  Credited'
<1>1. Size' = Size
  BY DEF Size
<1>2. \A i \in DOMAIN list :
        /\ list[i].prior \in Int /\ list'[i].prior \in Int /\ i \in 1 .. Size
        /\ Owing(bad, i) \in Int /\ Owing(bad', i) \in Int
  <2>1. DOMAIN list' = DOMAIN list
    BY DEF Fair
  <2> QED
    BY <2>1, Listed, SizeType DEF IInv, Listing, Owing
<1>3. \A i \in DOMAIN list : i \notin revived' =>
        list'[i].prior <= credit'[i] - Owing(bad', i)
  <2> SUFFICES ASSUME NEW i \in DOMAIN list, i \notin revived'
               PROVE  list'[i].prior <= credit'[i] - Owing(bad', i)
    OBVIOUS
  <2>1. /\ i \notin revived
        /\ list'[i].prior - credit'[i] + Owing(bad', i) <= list[i].prior - credit[i] + Owing(bad, i)
    BY DEF Fair
  <2>2. list[i].prior <= credit[i] - Owing(bad, i)
    BY <2>1 DEF Credited
  <2>3. credit[i] \in Nat /\ credit'[i] \in Nat
    BY <1>2 DEF Credited, Fair
  <2> HIDE DEF Owing
  <2> QED
    BY <1>2, <2>1, <2>2, <2>3
<1> QED
  BY <1>1, <1>3 DEF Credited, Fair, Owing

(* Nothing that the priorities depend on changes.                          *)
LEMMA StillFair ==
  ASSUME IInv, Credited, UNCHANGED <<list, credit, bad, revived>>
  PROVE  Fair
<1>1. \A i \in DOMAIN list : list[i].prior - credit[i] + Owing(bad, i) \in Int
  BY Listed, SizeType DEF IInv, Listing, Credited, Owing
<1>2. \A i \in DOMAIN list : list'[i].prior - credit'[i] + Owing(bad', i)
                               = list[i].prior - credit[i] + Owing(bad, i)
  BY DEF Owing
<1>3. \A x \in Int : x <= x
  OBVIOUS
<1> QED
  BY <1>1, <1>2, <1>3 DEF Fair, Credited

(* One entry changes.                                                      *)
LEMMA OneFair ==
  ASSUME IInv, Credited, NEW b \in DOMAIN list,
         NEW e \in Rec, list' = [list EXCEPT ![b] = e],
         NEW gain \in Nat, credit' = [credit EXCEPT ![b] = credit[b] + gain],
         bad' \in {bad, bad \cup {b}}, revived' \in {revived, revived \cup {b}},
         b \in revived' \/ e.prior + Owing(bad', b) <= list[b].prior + gain + Owing(bad, b)
  PROVE  Fair
<1>1. /\ \A i \in DOMAIN list : i \in 1 .. Size /\ list[i] \in Rec /\ list[i].prior \in Int
      /\ list' \in Seq(Rec) /\ DOMAIN list' = DOMAIN list /\ e.prior \in Int
      /\ \A i \in DOMAIN list : list'[i] = IF i = b THEN e ELSE list[i]
  <2>1. list \in Seq(Rec) /\ Len(list) \in 1 .. Size /\ Size \in Nat
    BY SizeType DEF IInv, Listing
  <2>2. \A i \in DOMAIN list : list[i] \in Rec /\ i \in 1 .. Size
    BY <2>1
  <2>3. \A d \in Rec : d.prior \in Int
    BY DEF Rec
  <2> HIDE DEF Rec
  <2>4. list' \in Seq(Rec)
    <3>1. Len(list) \in Nat /\ DOMAIN list = 1 .. Len(list)
      BY <2>1
    <3>2. list' = [i \in 1 .. Len(list) |-> IF i = b THEN e ELSE list[i]]
      BY <3>1
    <3>3. [i \in 1 .. Len(list) |-> IF i = b THEN e ELSE list[i]] \in Seq(Rec)
      BY <2>2, <3>1
    <3> QED
      BY <3>2, <3>3
  <2>5. DOMAIN list' = DOMAIN list /\ \A i \in DOMAIN list : list'[i] = IF i = b THEN e ELSE list[i]
    OBVIOUS
  <2> QED
    BY <2>2, <2>3, <2>4, <2>5
<1>2. /\ credit' \in [1 .. Size -> Nat]
      /\ \A i \in 1 .. Size : credit'[i] = IF i = b THEN credit[b] + gain ELSE credit[i]
      /\ \A i \in 1 .. Size : credit[i] \in Nat
  BY <1>1 DEF Credited
<1>3. \A k : k # b => Owing(bad', k) = Owing(bad, k)
  BY DEF Owing
<1>4. \A k : Owing(bad, k) \in Int /\ Owing(bad', k) \in Int
  BY DEF Owing
<1>5. ASSUME NEW i \in DOMAIN list, i \notin revived'
      PROVE  /\ i \notin revived
             /\ list'[i].prior - credit'[i] + Owing(bad', i) <= list[i].prior - credit[i] + Owing(bad, i)
  <2>1. i \notin revived
    BY <1>5
  <2>2. CASE i = b
    <3>1. e.prior + Owing(bad', b) <= list[b].prior + gain + Owing(bad, b)
      BY <1>5, <2>2
    <3>2. list'[b].prior = e.prior /\ credit'[b] = credit[b] + gain /\ credit[b] \in Nat
      BY <1>1, <1>2
    <3> HIDE DEF Owing
    <3>3. list'[b].prior - credit'[b] + Owing(bad', b) <= list[b].prior - credit[b] + Owing(bad, b)
      <4>1. /\ Owing(bad, b) \in Int /\ Owing(bad', b) \in Int
            /\ e.prior \in Int /\ list[b].prior \in Int /\ credit[b] \in Int
        BY <1>1, <1>4, <3>2
      <4>2. \A x, y, z, w, c \in Int :
              x + z <= y + gain + w => x - (c + gain) + z <= y - c + w
        OBVIOUS
      <4> QED
        BY <3>1, <3>2, <4>1, <4>2
    <3> QED
      BY <2>1, <2>2, <3>3
  <2>3. CASE i # b
    <3>1. list'[i].prior = list[i].prior /\ credit'[i] = credit[i] /\ Owing(bad', i) = Owing(bad, i)
      BY <1>1, <1>2, <1>3, <2>3
    <3>2. list[i].prior - credit[i] + Owing(bad, i) \in Int
      BY <1>1, <1>2, <1>4
    <3> QED
      BY <2>1, <3>1, <3>2
  <2> QED
    BY <2>2, <2>3
<1>6. \A i \in 1 .. Size : i \notin DOMAIN list =>
        credit'[i] = credit[i] /\ (i \in bad' => i \in bad)
  BY <1>2
<1> QED
  BY <1>1, <1>2, <1>5, <1>6 DEF Fair

(* A report: 100000 less for an invalid entry.                             *)
LEMMA ReportFair ==
  ASSUME IInv, Credited, NEW u, NEW adjust \in Int, ReportUrl(u, adjust),
         revived' = revived
  PROVE  Fair
<1>1. list \in Seq(Rec)
  BY DEF IInv, Listing
<1>2. CASE Matching(u) = {}
  BY <1>2, StillFair DEF ReportUrl
<1>3. CASE Matching(u) # {}
  <2> DEFINE b == Min(Matching(u))
             gain == IF adjust > 0 THEN adjust ELSE 0
             e == [list[b] EXCEPT !.prior = @ + adjust]
  <2>1. b \in Matching(u)
    BY <1>1, <1>3, MinIn, Listed DEF Matching, Entries
  <2>2. b \in DOMAIN list
    BY <2>1 DEF Matching, Entries
  <2>3. /\ list' = [list EXCEPT ![b].prior = @ + adjust]
        /\ bad' = IF adjust = Invalid THEN bad \cup {b} ELSE bad
        /\ credit' = IF adjust > 0 THEN [credit EXCEPT ![b] = @ + adjust] ELSE credit
    BY <1>3 DEF ReportUrl
  <2>4. list[b] \in Rec /\ list[b].prior \in Int
    BY <1>1, <2>2, Listed
  <2> HIDE DEF b
  <2>5. e \in Rec /\ e.prior = list[b].prior + adjust
    BY <2>4 DEF Rec
  <2>6. list' = [list EXCEPT ![b] = e]
    BY <2>3
  <2>7. gain \in Nat /\ credit' = [credit EXCEPT ![b] = credit[b] + gain]
    <3>1. credit \in [1 .. Size -> Nat] /\ b \in 1 .. Size
      BY <1>1, <2>2, Listed, SizeType DEF Credited, IInv, Listing
    <3>2. CASE adjust > 0
      BY <2>3, <3>2
    <3>3. CASE ~(adjust > 0)
      <4>1. gain = 0 /\ credit' = credit /\ credit[b] + 0 = credit[b]
        BY <2>3, <3>1, <3>3
      <4> HIDE DEF gain
      <4> QED
        BY <3>1, <4>1
    <3> QED
      BY <3>2, <3>3
  <2>8. e.prior + Owing(bad', b) <= list[b].prior + gain + Owing(bad, b)
    BY <2>3, <2>4, <2>5 DEF Owing, Invalid
  <2>9. bad' \in {bad, bad \cup {b}}
    BY <2>3
  <2> HIDE DEF e, gain
  <2> QED
    BY <2>2, <2>5, <2>6, <2>7, <2>8, <2>9, OneFair
<1> QED
  BY <1>2, <1>3

(* A redirect: 100 more, credited.                                         *)
LEMMA RedirectFair ==
  ASSUME IInv, Credited, NEW t \in Ants, Redirected(t)
  PROVE  Fair
<1>1. list \in Seq(Rec)
  BY DEF IInv, Listing
<1>2. CASE Matching(url[t]) = {}
  BY <1>2, StillFair DEF Redirected
<1>3. CASE Matching(url[t]) # {}
  <2> DEFINE b == Min(Matching(url[t]))
             d == list[b]
             to == Moves[url[t]]
             e == MovedTo(d, to)
  <2>1. b \in Matching(url[t])
    BY <1>1, <1>3, MinIn, Listed DEF Matching, Entries
  <2>2. b \in DOMAIN list
    BY <2>1 DEF Matching, Entries
  <2>3. /\ list' = [list EXCEPT ![b] = e] /\ bad' = bad /\ revived' = revived
        /\ credit' = [credit EXCEPT ![b] = credit[b] + 100]
    BY <1>3 DEF Redirected
  <2>4. d \in Rec /\ d.prior \in Int /\ d.bused \in BOOLEAN
    BY <1>1, <2>2, Listed
  <2>5. to \in URLs
    BY DEF Redirected, URLs
  <2>9. e = [d EXCEPT !.url = to, !.prior = @ + 100, !.moved = TRUE]
    BY DEF MovedTo
  <2> HIDE DEF b, to, d, e
  <2>6. e = [url |-> to, prior |-> d.prior + 100, bused |-> d.bused, moved |-> TRUE]
    BY <2>4, <2>9 DEF Rec
  <2>10. TRUE \in BOOLEAN /\ d.prior + 100 \in Int
    BY <2>4
  <2>7. e \in Rec /\ e.prior = list[b].prior + 100
    BY <2>4, <2>5, <2>6, <2>10 DEF Rec, d
  <2>8. e.prior + Owing(bad', b) <= list[b].prior + 100 + Owing(bad, b)
    BY <2>3, <2>4, <2>7 DEF Owing, d
  <2> QED
    BY <2>2, <2>3, <2>7, <2>8, OneFair
<1> QED
  BY <1>2, <1>3

(* A use: 500 less, or nothing left.                                       *)
LEMMA UseFair ==
  ASSUME IInv, Credited, NEW t \in Ants, GetTask(t)
  PROVE  Fair
<1> DEFINE b == Best
           e == Used(list[b])
<1>1. list \in Seq(Rec) /\ Len(list) \in 1 .. Size /\ b \in DOMAIN list
  BY BestListed, SizeType DEF IInv, Listing, Entries
<1>2. /\ list' = [list EXCEPT ![b] = e] /\ bad' = bad /\ credit' = credit
      /\ revived' = IF Cleared(list[b]) THEN revived \cup {b} ELSE revived
  BY DEF GetTask
<1>3. list[b] \in Rec /\ list[b].prior \in Int /\ list[b].bused \in BOOLEAN
  BY <1>1, Listed
<1> HIDE DEF b
<1>4. list[b].bused = TRUE \/ list[b].bused = FALSE
  BY <1>3, Zenon
<1>5. e \in Rec /\ (e.prior <= list[b].prior \/ Cleared(list[b]))
  <2>1. CASE list[b].bused = TRUE
    <3>1. e = [list[b] EXCEPT !.prior = @ - 500]
      BY <2>1, Zenon DEF Used
    <3>2. e \in Rec /\ e.prior = list[b].prior - 500
      BY <1>3, <3>1 DEF Rec
    <3> QED
      BY <1>3, <3>2
  <2>2. CASE list[b].bused = FALSE
    <3>1. e = [list[b] EXCEPT !.bused = TRUE, !.prior = 0]
      BY <2>2, Zenon DEF Used
    <3>2. e = [url |-> list[b].url, prior |-> 0, bused |-> TRUE, moved |-> list[b].moved]
      BY <1>3, <3>1 DEF Rec
    <3>3. list[b].url \in URLs /\ list[b].moved \in BOOLEAN
      BY <1>3, Zenon DEF Rec
    <3>4. TRUE \in BOOLEAN /\ 0 \in Int
      OBVIOUS
    <3>5. e \in Rec
      BY <3>2, <3>3, <3>4 DEF Rec
    <3>6. e.prior = 0
      BY <3>2
    <3>7. CASE list[b].prior < 0
      BY <2>2, <3>5, <3>7 DEF Cleared
    <3>8. CASE ~(list[b].prior < 0)
      BY <1>3, <3>5, <3>6, <3>8
    <3> QED
      BY <3>7, <3>8
  <2> QED
    BY <1>4, <2>1, <2>2
<1>6. credit' = [credit EXCEPT ![b] = credit[b] + 0]
  <2>1. credit \in [1 .. Size -> Nat] /\ b \in 1 .. Size
    BY <1>1, Listed, SizeType DEF Credited
  <2>2. credit[b] + 0 = credit[b]
    BY <2>1
  <2> QED
    BY <1>2, <2>1, <2>2
<1>7. b \in revived' \/ e.prior + Owing(bad', b) <= list[b].prior + 0 + Owing(bad, b)
  <2>1. CASE Cleared(list[b])
    BY <1>2, <2>1
  <2>2. CASE ~Cleared(list[b])
    <3>1. e.prior <= list[b].prior /\ e.prior \in Int
      BY <1>5, <2>2 DEF Rec
    <3> HIDE DEF e
    <3>2. Owing(bad', b) = Owing(bad, b) /\ Owing(bad, b) \in Int
      BY <1>2 DEF Owing
    <3> QED
      BY <1>3, <3>1, <3>2
  <2> QED
    BY <2>1, <2>2
<1>8. revived' \in {revived, revived \cup {b}}
  BY <1>2
<1> HIDE DEF e
<1> QED
  BY <1>1, <1>2, <1>5, <1>6, <1>7, <1>8, OneFair DEF b

(* A piece: 1 more, credited, or the report is overwritten.                *)
LEMMA StoreFair ==
  ASSUME IInv, Credited, NEW t \in Ants, Store(t)
  PROVE  Fair
<1> DEFINE b == index[t]
           e == [list[b] EXCEPT !.prior = inc.prior + 1]
<1>1. list \in Seq(Rec) /\ b \in DOMAIN list /\ inc.prior \in Int
  BY DEF IInv, Listing, Places, Packs
<1>2. list[b] \in Rec /\ list[b].prior \in Int
  BY <1>1, Listed
<1>3. bad' = bad
  BY DEF Store
<1>4. CASE UNCHANGED <<list, revived, credit>>
  BY <1>3, <1>4, StillFair
<1>5. CASE /\ list' = [list EXCEPT ![index[t]].prior = inc.prior + 1]
           /\ revived' = IF list[index[t]].prior # inc.prior
                         THEN revived \cup {index[t]} ELSE revived
           /\ credit' = [credit EXCEPT ![index[t]] = @ + 1]
  <2>1. e \in Rec /\ e.prior = inc.prior + 1
    BY <1>1, <1>2 DEF Rec
  <2>2. list' = [list EXCEPT ![b] = e] /\ credit' = [credit EXCEPT ![b] = credit[b] + 1]
    BY <1>5
  <2>3. b \in revived' \/ e.prior + Owing(bad', b) <= list[b].prior + 1 + Owing(bad, b)
    <3>1. CASE list[b].prior # inc.prior
      BY <1>5, <3>1
    <3>2. CASE list[b].prior = inc.prior
      BY <1>1, <1>2, <1>3, <2>1, <3>2 DEF Owing
    <3> QED
      BY <3>1, <3>2
  <2>4. revived' \in {revived, revived \cup {b}}
    BY <1>5
  <2> HIDE DEF b, e
  <2> QED
    BY <1>1, <1>3, <2>1, <2>2, <2>3, <2>4, OneFair
<1> QED
  BY <1>4, <1>5 DEF Store

(* Every step keeps priorities within credits.                             *)
LEMMA CreditKept == IInv /\ Credited /\ [Next]_vars => Credited'
<1> SUFFICES ASSUME IInv, Credited, [Next]_vars PROVE Credited'
  OBVIOUS
<1>0. IInv'
  BY StepKeeps
<1>a. list' \in Seq(Rec)
  BY <1>0 DEF IInv, Listing
<1>1. ASSUME NEW t \in Ants, GetTask(t)
      PROVE  Credited'
  BY <1>a, <1>1, UseFair, FairKeeps
<1>2. ASSUME NEW t \in Ants, Store(t)
      PROVE  Credited'
  BY <1>a, <1>2, StoreFair, FairKeeps
<1>3. ASSUME NEW t \in Ants, Redirected(t)
      PROVE  Credited'
  BY <1>a, <1>3, RedirectFair, FairKeeps
<1>4. ASSUME NEW t \in Ants,
             CheckFails(t) \/ WrongLength(t) \/ CheckPassed(t) \/ OtherProtocol(t)
               \/ SessionFails(t)
      PROVE  Credited'
  <2>1. revived' = revived
    BY <1>4 DEF CheckFails, WrongLength, CheckPassed, OtherProtocol, SessionFails
  <2>2. UNCHANGED <<list, bad, credit>>
          \/ \E adjust \in {-10000, Invalid, 500, -1000} : ReportUrl(url[t], adjust)
    BY <1>4 DEF CheckFails, WrongLength, CheckPassed, OtherProtocol, SessionFails
  <2>3. {-10000, Invalid, 500, -1000} \subseteq Int
    BY DEF Invalid
  <2>4. Fair
    BY <2>1, <2>2, <2>3, StillFair, ReportFair
  <2> QED
    BY <1>a, <2>4, FairKeeps
<1>5. ASSUME UNCHANGED <<list, bad, revived, credit>>
      PROVE  Credited'
  BY <1>a, <1>5, StillFair, FairKeeps
<1>6. ASSUME NEW t \in Ants,
             NoMoreTask(t) \/ Down(t) \/ Up(t) \/ SessionEnds(t) \/ Load(t)
      PROVE  Credited'
  BY <1>5, <1>6 DEF NoMoreTask, Down, Up, SessionEnds, Load, told
<1>7. ASSUME NEW u \in Mirrors, AddMirrorUrl(u)
      PROVE  Credited'
  <2> DEFINE n == Len(list) + 1
  <2>1. /\ list \in Seq(Rec) /\ Len(list) \in 1 .. Size /\ Len(list) < Size
        /\ list' = Append(list, Entry(u)) /\ UNCHANGED <<bad, revived, credit>>
        /\ Size \in Nat /\ Size' = Size
    BY <1>7, SizeType DEF IInv, Listing, AddMirrorUrl, told, Size
  <2>2. /\ DOMAIN list = 1 .. Len(list) /\ DOMAIN list' = 1 .. n /\ list'[n] = Entry(u)
        /\ \A i \in DOMAIN list : list'[i] = list[i]
        /\ n \in 1 .. Size /\ n \notin DOMAIN list
    BY <2>1
  <2>3. \A i \in DOMAIN list' : i \in DOMAIN list \/ i = n
    BY <2>1, <2>2
  <2>4. list'[n].prior = 10000 /\ credit[n] = 10000 /\ Owing(bad, n) = 0
    BY <2>2 DEF Credited, Entry, Owing
  <2>5. \A i : Owing(bad', i) = Owing(bad, i)
    BY <2>1 DEF Owing
  <2> HIDE DEF n, Owing
  <2>6. \A i \in DOMAIN list' : i \notin revived' => list'[i].prior <= credit'[i] - Owing(bad', i)
    BY <2>1, <2>2, <2>3, <2>4, <2>5 DEF Credited
  <2>7. \A i \in 1 .. Size : i \notin DOMAIN list' => i \notin DOMAIN list
    BY <2>1, <2>2 DEF n
  <2> QED
    BY <2>1, <2>6, <2>7 DEF Credited
<1>8. CASE UNCHANGED vars
  BY <1>5, <1>8 DEF vars, told
<1> QED
  BY <1>1, <1>2, <1>3, <1>4, <1>6, <1>7, <1>8 DEF Next

(* The entry GetTask picks has the highest priority, or none is above the  *)
(* mark.                                                                   *)
LEMMA BestIsBest ==
  ASSUME IInv
  PROVE  \A j \in Entries : list[j].prior <= list[Best].prior \/ list[j].prior <= -100000
<1>1. list \in Seq(Rec) /\ \A i \in DOMAIN list : list[i].prior \in Int
  BY Listed DEF IInv, Listing
<1>2. CASE Healthy = {}
  BY <1>1, <1>2 DEF Healthy, Entries
<1>3. CASE Healthy # {}
  <2> DEFINE Tops(i) == \A j \in Healthy : \/ list[i].prior > list[j].prior
                                           \/ list[i].prior = list[j].prior /\ i <= j
  <2>1. Healthy \in SUBSET DOMAIN list
    BY DEF Healthy, Entries
  <2>2. \E i \in Healthy : Tops(i)
    BY <1>1, <1>3, <2>1, Foremost
  <2>3. Best = CHOOSE i \in Healthy : Tops(i)
    BY <1>3 DEF Best
  <2>4. Best \in Healthy /\ Tops(Best)
    <3> HIDE DEF Tops
    <3> QED
      BY <2>2, <2>3
  <2>5. \A j \in Healthy : list[j].prior <= list[Best].prior
    BY <1>1, <2>1, <2>4
  <2> QED
    BY <1>1, <2>5 DEF Healthy, Entries
<1> QED
  BY <1>2, <1>3

(* An entry reported as invalid is not handed out again before every other *)
(* entry has been charged down to what is left to it, unless its report    *)
(* was overwritten or cleared: however many uses, pieces and redirects.    *)
THEOREM InvalidStaysShunned == Spec => InvalidShunned
<1>1. Init => Credited
  <2> SUFFICES ASSUME Init PROVE Credited
    OBVIOUS
  <2>1. list = <<Entry(Main)>> /\ bad = {} /\ credit = [i \in 1 .. Size |-> 10000]
    BY DEF Init
  <2>2. DOMAIN list = {1} /\ list[1].prior = 10000 /\ 1 \in 1 .. Size
    BY <2>1, SizeType DEF Entry
  <2> QED
    BY <2>1, <2>2 DEF Credited, Owing
<1>2. ASSUME IInv, Credited, Next, NEW t \in Ants, Given(t), index'[t] \in bad \ revived
      PROVE  \A j \in Entries : list[j].prior <= Rest(index'[t])
  <2>1. GetTask(t)
    <3>1. pc \in [Ants -> States] /\ pc[t] = "again" /\ pc'[t] \in {"check", "go", "other"}
      BY <1>2 DEF IInv, Tries, Given
    <3>2. ASSUME NEW u \in Mirrors, AddMirrorUrl(u) PROVE FALSE
      BY <3>1, <3>2 DEF AddMirrorUrl, ants
    <3>3. ASSUME NEW u \in Ants, GetTask(u), u # t PROVE FALSE
      <4>1. \E c : pc' = [pc EXCEPT ![u] = c]
        BY <3>3 DEF GetTask
      <4> QED
        BY <3>1, <3>3, <4>1
    <3>4. ASSUME NEW u \in Ants, NoMoreTask(u) PROVE FALSE
      BY <3>1, <3>4 DEF NoMoreTask
    <3>5. ASSUME NEW u \in Ants, Works(u), ~NoMoreTask(u) PROVE FALSE
      <4>1. pc[u] # "again"
        BY <3>5 DEF Works, Down, Up, CheckFails, Redirected, WrongLength, CheckPassed,
                    OtherProtocol, SessionEnds, SessionFails, Load, Store
      <4>2. pc' = pc \/ \E c : pc' = [pc EXCEPT ![u] = c]
        <5>1. CASE Store(u)
          BY <5>1 DEF Store
        <5>2. CASE ~Store(u)
          BY <3>5, <5>2 DEF Works, Down, Up, CheckFails, Redirected, WrongLength,
            CheckPassed, OtherProtocol, SessionEnds, SessionFails, Load, Charge
        <5> QED
          BY <5>1, <5>2
      <4> QED
        BY <3>1, <4>1, <4>2
    <3> QED
      BY <1>2, <3>2, <3>3, <3>4, <3>5 DEF Next, Works
  <2>2. list \in Seq(Rec) /\ Len(list) \in 1 .. Size /\ Best \in DOMAIN list
    BY <1>2, BestListed, SizeType DEF IInv, Listing, Entries
  <2>3. index'[t] = Best
    BY <1>2, <2>1 DEF GetTask, IInv, Places
  <2>4. list[Best].prior <= credit[Best] - 100000 /\ credit[Best] \in Nat
    <3>1. list[Best].prior <= credit[Best] - Owing(bad, Best) /\ Best \in 1 .. Size
      BY <1>2, <2>2, <2>3, Listed, SizeType DEF Credited
    <3>2. Owing(bad, Best) = 100000
      BY <1>2, <2>3 DEF Owing
    <3> QED
      BY <1>2, <3>1, <3>2 DEF Credited
  <2>5. \A j \in DOMAIN list : list[j].prior \in Int
    BY <2>2, Listed
  <2>6. \A j \in Entries : list[j].prior <= list[Best].prior \/ list[j].prior <= -100000
    BY <1>2, BestIsBest
  <2> QED
    BY <2>2, <2>3, <2>4, <2>5, <2>6 DEF Rest, Entries
<1>3. IInv /\ Credited /\ [Next]_vars =>
        [\A t \in Ants : Given(t) /\ index'[t] \in bad \ revived =>
           \A j \in Entries : list[j].prior <= Rest(index'[t])]_vars
  BY <1>2
<1> QED
  BY <1>1, <1>3, InitIInv, StepKeeps, CreditKept, PTL DEF Spec, InvalidShunned
=============================================================================
