------------------------------ MODULE UrlList -------------------------------
(***************************************************************************)
(* The list of URLs of a task (m_UrlList: the main URL and its mirrors)    *)
(* with the priorities by which CMgFileManager hands them to the ants, the *)
(* check of a mirror at its first use, and the swap of a slow ant.         *)
(*                                                                         *)
(* GetTask, ReportUrl, ReportRedirect and AddMirrorUrl hold m_UListMutex;  *)
(* FileData increments the priority of the URL of its ant while it holds   *)
(* m_IndexMutex only.  That increment is a step that loads and a step that *)
(* stores, and what the others did in between is lost; when the list was   *)
(* moved by push_back, the store may be lost itself.                       *)
(*                                                                         *)
(* Whether there is a gap to fetch, what arrives, and how a dialogue ends  *)
(* are free choices: they are those of FileManager and of the sessions.    *)
(***************************************************************************)
EXTENDS Integers, Sequences, FiniteSets, FiniteSetsExt, SequencesExt

CONSTANTS
  Ants,       \* numbers of ants, from 1
  Main,       \* the main URL
  Mirrors,    \* URLs entered as mirrors
  Moves,      \* what a server redirects to: a function on some URLs
  Wrong,      \* URLs of files of another length
  Unsupported,\* URLs that are neither http nor ftp
  Retries,    \* m_nRetry of an ant
  SwapAfter,  \* packs after which speeds are compared (10 MB in the code)
  MaxUses,    \* bound: URLs handed out
  MaxPieces   \* bound: pieces delivered

ASSUME UrlListAssumption ==
  /\ Ants \subseteq Nat \ {0} /\ Retries \in Nat /\ SwapAfter \in Nat
  /\ MaxUses \in Nat /\ MaxPieces \in Nat
  /\ Main \notin Mirrors /\ IsFiniteSet(Mirrors)

VARIABLES
  list,    \* m_UrlList
  index,   \* m_AntId2UrlIndex
  speed,   \* m_AntSpeed
  sum,     \* m_SumPack
  swap,    \* m_nSwap
  pc,      \* where an ant is: again, check, go, piece, off
  url,     \* m_sUrl of an ant
  retry,   \* m_nRetry of an ant
  inc,     \* the increment between its load and its store, if any
  count,   \* URLs handed out and pieces delivered
  checks,  \* how often the check of an entry was begun
  good,    \* entries whose check was passed
  bad,     \* entries reported as invalid
  revived, \* entries whose report was stored over, or cleared at a first use
  credit   \* what each entry was credited with, from its preset on

ants == <<pc, url, retry>>
speeds == <<speed, sum, swap>>
told == <<checks, good, bad, revived, credit>>
vars == <<list, index, speeds, ants, inc, count, told>>

None == 0
Entry(u) == [url |-> u, prior |-> 10000, bused |-> FALSE, moved |-> FALSE]
Entries == DOMAIN list
Size == Cardinality(Mirrors) + 1
Slow == [t \in Ants |-> 0]

Idle == [ant |-> None, prior |-> 0, size |-> 0]

Init ==
  /\ list = <<Entry(Main)>> /\ index = [t \in Ants |-> 1]
  /\ speed = Slow /\ sum = 0 /\ swap = None
  /\ pc = [t \in Ants |-> "again"] /\ url = [t \in Ants |-> Main]
  /\ retry = [t \in Ants |-> Retries]
  /\ inc = Idle /\ count = [uses |-> 0, pieces |-> 0]
  /\ checks = [i \in 1 .. Size |-> 0] /\ good = {1} /\ bad = {}
  /\ revived = {} /\ credit = [i \in 1 .. Size |-> 10000]

(* AddMirrorUrl filters out what is there. *)
KnownMutant(u) == list[1].url = u
Known(u) == \E i \in Entries : list[i].url = u

AddMirrorUrl(u) ==
  /\ ~Known(u) /\ Len(list) < Size
  /\ list' = Append(list, Entry(u))
  /\ UNCHANGED <<index, speeds, ants, inc, count, told>>
-----------------------------------------------------------------------------
(* The URL of the highest priority above -100000, or the main one. *)
Healthy == {i \in Entries : list[i].prior > -100000}
Best == IF Healthy = {} THEN 1
        ELSE CHOOSE i \in Healthy :
               \A j \in Healthy : \/ list[i].prior > list[j].prior
                                  \/ list[i].prior = list[j].prior /\ i <= j

(* The first use of an entry clears its priority; every other one costs. *)
UsedMutant(e) == [e EXCEPT !.prior = IF e.bused THEN @ - 500 ELSE 0]
Used(e) == IF e.bused THEN [e EXCEPT !.prior = @ - 500]
           ELSE [e EXCEPT !.bused = TRUE, !.prior = 0]

Cleared(e) == ~e.bused /\ e.prior < 0

NeedCheck(i) == ~list[i].bused /\ i # 1

(* par.SetUrl and what the protocol decides. *)
Begin(i) == IF NeedCheck(i) THEN "check" ELSE "go"

GetTask(t) ==
  /\ pc[t] = "again" /\ count.uses < MaxUses
  /\ count' = [count EXCEPT !.uses = @ + 1]
  /\ index' = [index EXCEPT ![t] = Best]
  /\ list' = [list EXCEPT ![Best] = Used(@)]
  /\ revived' = IF Cleared(list[Best]) THEN revived \cup {Best} ELSE revived
  /\ speed' = Slow /\ sum' = 0
  /\ url' = [url EXCEPT ![t] = list[Best].url]
  /\ IF list[Best].url \in Unsupported
     THEN pc' = [pc EXCEPT ![t] = "other"] /\ checks' = checks
     ELSE /\ pc' = [pc EXCEPT ![t] = Begin(Best)]
          /\ checks' = [checks EXCEPT ![Best] = @ + IF NeedCheck(Best) THEN 1 ELSE 0]
  /\ UNCHANGED <<swap, retry, inc, good, bad, credit>>

NoMoreTask(t) ==
  /\ pc[t] = "again" /\ pc' = [pc EXCEPT ![t] = "off"]
  /\ UNCHANGED <<list, index, speeds, url, retry, inc, count, told>>

(* ThreadDown, or the end of the program's interest in the ant; ThreadUp   *)
(* gives the number to another ant.                                        *)
Down(t) ==
  /\ pc[t] \in {"check", "go"} /\ pc' = [pc EXCEPT ![t] = "off"]
  /\ UNCHANGED <<list, index, speeds, url, retry, inc, count, told>>

Up(t) ==
  /\ pc[t] = "off" /\ pc' = [pc EXCEPT ![t] = "again"]
  /\ retry' = [retry EXCEPT ![t] = Retries]
  /\ UNCHANGED <<list, index, speeds, url, inc, count, told>>
-----------------------------------------------------------------------------
(* ReportUrl adjusts the first entry with the URL; -100000 is for ever. *)
InvalidMutant == -1000
Invalid == -100000

Matching(u) == {i \in Entries : list[i].url = u}

ReportUrl(u, adjust) ==
  IF Matching(u) = {}
  THEN UNCHANGED <<list, bad, credit>>
  ELSE LET i == Min(Matching(u))
       IN /\ list' = [list EXCEPT ![i].prior = @ + adjust]
          /\ bad' = IF adjust = Invalid THEN bad \cup {i} ELSE bad
          /\ credit' = IF adjust > 0 THEN [credit EXCEPT ![i] = @ + adjust] ELSE credit

(* What a failure costs; an ant without retries quits. *)
ChargeMutant(t, n) ==
  /\ retry' = [retry EXCEPT ![t] = @ - n]
  /\ pc' = [pc EXCEPT ![t] = "again"]
Charge(t, n) ==
  /\ retry' = [retry EXCEPT ![t] = @ - n]
  /\ pc' = [pc EXCEPT ![t] = IF retry[t] < n THEN "off" ELSE "again"]

CheckFails(t) ==
  /\ pc[t] = "check"
  /\ ReportUrl(url[t], -10000) /\ Charge(t, 1)
  /\ UNCHANGED <<index, speeds, url, inc, count, checks, good, revived>>

(* ReportRedirect gives the entry the new URL, ... *)
MovedTo(e, u) == [e EXCEPT !.url = u, !.prior = @ + 100, !.moved = TRUE]

(* ... and redir the ant. *)
Redirected(t) ==
  /\ pc[t] = "check" /\ url[t] \in DOMAIN Moves
  /\ IF Matching(url[t]) = {} THEN UNCHANGED <<list, credit>>
     ELSE LET i == Min(Matching(url[t]))
          IN /\ list' = [list EXCEPT ![i] = MovedTo(@, Moves[url[t]])]
             /\ credit' = [credit EXCEPT ![i] = @ + 100]
  /\ url' = [url EXCEPT ![t] = Moves[@]]
  /\ UNCHANGED <<index, speeds, pc, retry, inc, count, checks, good, bad, revived>>

WrongLength(t) ==
  /\ pc[t] = "check" /\ url[t] \in Wrong
  /\ ReportUrl(url[t], Invalid) /\ Charge(t, 1)
  /\ UNCHANGED <<index, speeds, url, inc, count, checks, good, revived>>

CheckPassed(t) ==
  /\ pc[t] = "check" /\ url[t] \notin Wrong \cup DOMAIN Moves
  /\ ReportUrl(url[t], 500)
  /\ pc' = [pc EXCEPT ![t] = "go"]
  /\ good' = good \cup {index[t]}
  /\ UNCHANGED <<index, speeds, url, retry, inc, count, checks, revived>>

OtherProtocol(t) ==
  /\ pc[t] = "other"
  /\ ReportUrl(url[t], Invalid)
  /\ pc' = [pc EXCEPT ![t] = "off"]
  /\ UNCHANGED <<index, speeds, url, retry, inc, count, checks, good, revived>>

(* A session ends, well or not: over HTTP an ant that quits reports nothing. *)
SessionEnds(t) ==
  /\ pc[t] = "go" /\ pc' = [pc EXCEPT ![t] = "again"]
  /\ UNCHANGED <<list, index, speeds, url, retry, inc, count, told>>

SessionFails(t) ==
  /\ pc[t] = "go"
  /\ ReportUrl(url[t], -1000) \/ (retry[t] < 3 /\ UNCHANGED <<list, bad, credit>>)
  /\ Charge(t, 3)
  /\ UNCHANGED <<index, speeds, url, inc, count, checks, good, revived>>
-----------------------------------------------------------------------------
(* FileData, behind quit: m_UrlList[...].prior++ ... *)
Load(t) ==
  /\ pc[t] = "go" /\ inc = Idle /\ count.pieces < MaxPieces
  /\ inc' = [ant |-> t, prior |-> list[index[t]].prior, size |-> Len(list)]
  /\ pc' = [pc EXCEPT ![t] = "piece"]
  /\ count' = [count EXCEPT !.pieces = @ + 1]
  /\ UNCHANGED <<list, index, speeds, url, retry, told>>

(* ... and the swap: the ant that was named goes; else, after enough packs, *)
(* the slowest is named if there is a new URL or a twice as fast ant.      *)
NewSpeed(t) == [speed EXCEPT ![t] = @ + 1]
Slowest(sp) == LET moving == {t \in Ants : sp[t] > 0}
                   least == Min({sp[t] : t \in moving})
               IN Min({t \in moving : sp[t] = least})
HaveNew == \E i \in Entries : ~list[i].bused
ShouldSwap(sp) == HaveNew \/ Max(Range(sp)) >= 2 * sp[Slowest(sp)]

Compares == swap = None /\ sum + 1 > SwapAfter /\ Len(list) > 1
Goes(t) == IF Compares THEN ShouldSwap(NewSpeed(t)) /\ Slowest(NewSpeed(t)) = t
           ELSE swap = t /\ Len(list) > 1
Waits(t) == Compares /\ ~ShouldSwap(NewSpeed(t))

Store(t) ==
  /\ pc[t] = "piece"
  /\ \/ /\ list' = [list EXCEPT ![index[t]].prior = inc.prior + 1]
        /\ revived' = IF list[index[t]].prior # inc.prior
                      THEN revived \cup {index[t]} ELSE revived
        /\ credit' = [credit EXCEPT ![index[t]] = @ + 1]
     \/ inc.size < Len(list) /\ UNCHANGED <<list, revived, credit>>
  /\ inc' = Idle
  /\ IF Goes(t) \/ Waits(t)
     THEN speed' = Slow /\ sum' = 0 /\ swap' = None
     ELSE /\ speed' = NewSpeed(t) /\ sum' = sum + 1
          /\ swap' = IF Compares THEN Slowest(NewSpeed(t)) ELSE swap
  /\ pc' = [pc EXCEPT ![t] = IF Goes(t) THEN "again" ELSE "go"]
  /\ UNCHANGED <<index, url, retry, count, checks, good, bad>>

Next ==
  \/ \E u \in Mirrors : AddMirrorUrl(u)
  \/ \E t \in Ants :
       \/ GetTask(t) \/ NoMoreTask(t) \/ Down(t) \/ Up(t)
       \/ CheckFails(t) \/ Redirected(t) \/ WrongLength(t) \/ CheckPassed(t)
       \/ OtherProtocol(t) \/ SessionEnds(t) \/ SessionFails(t) \/ Load(t) \/ Store(t)

Spec == Init /\ [][Next]_vars
-----------------------------------------------------------------------------
(* The tables hold numbers of ants and of entries, and no mirror is lost. *)
TypeOK ==
  /\ \A i \in Entries : list[i].bused \in BOOLEAN /\ list[i].prior \in Int
  /\ \A t \in Ants : index[t] \in Entries /\ retry[t] \in -3 .. Retries
  /\ swap \in Ants \cup {None} /\ inc.ant \in Ants \cup {None}
  /\ sum <= MaxPieces

(* A mirror is checked once, by one ant, whoever reports, redirects or     *)
(* enters mirrors meanwhile; the main URL, checked by InitThread, never.   *)
CheckedOnce == checks[1] = 0 /\ \A i \in 1 .. Size : checks[i] <= 1

(* Two entries have the same URL only when one was redirected. *)
SameOnlyByRedirect ==
  \A i, j \in Entries :
    (i # j /\ list[i].url = list[j].url) => list[i].moved \/ list[j].moved

(* The entries are of their types, checked once, and told apart.           *)
UrlsRight == TypeOK /\ CheckedOnce /\ SameOnlyByRedirect

Given(t) == pc[t] = "again" /\ pc'[t] \in {"check", "go", "other"}

(* What may be left to an entry that was reported as invalid.              *)
Rest(i) == credit[i] - 100000

(* An entry reported as invalid is not handed out again before every other *)
(* entry was charged (500 for each use, 1000 and more for a failure) down  *)
(* to -100000 and what was ever credited to the invalid one; unless its    *)
(* report was lost: a piece from its URL was stored over it, or it had not *)
(* been used and its first use cleared it.                                 *)
InvalidShunned ==
  [][\A t \in Ants : Given(t) /\ index'[t] \in bad \ revived =>
       \A j \in Entries : list[j].prior <= Rest(index'[t])]_vars

(* mgfilemanager.cpp 1331: entered mirrors are told apart ("must filter    *)
(* out the same").                                                         *)
NoSameUrl == \A i, j \in Entries : i # j => list[i].url # list[j].url

(* mgfilemanager.cpp 1260 and 1266: an ant need not check a URL that was   *)
(* used before, as the first user checked it.                              *)
CheckedBeforeUse == \A t \in Ants : pc[t] \in {"go", "piece"} => index[t] \in good

(* proants.cpp 276: an invalid URL gets no more chance. *)
NoMoreChance ==
  [][\A t \in Ants : Given(t) /\ index'[t] \in bad => bad = Entries]_vars

(* mgfilemanager.cpp 704: speeds are compared and a slow ant is moved; this *)
(* stops while an ant is named that is gone.                               *)
SwapAlive == swap # None => pc[swap] # "off"
=============================================================================
