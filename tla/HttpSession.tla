---------------------------- MODULE HttpSession ----------------------------
(***************************************************************************)
(* CMgHttpInfo and CMgHttpAnts with their callers, InitThread of           *)
(* CMgSingleTask and WorkThread of CProAnts.                               *)
(*                                                                         *)
(* The init thread asks for the length of the file with HEAD, follows      *)
(* redirects, and fixes the length and the number of ants of the task; an  *)
(* ant checks a URL in the same way and fetches a piece with GET.  The     *)
(* servers (external) answer each request with one of a set of replies;    *)
(* connections fail at any time.                                           *)
(*                                                                         *)
(* A header is a sequence of lines, and the buffer it is received in       *)
(* another one: GetInfo reads lines with GetBufLine(buf + movepos,         *)
(* headpos), which looks headpos bytes on from where it is, so that what   *)
(* lies behind the header is read as well.  Only the line that the end of  *)
(* the header runs into is spoiled.  Behind the header lies what an        *)
(* earlier, longer reply left there, what was on the stack before (the     *)
(* buffer is not initialised), or, after a GET, the file itself.           *)
(***************************************************************************)
EXTENDS GetData, Sequences

CONSTANTS
  Urls, Main,    \* Main: the URL of the task
  FtpUrls,       \* those of them that start with ftp://
  Replies,       \* the replies to a HEAD or GET for a URL, by URL
  Stack,         \* what a buffer may hold that nothing was read into
  Ranges,        \* the URLs whose server honours Range
  RETRY, Budget, \* sessions per URL, and m_nRetry of an ant
  MaxAnts        \* threads the user wants

HeadLine == [key : {"length"}, value : Nat] \cup [key : {"location"}, value : Urls]
              \cup [key : {"status"}, value : 100 .. 599] \cup [key : {"other"}]
IsReply(r) == r.code \in {-1} \cup 100 .. 599 /\ r.head \in Seq(HeadLine)

HttpSessionAssumption ==
  /\ Main \in Urls /\ FtpUrls \subseteq Urls /\ Ranges \subseteq Urls
  /\ DOMAIN Replies = Urls
  /\ \A u \in Urls : \A r \in Replies[u] : IsReply(r)
  /\ Stack # {} /\ Stack \subseteq Seq(HeadLine)
  /\ RETRY \in Nat \ {0} /\ Budget \in Nat /\ MaxAnts \in Nat \ {0}

VARIABLES
  url,     \* m_sUrl of the init thread, then of the ant
  checking, \* GetInfo was called by "init", or by an "ant"
  retry,   \* m_nRetry of CMgHttpInfo or CMgHttpAnts
  buf,     \* the lines in the buffer behind the status line
  redirect, target, \* m_bRedirect, m_Redirection
  size,    \* m_nFileSize of GetInfo
  reply,   \* the last reply
  budget,  \* m_nRetry of the ant
  tasklen, ants \* m_nFileLen and m_nAnts of the task

info == <<buf, redirect, target, size, reply>>
piece == <<from, total, held, data, dpos, file>>
task == <<tasklen, ants>>
vars == <<at, url, checking, retry, code, info, budget, task, piece>>

None == -1
NoReply == [code |-> None, head |-> << >>]
-----------------------------------------------------------------------------
(* What a header says: the last line of a kind counts. *)

Items(lines, key) == {i \in 1 .. Len(lines) : lines[i].key = key}
LastItem(lines, key) ==
  lines[CHOOSE i \in Items(lines, key) : \A j \in Items(lines, key) : j <= i].value
Length(lines) ==
  IF Items(lines, "length") = {} THEN None ELSE LastItem(lines, "length")

(* The buffer after the header h was received in it: the line behind h is  *)
(* spoiled, what follows it is what was there.                             *)
Filled(old, h) ==
  h \o IF Len(old) > Len(h)
         THEN <<[key |-> "other"]>> \o SubSeq(old, Len(h) + 2, Len(old))
         ELSE << >>

(* A status line behind the header is taken for the one of the reply.      *)
Status(c, lines) ==
  IF Items(lines, "status") = {} THEN c ELSE LastItem(lines, "status")

(* What the header of a reply is received into, or followed by. *)
Under == IF at = "get" THEN {buf} \cup Stack ELSE {buf}

(* What a server may say to the request for u. *)
Answers(u) == Replies[u]

OK(c) == c \div 100 = 2
Moved(c) == c \div 100 = 3
Refused(c) == c >= 400 \/ c < 200
-----------------------------------------------------------------------------
Init ==
  /\ at = "url" /\ url = Main /\ checking = "init"
  /\ retry = 0 /\ code = 0
  /\ buf \in Stack /\ redirect = FALSE /\ target = Main /\ size = None
  /\ reply = NoReply
  /\ budget = Budget /\ tasklen = None /\ ants = MaxAnts
  /\ from = 0 /\ total = 0 /\ held = 0 /\ data = "none" /\ dpos = 0 /\ file = {}

(* A new CMgHttpInfo for url u with n sessions. *)
NewInfo(u, n) ==
  /\ url' = u /\ retry' = n /\ at' = "head"
  /\ buf' \in Stack /\ redirect' = FALSE /\ target' = u
  /\ size' = None /\ reply' = NoReply

(* The init thread parses its URL. *)
InitUrl ==
  /\ at = "url"
  /\ IF url \in FtpUrls THEN at' = "ftp" /\ UNCHANGED <<url, retry, info>>
                        ELSE NewInfo(url, RETRY)
  /\ UNCHANGED <<checking, code, budget, task, piece>>

(* --m_nRetry > 0 *)
SpentMutant(r) == r
Spent(r) == r - 1
More(r) == r > 0

(* Connect or Send failed. *)
NoConnection ==
  /\ at \in {"head", "get"}
  /\ retry' = Spent(retry)
  /\ at' = IF More(retry') THEN at ELSE "no"
  /\ UNCHANGED <<url, checking, code, info, budget, task, piece>>

(* The header does not arrive, or is longer than the buffer: no retry. *)
NoHeader ==
  /\ at \in {"head", "get"} /\ at' = "no"
  /\ UNCHANGED <<url, checking, retry, code, info, budget, task, piece>>

(* A reply was received, parsed and judged; GetInfoByGet has a buffer of   *)
(* its own.                                                                *)
Judged(c, b, again, moved) ==
  CASE c = None -> "no"
    [] c # None /\ Refused(c) -> IF again THEN at ELSE "no"
    [] OK(c) -> "yes"
    [] Moved(c) -> IF moved THEN "yes"
                        ELSE IF at = "head" /\ Length(b) = None THEN "get"
                        ELSE "no"

Replied ==
  /\ at \in {"head", "get"}
  /\ \E r \in Answers(url), old \in Under :
       LET b == Filled(old, r.head)
           c == Status(r.code, b)
           located == Items(b, "location") # {}
       IN /\ reply' = r
          /\ size' = Length(b)
          /\ redirect' = (redirect \/ located)
          /\ target' = IF located THEN LastItem(b, "location") ELSE target
          /\ retry' = IF c # None /\ Refused(c) THEN Spent(retry) ELSE retry
          /\ at' = Judged(c, b, More(retry'), redirect')
          /\ IF at' = "get" /\ at = "head" THEN buf' \in Stack ELSE buf' = b
  /\ UNCHANGED <<url, checking, code, budget, task, piece>>

(* InitThread: a redirect is followed, however often; without a length one *)
(* ant must do.  The ants are started.                                     *)
InitInformed ==
  /\ checking = "init" /\ at = "yes"
  /\ IF redirect
       THEN /\ at' = "url" /\ url' = target
            /\ UNCHANGED <<checking, task>>
       ELSE /\ at' = "ask" /\ checking' = "ant"
            /\ tasklen' = size
            /\ ants' = IF size = None THEN 1 ELSE ants
            /\ UNCHANGED url
  /\ UNCHANGED <<retry, code, info, budget, piece>>

InitFails ==
  /\ checking = "init" /\ at = "no"
  /\ at' = "end"
  /\ UNCHANGED <<url, checking, retry, code, info, budget, task, piece>>

(* WorkThread: GetTask gives a position and a URL, to be checked or not.   *)
Goes(u) ==
  /\ at' = "connect" /\ url' = u /\ retry' = RETRY /\ UNCHANGED info

GetTask ==
  /\ checking = "ant" /\ at = "ask"
  /\ from' \in 0 .. FileLen
  /\ total' = 0 /\ held' = 0 /\ code' = 0
  /\ \E u \in Urls \ FtpUrls : NewInfo(u, 1) \/ Goes(u)
  /\ UNCHANGED <<checking, budget, task, data, dpos, file>>

ChargeMutant(n) == budget' = budget - n /\ at' = "ask"
Charge(n) ==
  /\ budget' = budget - n
  /\ at' = IF budget' < 0 THEN "end" ELSE "ask"

(* The check of a URL by an ant; m_Protocol stays what it was. *)
Checked ==
  /\ checking = "ant" /\ at \in {"yes", "no"}
  /\ IF at = "no" \/ (~redirect /\ size # tasklen)
       THEN Charge(1) /\ UNCHANGED <<url, retry, info>>
       ELSE /\ UNCHANGED budget
            /\ IF redirect THEN NewInfo(target, 1) ELSE Goes(url)
  /\ UNCHANGED <<checking, code, task, piece>>

(* The server sends the file from its place or, as it may, from its start. *)
SendHttpGetRequest(pos) == dpos' = IF url \in Ranges THEN pos ELSE 0

(* Every 2xx will do. *)
GetHead == at' = "data" /\ data' = "sending"

(* Go: connect, send GET with Range, read the header. *)
Asked ==
  /\ at = "connect"
  /\ UNCHANGED <<url, checking, retry, info, budget, task, from, total, held, file>>
  /\ \/ at' = "retry" /\ code' \in {-1, -2} /\ UNCHANGED <<data, dpos>>
     \/ /\ SendHttpGetRequest(ResumeAt) /\ GetHead
        /\ UNCHANGED code

Retry ==
  /\ at = "retry"
  /\ retry' = Spent(retry)
  /\ at' = IF More(retry') THEN "connect" ELSE "went"
  /\ UNCHANGED <<url, checking, code, info, budget, task, piece>>

Went ==
  /\ at = "went"
  /\ IF code < 0 /\ code # -3 THEN Charge(3) ELSE at' = "ask" /\ UNCHANGED budget
  /\ UNCHANGED <<url, checking, retry, code, info, task, piece>>

Transfer ==
  /\ Receive \/ DataEnds \/ DataLost
  /\ UNCHANGED <<url, checking, retry, info, budget, task, from>>

Stop == at \in {"end", "ftp"} /\ UNCHANGED vars

Thread == \/ InitUrl \/ NoConnection \/ NoHeader \/ Replied \/ InitInformed
          \/ InitFails \/ GetTask \/ Checked \/ Asked \/ Retry \/ Went \/ Transfer
Next == Thread \/ Stop

Spec == Init /\ [][Next]_vars
FairSpec == Spec /\ WF_vars(Thread)
-----------------------------------------------------------------------------
Places == {"url", "head", "get", "yes", "no", "ask", "connect", "data", "retry",
           "went", "end", "ftp"}
TypeOK ==
  /\ at \in Places /\ url \in Urls /\ checking \in {"init", "ant"}
  /\ retry \in 0 .. RETRY /\ code \in -3 .. 1
  /\ \A i \in 1 .. Len(buf) : buf[i].key \in {"length", "location", "status", "other"}
  /\ redirect \in BOOLEAN /\ target \in Urls
  /\ size \in Nat \cup {None} /\ tasklen \in Nat \cup {None}
  /\ budget \in -3 .. Budget /\ ants \in 1 .. MaxAnts
  /\ from \in 0 .. FileLen /\ total \in Nat /\ held \in 0 .. Full - 1
  /\ data \in {"none", "sending"} /\ dpos \in 0 .. FileLen

(* The init thread and every check of a URL end, whatever is refused,      *)
(* unless they are redirected again and again: nothing limits that.        *)
InfoEnds ==
  \/ []<>(at = "yes" /\ redirect)
  \/ (at \in {"url", "head", "get"}) ~> (at \in {"ask", "connect", "end", "ftp"})
SessionEnds == (at \in {"connect", "data", "retry"}) ~> (at \in {"ask", "end"})

(* "returns -1 when no line ends in the buffer": GetInfo tells what its    *)
(* reply said.  Refuted: lines behind the header are read as well, those   *)
(* of a reply that was refused before among them, and m_bRedirect stays set. *)
ReplyTrue ==
  at = "yes" => /\ size = Length(reply.head)
                /\ redirect => Items(reply.head, "location") # {}

(* m_bResume "default is true for http": the bytes come from the place     *)
(* that was asked for.  Refuted by a server that ignores Range and says    *)
(* 200, which GetHead takes for as good as 206.                            *)
RangeHonoured == BytesInPlace

(* A byte is written at a wrong place only while the server of the URL     *)
(* ignores Range.                                                          *)
InPlaceByRange == [][\A b \in file' \ file : url \in Ranges => b[1] = b[2]]_vars

(* A URL is asked for by its own protocol.  Refuted: a mirror that         *)
(* redirects to ftp:// is asked by HTTP.                                   *)
OwnProtocol == at \in {"head", "get", "connect"} => url \notin FtpUrls
=============================================================================
