------------------------------- MODULE Session -------------------------------
(***************************************************************************)
(* The sessions of one ant with the outside: by FTP, by HTTP, or, below    *)
(* both, with a proxy.  The variable kind chooses one of the three         *)
(* specifications; the variables of the other two keep one value.          *)
(***************************************************************************)
EXTENDS GetData, Sequences

CONSTANTS
  RETRY, Budget, MaxAnts,              \* FtpSession, HttpSession
  Servers,                             \* FtpSession
  Urls, Main, FtpUrls, Replies, Stack, Ranges, \* HttpSession
  Proxies                              \* ProxySocket

VARIABLES
  kind,
  retry, budget, lost, size,                   \* FtpSession, HttpSession
  server, ctrl, wire, rest, resume,            \* FtpSession
  url, checking, buf, redirect, target, reply, tasklen, ants, \* HttpSession
  proxy, version, open, in, state, closed, eaten, trouble     \* ProxySocket

Ftp == INSTANCE FtpSession
Http == INSTANCE HttpSession
Proxy == INSTANCE ProxySocket

ASSUME SessionAssumption ==
  Ftp!FtpSessionAssumption /\ Http!HttpSessionAssumption
                           /\ Proxy!ProxySocketAssumption

shared == <<code, from, total, held, data, dpos, file, retry, budget, size>>
onlyFtp == <<lost, server, ctrl, wire, rest, resume>>
onlyHttp == <<url, checking, buf, redirect, target, reply, tasklen, ants>>
onlyProxy == <<proxy, version, open, in, state, closed, eaten, trouble>>
vars == <<kind, at, shared, onlyFtp, onlyHttp, onlyProxy>>

NoShared == /\ from = 0 /\ total = 0 /\ held = 0 /\ dpos = 0 /\ file = {}
            /\ code = 0 /\ data = "none" /\ retry = 0 /\ budget = 0 /\ size = -1
NoFtp == /\ lost = FALSE /\ server = "" /\ ctrl = FALSE /\ wire = << >>
         /\ rest = 0 /\ resume = FALSE
NoHttp == /\ url = "" /\ checking = "" /\ buf = << >> /\ redirect = FALSE
          /\ target = "" /\ reply = "" /\ tasklen = 0 /\ ants = 0
NoProxy == /\ proxy = "" /\ version = "" /\ open = FALSE /\ in = << >>
           /\ state = "" /\ closed = FALSE /\ eaten = {} /\ trouble = FALSE

Init ==
  \/ kind = "ftp" /\ Ftp!Init /\ NoHttp /\ NoProxy
  \/ kind = "http" /\ Http!Init /\ NoFtp /\ NoProxy
  \/ kind = "proxy" /\ Proxy!Init /\ NoShared /\ NoFtp /\ NoHttp

FtpStep == /\ kind = "ftp" /\ Ftp!Client
           /\ UNCHANGED <<kind, onlyHttp, onlyProxy>>
ListingSent == /\ kind = "ftp" /\ Ftp!ListingSent
               /\ UNCHANGED <<kind, onlyHttp, onlyProxy>>
HttpStep == /\ kind = "http" /\ Http!Thread
            /\ UNCHANGED <<kind, onlyFtp, onlyProxy>>
ProxyStep == /\ kind = "proxy" /\ Proxy!Client
             /\ UNCHANGED <<kind, shared, onlyFtp, onlyHttp>>
ServerSpeaks == /\ kind = "proxy" /\ Proxy!ServerSpeaks
                /\ UNCHANGED <<kind, shared, onlyFtp, onlyHttp>>
Ended == /\ \/ kind = "ftp" /\ Ftp!Quit
            \/ kind = "http" /\ Http!Stop
            \/ kind = "proxy" /\ Proxy!Connected
         /\ UNCHANGED vars

Next == FtpStep \/ ListingSent \/ HttpStep \/ ProxyStep \/ ServerSpeaks \/ Ended

Spec == Init /\ [][Next]_vars

Fairness == /\ WF_vars(FtpStep) /\ WF_vars(ListingSent)
            /\ WF_vars(HttpStep) /\ WF_vars(ProxyStep)
FairSpec == Spec /\ Fairness
-----------------------------------------------------------------------------
(* The types of the three specifications. *)
TypeOK == CASE kind = "ftp" -> Ftp!TypeOK [] kind = "http" -> Http!TypeOK
            [] kind = "proxy" -> Proxy!TypeOK

(* What CMgFtpInfo tells of a server is so, whatever the replies and their *)
(* order were: Ftp!InfoTrue.  CMgHttpInfo promises no such thing: it reads *)
(* on behind the header of a reply.                                        *)
InfoTrue == TypeOK /\ (kind = "ftp" => Ftp!InfoTrue)

(* A connection that Connect reports was granted by the proxy, and one     *)
(* that can be had is had: Proxy!YesIsGranted, Proxy!ConnectsWhenItCan.    *)
ConnectTrue == kind = "proxy" => Proxy!YesIsGranted /\ Proxy!ConnectsWhenItCan

(* A question for one URL, a session that fetches a piece and a talk with  *)
(* a proxy end, whatever the other side sends and however often            *)
(* connections break.  The whole check of a URL, redirects included, ends  *)
(* only if it is not redirected for ever: nothing limits that.             *)
Checking == \/ kind = "ftp" /\ at \in Ftp!InfoSteps
            \/ kind = "http" /\ at \in {"url", "head", "get"}
Fetching == \/ kind = "ftp" /\ at \in Ftp!GoSteps
            \/ kind = "http" /\ at \in {"connect", "data", "retry"}
Redirected == kind = "http" /\ at = "yes" /\ redirect
Settled == at \in {"ask", "connect", "end", "ftp"}
Talking == kind = "proxy" /\ at \notin {"yes", "no"}
SessionEnds == /\ Checking ~> ~Checking
               /\ []<>Redirected \/ (kind = "http" /\ Checking ~> Settled)
               /\ Fetching ~> ~Fetching
               /\ Talking ~> ~Talking
=============================================================================
