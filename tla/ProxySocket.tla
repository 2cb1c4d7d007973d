---------------------------- MODULE ProxySocket ----------------------------
(***************************************************************************)
(* CMgSocket and CMgProxySocket: a connection through a SOCKS proxy.       *)
(*                                                                         *)
(* Connect reaches the proxy and asks it for the server, by the version    *)
(* that is set, or by one version after the other on the same connection   *)
(* (AUTOVERSION).  Each answer is taken with one Read, which returns what  *)
(* has arrived: a part of the answer, the answer, or the answer with the   *)
(* first bytes of the server behind it.  Every answer is modelled by two   *)
(* bytes.  The proxy (external) closes after what it rejects and what it   *)
(* does not understand, as the text of the protocol in the source says.    *)
(***************************************************************************)
EXTENDS Integers, Sequences

CONSTANT Proxies \* kinds of proxies

ProxySocketAssumption ==
  Proxies \subseteq
    [v5 : {"none", "open", "login", "other"}, \* the method it wants, if any
     v4a : BOOLEAN, v4 : BOOLEAN,             \* the versions it speaks
     knows : BOOLEAN,     \* the user and password are good
     reaches : BOOLEAN,   \* it can reach the server
     speaks : BOOLEAN]    \* the server speaks first, as FTP servers do

Versions == {"AUTOVERSION", "V5", "V4A", "V4"}

VARIABLES
  proxy,   \* the kind of the proxy
  version, \* m_ProxyVersion
  at,      \* the answer awaited, or another place of Connect
  open,    \* m_bConnected
  in,      \* bytes of the proxy that were not read: <<answer, byte>>
  state,   \* what the proxy waits for; "relay" when it granted
  closed,  \* the proxy has closed
  eaten,   \* the bytes of the server that Connect took for its own
  trouble  \* the network failed, or cut an answer in two

vars == <<proxy, version, at, open, in, state, closed, eaten, trouble>>
-----------------------------------------------------------------------------
(* The proxy: its answer to a request, the state it enters, and whether it *)
(* closes.                                                                 *)

Says(answer, next) == [answer |-> <<answer>>, state |-> next, closed |-> FALSE]
Rejects(answer) == [answer |-> <<answer>>, state |-> "none", closed |-> TRUE]
Drops == [answer |-> << >>, state |-> "none", closed |-> TRUE]

Grant(request) ==
  IF proxy.reaches THEN Says(<<request, "ok">>, "relay")
                   ELSE Rejects(<<request, "fail">>)

Respond(request) ==
  CASE request = "hello" /\ state = "fresh" /\ proxy.v5 = "open" ->
         Says(<<"hello", "open">>, "request")
    [] request = "hello" /\ state = "fresh" /\ proxy.v5 = "login" ->
         Says(<<"hello", "login">>, "login")
    [] request = "hello" /\ state = "fresh" /\ proxy.v5 = "other" ->
         Rejects(<<"hello", "none">>)
    [] request = "login" /\ state = "login" ->
         IF proxy.knows THEN Says(<<"login", "ok">>, "request")
                        ELSE Rejects(<<"login", "fail">>)
    [] request = "connect5" /\ state = "request" -> Grant("connect5")
    [] request = "connect4a" /\ state = "fresh" /\ proxy.v4a -> Grant("connect4")
    [] request = "connect4a" /\ state = "fresh" /\ proxy.v4 /\ ~proxy.v4a ->
         Rejects(<<"connect4", "fail">>) \* 0.0.0.1 is no address
    [] request = "connect4" /\ state = "fresh" /\ (proxy.v4 \/ proxy.v4a) ->
         Grant("connect4")
    [] OTHER -> Drops

Bytes(answers) ==
  IF answers = << >> THEN << >> ELSE <<<<answers[1], 1>>, <<answers[1], 2>>>>

(* The server begins to talk through the proxy. *)
ServerSpeaks ==
  /\ state = "relay" /\ proxy.speaks /\ open
  /\ \A i \in 1 .. Len(in) : in[i][1] # <<"server", "ok">>
  /\ eaten = {}
  /\ in' = in \o Bytes(<<<<"server", "ok">>>>)
  /\ UNCHANGED <<proxy, version, at, open, state, closed, eaten, trouble>>
-----------------------------------------------------------------------------
Init ==
  /\ proxy \in Proxies /\ version \in Versions
  /\ at = "start" /\ open = FALSE /\ in = << >>
  /\ state = "fresh" /\ closed = FALSE /\ eaten = {} /\ trouble = FALSE

Unanswered == {"hello", "login", "connect5", "connect4a", "connect4"}

(* A request is sent, and rest is what was not read; a proxy that has      *)
(* closed answers nothing.                                                 *)
Send(request, rest) ==
  LET r == IF closed THEN Drops ELSE Respond(request)
  IN /\ at' = request
     /\ in' = rest \o Bytes(r.answer)
     /\ state' = r.state /\ closed' = r.closed

Return(result, rest) ==
  at' = result /\ in' = rest /\ UNCHANGED <<state, closed>>

(* Connect: the proxy is reached, and the first request goes out ... *)
Reach ==
  /\ at = "start" /\ open' = TRUE
  /\ Send(CASE version \in {"AUTOVERSION", "V5"} -> "hello"
            [] version = "V4A" -> "connect4a"
            [] version = "V4" -> "connect4", << >>)
  /\ UNCHANGED <<proxy, version, eaten, trouble>>

(* ... or tConnect fails or times out, or the name does not resolve. *)
Unreachable ==
  /\ at = "start" /\ trouble' = TRUE
  /\ Return("no", << >>)
  /\ UNCHANGED <<proxy, version, open, eaten>>

(* The answer that a Read of n bytes brought: DoV5Login and the DoV4       *)
(* methods want it alone, DoV5Connect takes more.                          *)
Whole(n) == n = 2 \/ (at = "connect5" /\ n > 2)
ExpectedMutant == at
Expected == IF at = "connect4a" THEN "connect4" ELSE at
Good == {"ok", "open", "login"}

AcceptsMutant(n) == Whole(n) /\ in[1][1][1] = Expected
Accepts(n) ==
  Whole(n) /\ in[1][2] = 1 /\ in[1][1][1] = Expected /\ in[1][1][2] \in Good

(* What follows a good answer, and a failed attempt. *)
Then(a) == CASE a[2] = "open" -> "connect5" [] a[2] = "login" -> "login"
             [] a[1] = "login" -> "connect5" [] OTHER -> "yes"

Else ==
  IF version # "AUTOVERSION" THEN "no"
  ELSE CASE at \in {"hello", "login"} -> "connect4a"
         [] at = "connect4a" -> "connect4"
         [] OTHER -> "no"

LeftMutant(n) == in
Left(n) == SubSeq(in, n + 1, Len(in))

OfServer(b) == b[1][1] = "server"

Answered ==
  /\ at \in Unanswered /\ open
  /\ \E n \in 1 .. Len(in) :
       LET next == IF Accepts(n) THEN Then(in[1][1]) ELSE Else
           rest == Left(n)
       IN /\ IF next \in {"yes", "no"} THEN Return(next, rest) ELSE Send(next, rest)
          /\ eaten' = eaten \cup {b \in {in[i] : i \in 1 .. n} : OfServer(b)}
          /\ trouble' = (trouble \/ n < 2)
  /\ UNCHANGED <<proxy, version, open>>

(* Read returns nothing: the proxy has closed, does not answer in time, or *)
(* the network fails.  Read closes, so that every further Send fails.      *)
BrokenMutant ==
  /\ at \in Unanswered /\ open' = FALSE
  /\ Return("start", << >>)
  /\ UNCHANGED <<proxy, version, eaten, trouble>>
Broken ==
  /\ at \in Unanswered
  /\ trouble' \in {trouble, TRUE} /\ (trouble' \/ in = << >>)
  /\ open' = FALSE
  /\ Return("no", << >>)
  /\ UNCHANGED <<proxy, version, eaten>>

Client == Reach \/ Unreachable \/ Answered \/ Broken
Connected == at \in {"yes", "no"} /\ UNCHANGED vars
Next == Client \/ ServerSpeaks \/ Connected

Spec == Init /\ [][Next]_vars
FairSpec == Spec /\ WF_vars(Client)
-----------------------------------------------------------------------------
TypeOK ==
  /\ proxy \in Proxies /\ version \in Versions
  /\ at \in Unanswered \cup {"start", "yes", "no"}
  /\ open \in BOOLEAN /\ closed \in BOOLEAN /\ trouble \in BOOLEAN
  /\ state \in {"fresh", "login", "request", "relay", "none"}
  /\ (\A b \in eaten : OfServer(b)) /\ Len(in) <= 4

(* A connection that Connect reports leads to the server: no left-over or  *)
(* partial answer of an earlier attempt is taken for a grant.              *)
YesIsGranted == at = "yes" => state = "relay" /\ open

(* Without trouble, a proxy of the version that is set, or of version 5    *)
(* when none is, gives a connection to a server that does not speak first. *)
Speaks(v) ==
  CASE v = "V5" -> proxy.v5 = "open" \/ (proxy.v5 = "login" /\ proxy.knows)
    [] v = "V4A" -> proxy.v4a [] v = "V4" -> proxy.v4 \/ proxy.v4a
    [] v = "AUTOVERSION" -> proxy.v5 = "open" \/ (proxy.v5 = "login" /\ proxy.knows)
ConnectsWhenItCan ==
  at = "no" /\ ~trouble /\ proxy.reaches /\ ~proxy.speaks => ~Speaks(version)

(* Connect returns, whatever the proxy says.  Every attempt is made once.  *)
Returns == <>(at \in {"yes", "no"})

(* AUTOVERSION finds a version that the proxy speaks.  Refuted: the other  *)
(* versions are tried on the connection the proxy has closed, as it does   *)
(* after a failed request.                                                 *)
AutoFinds ==
  at = "no" /\ version = "AUTOVERSION" /\ ~trouble /\ proxy.reaches /\ ~proxy.speaks
    => ~(proxy.v4 \/ proxy.v4a)

(* "as if it were directly connected to the application server": what the  *)
(* server says is left to be read.  Refuted: a greeting that arrives with  *)
(* the answer of a version 5 proxy is taken with it.                       *)
NothingEaten == at = "yes" => eaten = {}
=============================================================================
