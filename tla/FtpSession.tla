----------------------------- MODULE FtpSession -----------------------------
(***************************************************************************)
(* CMgFtpBase, CMgFtpInfo and CMgFtpAnts: an ant fetches a piece by FTP.   *)
(*                                                                         *)
(* GetInfo asks the server for the length of the file and for REST; Go     *)
(* fetches the file from m_nFrom on.  WorkThread calls them in turn and    *)
(* charges their failures to the ant.  Both send one command at a time on  *)
(* the control connection and read its reply with GetRetCode, which reads  *)
(* whatever has arrived into a local buffer, takes the lines up to the     *)
(* first one without '-' after its number, and forgets the rest.           *)
(*                                                                         *)
(* The server (external) answers every command at once, except that the    *)
(* end of a transfer (226) follows its beginning (150) later.  A timeout   *)
(* or an error of the network may take the place of every answer; Read     *)
(* then closes the connection.                                             *)
(***************************************************************************)
EXTENDS GetData, Sequences

CONSTANTS
  RETRY,   \* sessions Go tries (3 in the code)
  Budget,  \* m_nRetry of a new ant
  Servers  \* kinds of servers

FtpSessionAssumption ==
  /\ RETRY \in Nat \ {0} /\ Budget \in Nat
  /\ Servers # {}
  /\ Servers \subseteq
       [chatty : BOOLEAN, \* greets with more than one line
        pass : BOOLEAN,   \* asks for a password
        type : BOOLEAN,   \* accepts TYPE
        rest : BOOLEAN,   \* accepts REST
        size : BOOLEAN,   \* accepts SIZE
        list : BOOLEAN,   \* lists in columns that GetLenFromBuf understands
        start : {125, 150}, \* how it announces a transfer ...
        bare : {150, 425}]  \* ... and one without a data connection

VARIABLES
  server,
  budget,  \* m_nRetry of the ant
  retry,   \* m_nRetry of the session
  ctrl,    \* the control connection is open
  wire,    \* lines of the server that were not read yet
  rest,    \* the restart marker of the server
  size, resume, \* m_nFileSize and m_bResume of GetInfo
  lost     \* a connection of this session was lost or refused

(* at is also the command whose reply is awaited. *)
ant == <<budget, from>>
session == <<retry, code, lost>>
control == <<ctrl, wire, rest>>
channel == <<data, dpos, held, total, file>>
found == <<size, resume>>
vars == <<server, ant, at, session, control, channel, found>>

None == -1

InfoSteps == {"iconnect", "igreet", "iuser", "ipass", "itype", "irest", "stype",
              "size", "ltype", "lpasv", "lconn", "list", "ldata", "lend",
              "type2", "probe", "iretry"}
GoSteps == {"connect", "greet", "user", "pass", "pasv", "dconn", "type",
            "rest", "retr", "data", "quit", "retry"}
Unasked == {"iconnect", "connect", "lconn", "dconn", "ldata", "data", "iretry",
            "retry"}
Asked == (InfoSteps \cup GoSteps) \ Unasked \* a reply is awaited there
-----------------------------------------------------------------------------
(* The server. *)

Line(c, more) == [code |-> c, more |-> more]
Greeting(c) == (IF server.chatty THEN <<Line(c, TRUE)>> ELSE << >>)
                 \o <<Line(c, FALSE)>>
One(c) == <<Line(c, FALSE)>>

Lines(cmd, d) ==
  CASE cmd \in {"igreet", "greet"} -> Greeting(220)
    [] cmd \in {"iuser", "user"} ->
         IF server.pass THEN One(331) ELSE Greeting(230)
    [] cmd \in {"ipass", "pass"} -> Greeting(230)
    [] cmd \in {"itype", "type", "stype", "ltype", "type2"} ->
         One(IF server.type THEN 200 ELSE 504)
    [] cmd \in {"irest", "rest"} -> One(IF server.rest THEN 350 ELSE 502)
    [] cmd = "size" -> One(IF server.size THEN 213 ELSE 500)
    [] cmd \in {"lpasv", "pasv"} -> One(227)
    [] cmd \in {"list", "retr"} -> One(IF d = "open" THEN server.start ELSE 425)
    [] cmd = "probe" -> One(server.bare)
    [] cmd = "quit" -> One(221)
    [] OTHER -> << >>

(* The listing has been sent. *)
ListingSent ==
  /\ data = "list" /\ ctrl
  /\ data' = "listed"
  /\ wire' = Append(wire, Line(226, FALSE))
  /\ UNCHANGED <<server, ant, at, session, ctrl, rest, dpos, held, total, file,
                 found>>
-----------------------------------------------------------------------------
(* The two dialogues. *)

Reply(cmd) ==
  CASE cmd \in {"igreet", "greet"} -> {220}
    [] cmd \in {"iuser", "user"} -> {230, 331} \* all below 500
    [] cmd \in {"ipass", "pass"} -> {230}
    [] cmd \in {"itype", "type", "stype", "ltype", "type2"} -> {200}
    [] cmd \in {"irest", "rest"} -> {350}
    [] cmd = "size" -> {213}
    [] cmd \in {"lpasv", "pasv"} -> {227}
    [] cmd \in {"list", "retr", "probe"} -> {150}
    [] cmd = "lend" -> {226}
    [] cmd = "quit" -> {}

(* What follows a step that succeeded; "yes" is the end of GetInfo. *)
Then(cmd) ==
  CASE cmd = "igreet" -> "iuser"
    [] cmd = "iuser" -> "ipass"  [] cmd = "ipass" -> "itype"
    [] cmd = "itype" -> "irest"  [] cmd = "irest" -> "stype"
    [] cmd = "stype" -> "size"   [] cmd = "size" -> "yes"
    [] cmd = "ltype" -> "lpasv"  [] cmd = "lpasv" -> "lconn"
    [] cmd = "lconn" -> "list"   [] cmd = "list" -> "ldata"
    [] cmd = "ldata" -> "lend"   [] cmd = "lend" -> "yes"
    [] cmd = "type2" -> "probe"  [] cmd = "probe" -> "yes"
    [] cmd = "greet" -> "user"   [] cmd = "user" -> "pass"
    [] cmd = "pass" -> "pasv"    [] cmd = "pasv" -> "dconn"
    [] cmd = "dconn" -> "type"   [] cmd = "type" -> "rest"
    [] cmd = "rest" -> "retr"    [] cmd = "retr" -> "data"

(* ... and one that failed.  The trials of GetInfo are ever simpler; a     *)
(* session of Go says good-bye, unless it did not get in, and is retried.  *)
Else(cmd) ==
  CASE cmd \in {"iconnect", "igreet", "iuser", "ipass"} -> "iretry"
    [] cmd = "itype" -> "irest"  [] cmd = "irest" -> "stype"
    [] cmd \in {"stype", "size"} -> "ltype"
    [] cmd \in {"ltype", "lpasv", "lconn", "list", "ldata", "lend"} -> "type2"
    [] cmd \in {"type2", "probe"} -> "no"
    [] cmd \in {"connect", "greet", "user", "pass"} -> "retry"
    [] cmd = "rest" -> IF ResumeAt = 0 THEN "retr" ELSE "quit"
    [] cmd \in {"pasv", "dconn", "type", "retr"} -> "quit"
    [] cmd = "quit" -> "retry"

(* The result of Go when this was its last session. *)
Result(cmd) ==
  CASE cmd \in {"connect", "greet"} -> -1
    [] cmd \in {"user", "pass"} -> -2
    [] cmd = "pasv" -> -5  [] cmd = "dconn" -> -6
    [] cmd = "type" -> -3  [] cmd = "rest" -> -4
    [] cmd = "retr" -> -7
    [] OTHER -> code
-----------------------------------------------------------------------------
Init ==
  /\ server \in Servers
  /\ budget = Budget /\ from = 0
  /\ at = "task" /\ retry = 0 /\ code = 0 /\ lost = FALSE
  /\ ctrl = FALSE /\ wire = << >> /\ rest = 0
  /\ data = "none" /\ dpos = 0 /\ held = 0 /\ total = 0 /\ file = {}
  /\ size = None /\ resume = FALSE

Hangup == ctrl' = FALSE /\ wire' = << >>

(* GetTask: a place to start from; the URL may have to be checked first,   *)
(* with as many sessions as the caller of GetInfo asks for.                *)
GetTask ==
  /\ at = "task"
  /\ from' \in 0 .. FileLen
  /\ total' = 0 /\ held' = 0 /\ code' = 0 /\ lost' = FALSE
  /\ \/ at' = "connect" /\ retry' = RETRY
     \/ at' = "iconnect" /\ retry' \in 1 .. RETRY
  /\ size' = None /\ resume' = FALSE
  /\ UNCHANGED <<server, budget, control, data, dpos, file>>

(* MakeCtrlConn; Connect closes the old connection first. *)
Connect ==
  /\ at \in {"iconnect", "connect"}
  /\ data' = "none" /\ rest' = 0
  /\ \/ /\ at' = IF at = "connect" THEN "greet" ELSE "igreet"
        /\ ctrl' = TRUE /\ wire' = Lines(at', "none")
        /\ UNCHANGED <<code, lost>>
     \/ /\ at' = Else(at) /\ code' = Result(at) /\ lost' = TRUE
        /\ Hangup
  /\ UNCHANGED <<server, ant, retry, dpos, held, total, file, found>>

(* The step cmd ended with next; the command of next is sent, and starts   *)
(* its transfer at the server, when w is what is left of the replies.      *)
Send(next, w, d) ==
  LET out == IF ctrl THEN Lines(next, d) ELSE << >>
      begun == out # << >> /\ out[1].code \in {125, 150}
  IN /\ at' = next
     /\ wire' = w \o out
     /\ data' = IF next = "list" /\ begun THEN "list"
                ELSE IF next = "retr" /\ begun THEN "sending" ELSE d
     /\ dpos' = IF next = "retr" /\ begun THEN rest ELSE dpos
     /\ rest' = IF next = "rest" /\ out = One(350) THEN ResumeAt ELSE rest

(* The place of the line that answers cmd. *)
Finals(w) == {i \in 1 .. Len(w) : ~w[i].more}
FirstFinal(w) == CHOOSE i \in Finals(w) : \A j \in Finals(w) : i <= j

(* GetLenFromBuf. *)
ParsedMutant(cmd) == TRUE
Parsed(cmd) == cmd = "lend" => server.list

(* SizeFile and ListFile. *)
SizeFound(ok) == IF ok /\ at \in {"size", "lend"} THEN FileLen ELSE size

(* Login sends no password when the server wants none. *)
NoPass(c) == c = 230 /\ at \in {"iuser", "user"}

(* GetRetCode; the lines that came with the answer are forgotten. *)
Answered ==
  /\ at \in Asked /\ Finals(wire) # {}
  /\ LET k == FirstFinal(wire)
         c == wire[k].code
         ok == c \in Reply(at) /\ Parsed(at)
         next == IF ~ok THEN Else(at)
                 ELSE IF NoPass(c) THEN Then(Then(at)) ELSE Then(at)
     IN /\ \E more \in 0 .. Len(wire) - k :
              Send(next, SubSeq(wire, k + more + 1, Len(wire)), data)
        /\ code' = IF ok \/ at \in InfoSteps THEN code ELSE Result(at)
        /\ size' = SizeFound(ok)
        /\ resume' = IF at = "irest" THEN ok ELSE resume
  /\ UNCHANGED <<server, ant, retry, ctrl, lost, held, total, file>>

(* A timeout, a reset, or a command that could not be sent: Read and Send  *)
(* close the connection, and the step failed.                              *)
Silent == ~ctrl \/ (Finals(wire) = {} /\ data # "list")
Unanswered ==
  /\ at \in Asked
  /\ lost' \in {lost, TRUE} /\ (lost' \/ Silent)
  /\ Hangup
  /\ at' = Else(at)
  /\ code' = IF at \in InfoSteps THEN code ELSE Result(at)
  /\ resume' = (at # "irest" /\ resume)
  /\ UNCHANGED <<server, ant, retry, rest, channel, size>>

(* The data connection to the address of the reply to PASV. *)
DataConnect ==
  /\ at \in {"lconn", "dconn"}
  /\ UNCHANGED ctrl
  /\ \/ Send(Then(at), wire, "open") /\ UNCHANGED <<code, lost>>
     \/ /\ Send(Else(at), wire, "none")
        /\ code' = Result(at) /\ lost' = TRUE
  /\ UNCHANGED <<server, ant, retry, held, total, file, found>>

(* ListFile reads the listing; when it cannot, it leaves the end of the    *)
(* transfer (226) unread.                                                  *)
ReadListing ==
  /\ at = "ldata"
  /\ UNCHANGED ctrl
  /\ \/ Send("lend", wire, data) /\ UNCHANGED lost
     \/ Send("type2", wire, data) /\ lost' = TRUE
  /\ UNCHANGED <<server, ant, retry, code, held, total, file, found>>

(* CMgFtpInfo::Retry and CMgFtpAnts::Retry. *)
RetryMutant ==
  /\ at \in {"iretry", "retry"}
  /\ retry' = retry
  /\ at' = IF retry' > 0 THEN IF at = "retry" THEN "connect" ELSE "iconnect"
           ELSE IF at = "retry" THEN "went" ELSE "no"
  /\ UNCHANGED <<server, ant, code, lost, control, channel, found>>
Retry ==
  /\ at \in {"iretry", "retry"}
  /\ retry' = retry - 1
  /\ at' = IF retry' > 0 THEN IF at = "retry" THEN "connect" ELSE "iconnect"
           ELSE IF at = "retry" THEN "went" ELSE "no"
  /\ UNCHANGED <<server, ant, code, lost, control, channel, found>>

(* WorkThread after GetInfo: the length must be the one of the task. *)
ChargeMutant(n) ==
  budget' = budget - n /\ at' = "task" /\ UNCHANGED retry
Charge(n) ==
  /\ budget' = budget - n
  /\ at' = IF budget' < 0 THEN "end" ELSE "task"
  /\ UNCHANGED retry

Checked ==
  /\ at \in {"yes", "no"}
  /\ Hangup
  /\ IF at = "yes" /\ size = FileLen
       THEN at' = "connect" /\ retry' = RETRY /\ lost' = FALSE /\ UNCHANGED budget
       ELSE Charge(1) /\ UNCHANGED lost
  /\ UNCHANGED <<server, from, code, rest, channel, found>>

(* ... and after Go. *)
Went ==
  /\ at = "went"
  /\ Hangup
  /\ IF code < 0 /\ code # -3 THEN Charge(3)
       ELSE at' = "task" /\ UNCHANGED <<budget, retry>>
  /\ UNCHANGED <<server, from, code, lost, rest, channel, found>>
-----------------------------------------------------------------------------
(* GetData on the data connection. *)
Transfer ==
  /\ Receive \/ DataEnds \/ DataLost
  /\ UNCHANGED <<server, ant, retry, lost, control, found>>

Quit == at = "end" /\ UNCHANGED vars

Client == \/ GetTask \/ Connect \/ Answered \/ Unanswered \/ DataConnect
          \/ ReadListing \/ Retry \/ Checked \/ Went \/ Transfer
Next == Client \/ ListingSent \/ Quit

Spec == Init /\ [][Next]_vars
FairSpec == Spec /\ WF_vars(Client) /\ WF_vars(ListingSent)
-----------------------------------------------------------------------------
TypeOK ==
  /\ server \in Servers /\ budget \in -3 .. Budget /\ from \in 0 .. FileLen
  /\ at \in InfoSteps \cup GoSteps \cup {"task", "yes", "no", "went", "end"}
  /\ retry \in 0 .. RETRY /\ code \in -7 .. 1 /\ lost \in BOOLEAN
  /\ ctrl \in BOOLEAN
  /\ \A i \in 1 .. Len(wire) : wire[i] \in [code : 125 .. 550, more : BOOLEAN]
  /\ rest \in 0 .. FileLen
  /\ data \in {"none", "open", "list", "listed", "sending"}
  /\ dpos \in 0 .. FileLen /\ held \in 0 .. Full - 1 /\ total \in 0 .. FileLen
  /\ size \in {None, FileLen} /\ resume \in BOOLEAN

(* What GetInfo tells is so, whatever the replies and their order were:    *)
(* the task is started with as many ants as the server can serve.          *)
InfoTrue ==
  at = "yes" => /\ resume => server.rest
                /\ server.rest /\ ~lost => resume
                /\ size # None => server.size \/ server.list

(* GetInfo and Go end, whatever the server sends and however often the     *)
(* connection breaks: the timeouts and the number of sessions see to it.   *)
SessionEnds == (at \in InfoSteps \cup GoSteps) ~> (at \in {"task", "end"})

(* "<0: something wrong, task fail": a session that gave up costs the ant  *)
(* retries.  Refuted: Go returns -3 for a refused TYPE, which WorkThread   *)
(* takes for a change of URL.                                              *)
FailureCosts ==
  [][at = "retry" /\ at' = "went" => code # -3]_vars

(* A file that exists is found when no connection was lost.  Refuted: the  *)
(* reply 226 that arrives together with 150 is forgotten.                  *)
Found == at = "no" => lost
=============================================================================
