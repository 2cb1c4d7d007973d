---------------------------- MODULE SessionProofs ----------------------------
(***************************************************************************)
(* The sessions of an ant, for every file, every set of servers, every     *)
(* number of sessions and every order of replies and failures.             *)
(*                                                                         *)
(* Both protocols fetch with GetData: bytes are written at their place if  *)
(* the server sends from the place of the buffer on (InStep), and only     *)
(* bytes that were written are counted.  By FTP, InStep rests on the       *)
(* restart marker: it is 0 until REST, and afterwards ResumeAt, or refused,*)
(* which needs the replies to answer the commands in turn (InTurn).  That  *)
(* holds everywhere but in the listing of GetInfo, whose 226 may be left   *)
(* unread.  By HTTP, InStep holds where the server honours Range.          *)
(* The bounds of the types are kept apart from the two invariants          *)
(* (FtpBounds, HttpBounds).  With a proxy, what the client may read next   *)
(* and where the proxy stands go together (ProxyInv): until the proxy has  *)
(* granted, no byte of the server arrives.                                 *)
(***************************************************************************)
EXTENDS Session, SequenceTheorems, WellFoundedInduction, TLAPS
-----------------------------------------------------------------------------
(* A set of places has a first one.                                        *)
LEMMA LeastOf ==
  ASSUME NEW S, S \subseteq Nat, S # {}
  PROVE  \E i \in S : \A j \in S : i <= j
<1> DEFINE R == OpToRel(<, Nat)
<1>1. \A i, j \in Nat : j < i => <<j, i>> \in R
  BY DEF OpToRel
<1>2. IsWellFoundedOn(R, Nat)
  BY NatLessThanWellFounded
<1> HIDE DEF R
<1>3. PICK i \in S : \A j \in S : ~(<<j, i>> \in R)
  BY <1>2, WFMin
<1>4. \A j \in S : ~(j < i) /\ i \in Nat /\ j \in Nat
  BY <1>1, <1>3
<1>5. \A j \in S : i <= j
  BY <1>4
<1> QED
  BY <1>3, <1>5

(* A set of places of a sequence has a last one.                           *)
LEMMA LastOf ==
  ASSUME NEW S, NEW n \in Nat, S \subseteq 1 .. n, S # {}
  PROVE  \E i \in S : \A j \in S : j <= i
<1> DEFINE T == {n - i : i \in S}
<1>1. T \subseteq Nat /\ T # {}
  <2>1. ASSUME NEW i \in S PROVE n - i \in Nat
    <3>1. i \in 1 .. n
      OBVIOUS
    <3> QED
      BY <3>1
  <2> QED
    BY <2>1
<1> HIDE DEF T
<1>2. PICK k \in T : \A j \in T : k <= j
  BY <1>1, LeastOf
<1>3. PICK i \in S : k = n - i
  BY <1>2 DEF T
<1>4. ASSUME NEW j \in S PROVE j <= i
  <2>1. n - j \in T
    BY DEF T
  <2>2. k <= n - j /\ i \in Nat /\ j \in Nat
    BY <1>2, <2>1
  <2> QED
    BY <1>3, <2>2
<1> QED
  BY <1>4
-----------------------------------------------------------------------------
(* GetData.                                                                *)

(* Numbers of bytes.                                                       *)
Counts == from \in Nat /\ total \in Nat /\ held \in Nat /\ dpos \in Nat

(* The server sends from the place of the buffer on.                       *)
InStep == dpos = from + total + held

Fetch == at = "data" /\ from' = from /\ (Receive \/ DataEnds \/ DataLost)

(* A step of GetData counts bytes on, and leaves nothing in the buffer     *)
(* when it ends.                                                           *)
LEMMA FetchSteps ==
  ASSUME Counts, Fetch
  PROVE  /\ Counts' /\ at' \in {"data", "retry", "went"}
         /\ at' # "data" => held' = 0
         /\ at' = "data" => data = "sending" /\ UNCHANGED data
         /\ at' = "data" /\ InStep => InStep'
<1> USE GetDataAssumption
<1>1. CASE Receive
  <2>1. PICK n \in 1 .. FileLen - dpos :
          LET h == held + n
          IN /\ dpos' = dpos + n
             /\ IF h < Full
                  THEN held' = h /\ UNCHANGED <<at, code, total, file>>
                  ELSE \E r \in Results :
                         /\ WriteData(r, h)
                         /\ IF r = "more" THEN UNCHANGED <<at, code>> ELSE Ends(r)
    BY <1>1 DEF Receive
  <2>2. n \in Nat /\ UNCHANGED data /\ data = "sending"
    BY <1>1, FileLen - dpos \in Int DEF Receive, Counts
  <2>3. CASE held + n < Full
    BY <2>1, <2>2, <2>3 DEF Fetch, Counts, InStep
  <2>4. CASE ~(held + n < Full)
    <3>1. PICK r \in Results :
            /\ WriteData(r, held + n)
            /\ IF r = "more" THEN UNCHANGED <<at, code>> ELSE Ends(r)
      BY <2>1, <2>4
    <3>2. held' = 0 /\ total' = IF r \in {"more", "stop"} THEN total + (held + n) ELSE total
      BY <3>1 DEF WriteData, CountedBytes
    <3>3. CASE r = "more"
      BY <2>1, <2>2, <3>1, <3>2, <3>3 DEF Fetch, Counts, InStep
    <3>4. CASE r # "more"
      <4>1. at' \in {"retry", "went"}
        BY <3>1, <3>4 DEF Ends
      <4> QED
        BY <2>1, <2>2, <3>2, <4>1 DEF Fetch, Counts
    <3> QED
      BY <3>3, <3>4
  <2> QED
    BY <2>3, <2>4
<1>2. CASE DataEnds
  <2>1. PICK r \in Results : WriteData(r, held) /\ Ends(IF r = "more" THEN "stop" ELSE r)
    BY <1>2 DEF DataEnds
  <2>2. /\ held' = 0 /\ UNCHANGED dpos
        /\ total' = IF r \in {"more", "stop"} THEN total + held ELSE total
        /\ at' \in {"retry", "went"}
    BY <1>2, <2>1 DEF DataEnds, WriteData, CountedBytes, Ends
  <2> QED
    BY <2>2 DEF Fetch, Counts
<1>3. CASE DataLost
  <2>1. /\ held' = 0 /\ UNCHANGED dpos
        /\ total' \in {total, total + held}
        /\ at' \in {"retry", "went"}
    BY <1>3 DEF DataLost, WriteData, CountedBytes, Ends
  <2>2. total' \in Nat /\ from' \in Nat /\ dpos' \in Nat
    BY <2>1 DEF Fetch, Counts
  <2> QED
    BY <2>1, <2>2 DEF Counts
<1> QED
  BY <1>1, <1>2, <1>3 DEF Fetch

(* What a step of GetData writes: nothing, or the bytes of the buffer and  *)
(* those that arrive, and it counts only what it writes.                   *)
LEMMA FetchWrites ==
  ASSUME Counts, Fetch
  PROVE  \/ file' = file /\ total' = total
         \/ \E n \in Nat : /\ file' = file \cup Piece(n)
                           /\ dpos' = dpos + (n - held)
                           /\ total' \in {total, total + n}
                           /\ n # 0 => data = "sending" \/ held # 0
<1> USE GetDataAssumption
<1>1. ASSUME NEW r \in Results, NEW n \in Nat, WriteData(r, n)
      PROVE  \/ file' = file /\ total' = total
             \/ file' = file \cup Piece(n) /\ total' \in {total, total + n}
  BY <1>1 DEF WriteData, CountedBytes, Results
<1>2. CASE Receive
  <2>1. PICK n \in 1 .. FileLen - dpos :
          /\ dpos' = dpos + n
          /\ \/ UNCHANGED <<total, file>>
             \/ \E r \in Results : WriteData(r, held + n)
    BY <1>2 DEF Receive
  <2>2. n \in Nat /\ data = "sending"
    BY <1>2, FileLen - dpos \in Int DEF Receive, Counts
  <2>3. held + n \in Nat /\ dpos + n = dpos + ((held + n) - held)
    BY <2>2 DEF Counts
  <2> QED
    BY <1>1, <2>1, <2>2, <2>3
<1>3. CASE DataEnds \/ DataLost
  <2>1. /\ dpos' = dpos
        /\ \/ UNCHANGED <<total, file>>
           \/ DataEnds /\ \E r \in Results : WriteData(r, held)
           \/ held # 0 /\ \E r \in Results : WriteData(r, held)
    BY <1>3 DEF DataEnds, DataLost
  <2>2. held \in Nat /\ dpos = dpos + (held - held)
    BY DEF Counts
  <2>3. DataEnds => data = "sending"
    BY DEF DataEnds
  <2> QED
    BY <1>1, <2>1, <2>2, <2>3
<1> QED
  BY <1>2, <1>3 DEF Fetch

(* Bytes go to their place when the server sends them from the place of    *)
(* the buffer.                                                             *)
LEMMA FetchInPlace ==
  ASSUME Counts, Fetch, BytesInPlace,
         data = "sending" \/ held # 0 => InStep
  PROVE  BytesInPlace'
<1>1. CASE file' = file
  BY <1>1 DEF BytesInPlace
<1>2. ASSUME NEW n \in Nat, file' = file \cup Piece(n), dpos' = dpos + (n - held),
             n # 0 => data = "sending" \/ held # 0
      PROVE  BytesInPlace'
  <2>1. ASSUME NEW b \in Piece(n) PROVE b[1] = b[2]
    <3>1. PICK i \in 0 .. n - 1 : b = <<from + total + i, dpos' - n + i>>
      BY DEF Piece
    <3>2. dpos = from + total + held
      BY <1>2, <3>1 DEF InStep
    <3>3. from + total + i = dpos' - n + i
      BY <1>2, <3>2 DEF Counts
    <3> QED
      BY <3>1, <3>3
  <2> QED
    BY <1>2, <2>1 DEF BytesInPlace
<1> QED
  BY <1>1, <1>2, FetchWrites

(* Bytes that are counted were written.                                    *)
LEMMA FetchWritten ==
  ASSUME Counts, Fetch, ResumeWritten
  PROVE  ResumeWritten'
<1>0. from' = from /\ from \in Nat /\ total \in Nat /\ dpos \in Nat
  BY DEF Fetch, Counts
<1>1. CASE file' = file /\ total' = total
  BY <1>0, <1>1 DEF ResumeWritten
<1>2. ASSUME NEW n \in Nat, file' = file \cup Piece(n), total' \in {total, total + n}
      PROVE  ResumeWritten'
  <2>1. ASSUME NEW i \in 0 .. total' - 1
        PROVE  \E b \in file' : b[1] = from' + i
    <3>1. CASE i < total
      BY <1>0, <1>2, <2>1, <3>1 DEF ResumeWritten
    <3>2. CASE ~(i < total)
      <4>0. total' = total + n
        <5>1. CASE total' = total
          <6>1. i \in 0 .. total - 1
            BY <2>1, <5>1
          <6> QED
            BY <1>0, <3>2, <6>1
        <5> QED
          BY <1>2, <5>1
      <4>1. i - total \in 0 .. n - 1 /\ from + total + (i - total) = from + i
        BY <1>0, <2>1, <3>2, <4>0
      <4>2. <<from + total + (i - total), dpos' - n + (i - total)>> \in Piece(n)
        BY <4>1 DEF Piece
      <4>3. \E b \in Piece(n) : b[1] = from + i
        BY <4>1, <4>2
      <4> QED
        BY <1>0, <1>2, <4>3
    <3> QED
      BY <3>1, <3>2
  <2> QED
    BY <2>1 DEF ResumeWritten
<1> QED
  BY <1>1, <1>2, FetchWrites
-----------------------------------------------------------------------------
(* FtpSession.                                                             *)

Codes == 125 .. 550
ReplyLine == [code : Codes, more : BOOLEAN]

(* Steps whose command is answered before another is sent: all but those   *)
(* of the listing, whose 226 may be read too late or never.                *)
FirstSteps == {"igreet", "iuser", "ipass", "itype", "irest"}
LaterSteps == {"stype", "size", "ltype", "lpasv", "lconn", "list", "ldata",
               "lend", "type2", "probe", "yes"}
BeforeRest == {"greet", "user", "pass", "pasv", "dconn", "type"}
OwnSteps == {"igreet", "iuser", "ipass", "itype", "irest", "stype", "size",
             "greet", "user", "pass", "pasv", "type", "rest", "retr", "quit"}

(* Replies to REST and to SIZE.                                            *)
Accepts(w) == w = Ftp!One(350)
Refuses(w) == w = Ftp!One(502)
Sized(w) == w # << >> /\ w[Len(w)].code = 213
RestTold(w, yes) == w = << >> \/ (IF yes THEN Accepts(w) ELSE Refuses(w))

Own(w) == w = << >> \/ Ftp!Finals(w) = {Len(w)}

FtpTyped ==
  /\ server \in Servers /\ Counts /\ rest \in Nat
  /\ ctrl \in BOOLEAN /\ resume \in BOOLEAN /\ lost \in BOOLEAN
  /\ wire \in Seq(ReplyLine)

(* What is on the wire answers the command that was sent last.             *)
InTurn ==
  /\ ~ctrl => wire = << >>
  /\ at \in OwnSteps => Own(wire) /\ data # "list"
  /\ at = "irest" => RestTold(wire, server.rest)
  /\ at = "size" /\ Sized(wire) => server.size
  /\ at = "dconn" => wire = << >>

(* The restart marker is set by the session that is going on, and by it    *)
(* alone.                                                                  *)
Marked ==
  /\ at \in BeforeRest \cup {"rest"} => data \in {"none", "open"}
  /\ at \in BeforeRest => rest = 0
  /\ at = "rest" => \/ Accepts(wire) /\ rest = ResumeAt
                    \/ (wire = << >> \/ Refuses(wire)) /\ rest = 0

(* The server sends what the ant asked for.                                *)
Placed ==
  /\ at # "data" => held = 0
  /\ at \in {"retr", "data"} /\ data = "sending" => InStep
  /\ at = "data" => data = "sending" \/ held = 0

(* What was found out about the server is so.                              *)
Informed ==
  /\ at \in FirstSteps /\ ~lost => wire # << >>
  /\ resume => server.rest
  /\ at \in LaterSteps /\ server.rest /\ ~lost => resume
  /\ size # -1 => server.size \/ server.list

FtpInv == /\ FtpTyped /\ InTurn /\ Marked /\ Placed /\ Informed
          /\ BytesInPlace /\ ResumeWritten

(* A reply is one line or more, of which only the last one is final.       *)
IsReply(w) == \E c \in Codes : w = Ftp!One(c) \/ w = Ftp!Greeting(c)

(* Its last line is its only final one.                                    *)
LEMMA ReplyLines ==
  ASSUME NEW w, IsReply(w)
  PROVE  /\ w \in Seq(ReplyLine) /\ Len(w) \in Nat \ {0}
         /\ Ftp!Finals(w) = {Len(w)}
<1>1. PICK c \in Codes : w = Ftp!One(c) \/ w = Ftp!Greeting(c)
  BY DEF IsReply
<1> DEFINE more == Ftp!Line(c, TRUE)
           last == Ftp!Line(c, FALSE)
<1>2. more \in ReplyLine /\ last \in ReplyLine /\ more.more /\ ~last.more
  BY DEF Ftp!Line, ReplyLine
<1>3. w = <<last>> \/ w = <<more>> \o <<last>> \/ w = << >> \o <<last>>
  BY <1>1, Zenon DEF Ftp!One, Ftp!Greeting
<1> HIDE DEF more, last
<1>4. w = <<last>> \/ w = <<more, last>>
  <2>1. /\ <<last>> \in Seq(ReplyLine) /\ <<more>> \in Seq(ReplyLine)
        /\ Len(<<more>>) = 1 /\ Len(<<last>>) = 1
    BY <1>2
  <2>2. << >> \o <<last>> = <<last>>
    BY <2>1, ConcatEmptySeq
  <2> DEFINE x == <<more>> \o <<last>>
  <2>3. /\ x \in Seq(ReplyLine) /\ Len(x) = 2 /\ x[1] = more /\ x[2] = last
    BY <1>2, <2>1, ConcatProperties
  <2> HIDE DEF x
  <2>4. x = <<more, last>>
    BY <1>2, <2>3
  <2> QED
    BY <1>3, <2>2, <2>4 DEF x
<1>5. CASE w = <<last>>
  BY <1>2, <1>5 DEF Ftp!Finals
<1>6. CASE w = <<more, last>>
  <2>1. w \in Seq(ReplyLine) /\ Len(w) = 2 /\ w[1] = more /\ w[2] = last
    BY <1>2, <1>6
  <2>2. 1 .. 2 = {1, 2}
    OBVIOUS
  <2> QED
    BY <1>2, <2>1, <2>2 DEF Ftp!Finals
<1> QED
  BY <1>4, <1>5, <1>6

(* Every step that sends a command gets a reply.                           *)
LEMMA Answers ==
  ASSUME Ftp!FtpSessionAssumption, server \in Servers, NEW cmd, NEW d
  PROVE  LET w == Ftp!Lines(cmd, d)
         IN /\ w \in Seq(ReplyLine)
            /\ cmd \in OwnSteps => w # << >> /\ Ftp!Finals(w) = {Len(w)}
            /\ cmd \in {"irest", "rest"} => RestTold(w, server.rest)
            /\ cmd = "size" /\ Sized(w) => server.size
            /\ cmd = "dconn" => w = << >>
<1> DEFINE w == Ftp!Lines(cmd, d)
<1>1. server.start \in {125, 150} /\ server.bare \in {150, 425}
  BY DEF Ftp!FtpSessionAssumption
<1>2. \A c \in {125, 150, 200, 213, 220, 221, 227, 230, 331, 350, 425, 500, 502, 504} :
        IsReply(Ftp!One(c)) /\ IsReply(Ftp!Greeting(c))
  BY DEF IsReply, Codes
<1>3. IsReply(w) \/ (w = << >> /\ cmd \notin OwnSteps)
  BY <1>1, <1>2 DEF Ftp!Lines, OwnSteps
<1>4. w \in Seq(ReplyLine)
  BY <1>3, ReplyLines, EmptySeq
<1>5. cmd \in OwnSteps => w # << >> /\ Ftp!Finals(w) = {Len(w)}
  <2> HIDE DEF w
  <2> QED
    BY <1>3, ReplyLines, EmptySeq
<1>6. cmd \in {"irest", "rest"} => RestTold(w, server.rest)
  BY DEF Ftp!Lines, RestTold, Accepts, Refuses
<1>7. cmd = "size" /\ Sized(w) => server.size
  <2>1. Ftp!One(500)[Len(Ftp!One(500))].code = 500
    BY DEF Ftp!One, Ftp!Line
  <2>2. cmd = "size" /\ ~server.size => w = Ftp!One(500)
    BY DEF Ftp!Lines
  <2> QED
    BY <2>1, <2>2 DEF Sized
<1>8. cmd = "dconn" => w = << >>
  BY DEF Ftp!Lines
<1> QED
  BY <1>3, <1>4, <1>5, <1>6, <1>7, <1>8

(* A step of a dialogue: what is left of the replies, and the reply to the *)
(* command of the next step.                                               *)
LEMMA Sending ==
  ASSUME Ftp!FtpSessionAssumption, FtpTyped,
         NEW next, NEW w \in Seq(ReplyLine), NEW d,
         Ftp!Send(next, w, d), ~ctrl => w = << >>
  PROVE  /\ at' = next /\ wire' \in Seq(ReplyLine) /\ (~ctrl => wire' = << >>)
         /\ w = << >> /\ next \in OwnSteps => Own(wire') /\ (ctrl => wire' # << >>)
         /\ w = << >> /\ next = "irest" => RestTold(wire', server.rest)
         /\ w = << >> /\ next = "size" /\ Sized(wire') => server.size
         /\ rest' \in Nat /\ dpos' \in Nat
         /\ next # "rest" => rest' = rest
         /\ w = << >> /\ next = "rest" =>
              \/ rest' = ResumeAt /\ Accepts(wire')
              \/ rest' = rest /\ (wire' = << >> \/ Refuses(wire'))
         /\ w = << >> /\ next = "dconn" => wire' = << >>
         /\ next = "retr" => \/ data' = d /\ dpos' = dpos
                             \/ data' = "sending" /\ dpos' = rest
         /\ next # "retr" => dpos' = dpos
         /\ next \notin {"list", "retr"} => data' = d
<1> DEFINE out == IF ctrl THEN Ftp!Lines(next, d) ELSE << >>
<1>1. /\ at' = next /\ wire' = w \o out
      /\ rest' = IF next = "rest" /\ out = Ftp!One(350) THEN ResumeAt ELSE rest
      /\ next = "retr" => \/ data' = d /\ dpos' = dpos
                          \/ data' = "sending" /\ dpos' = rest
      /\ next # "retr" => dpos' = dpos
      /\ next \notin {"list", "retr"} => data' = d
  <2> DEFINE begun == out # << >> /\ out[1].code \in {125, 150}
  <2>1. /\ at' = next /\ wire' = w \o out
        /\ rest' = IF next = "rest" /\ out = Ftp!One(350) THEN ResumeAt ELSE rest
        /\ data' = IF next = "list" /\ begun THEN "list"
                   ELSE IF next = "retr" /\ begun THEN "sending" ELSE d
        /\ dpos' = IF next = "retr" /\ begun THEN rest ELSE dpos
    BY DEF Ftp!Send, Ftp!ResumeAt, ResumeAt
  <2> HIDE DEF begun, out
  <2> QED
    BY <2>1
<1>2. server \in Servers /\ rest \in Nat /\ dpos \in Nat /\ ResumeAt \in Nat /\ ctrl \in BOOLEAN
  BY DEF FtpTyped, Counts, ResumeAt
<1>3. /\ out \in Seq(ReplyLine) /\ (~ctrl => out = << >>)
      /\ next \in OwnSteps => Own(out) /\ (ctrl => out # << >>)
      /\ next = "dconn" => out = << >>
      /\ next = "rest" => out = << >> \/ Accepts(out) \/ Refuses(out)
      /\ next = "irest" => RestTold(out, server.rest)
      /\ next = "size" /\ Sized(out) => server.size
  <2>1. CASE ctrl
    <3>1. out = Ftp!Lines(next, d)
      BY <2>1
    <3> HIDE DEF out
    <3> QED
      BY <1>2, <2>1, <3>1, Answers DEF Own, RestTold
  <2>2. CASE ~ctrl
    <3>1. ~Sized(<< >>)
      BY DEF Sized
    <3> QED
      BY <2>2, <3>1, EmptySeq DEF Own, RestTold
  <2> QED
    BY <2>1, <2>2
<1> HIDE DEF out
<1>4. w \o out \in Seq(ReplyLine) /\ (w = << >> => w \o out = out)
  BY <1>3, ConcatProperties, ConcatEmptySeq
<1>5. ~ctrl => w \o out = << >>
  BY <1>3, <1>4
<1>6. rest' \in Nat /\ dpos' \in Nat
  BY <1>1, <1>2
<1>7. w = << >> => wire' = out
  BY <1>1, <1>4
<1>8. w = << >> /\ next \in OwnSteps => Own(wire') /\ (ctrl => wire' # << >>)
  BY <1>3, <1>7
<1>9. w = << >> /\ next = "rest" =>
        \/ rest' = ResumeAt /\ Accepts(wire')
        \/ rest' = rest /\ (wire' = << >> \/ Refuses(wire'))
  BY <1>1, <1>3, <1>7 DEF Accepts
<1>10. /\ w = << >> /\ next = "irest" => RestTold(wire', server.rest)
       /\ w = << >> /\ next = "size" /\ Sized(wire') => server.size
       /\ w = << >> /\ next = "dconn" => wire' = << >>
  BY <1>3, <1>7
<1>11. wire' \in Seq(ReplyLine) /\ (~ctrl => wire' = << >>)
  BY <1>1, <1>4, <1>5
<1> QED
  BY <1>1, <1>6, <1>8, <1>9, <1>10, <1>11

(* Where a reply leads to.                                                 *)
LEMMA NextSteps ==
  ASSUME at \in OwnSteps, NEW ok \in BOOLEAN, NEW c, NEW next,
         next = IF ~ok THEN Ftp!Else(at)
                ELSE IF Ftp!NoPass(c) THEN Ftp!Then(Ftp!Then(at)) ELSE Ftp!Then(at)
  PROVE  /\ at = "igreet" => next \in {"iuser", "iretry"}
         /\ at = "iuser" => next \in {"ipass", "itype", "iretry"}
         /\ at = "ipass" => next \in {"itype", "iretry"}
         /\ at = "itype" => next = "irest"
         /\ at = "irest" => next = "stype"
         /\ at = "stype" => next \in {"size", "ltype"}
         /\ at = "size" => next \in {"yes", "ltype"}
         /\ at = "greet" => next \in {"user", "retry"}
         /\ at = "user" => next \in {"pass", "pasv", "retry"}
         /\ at = "pass" => next \in {"pasv", "retry"}
         /\ at = "pasv" => next \in {"dconn", "quit"}
         /\ at = "type" => next \in {"rest", "quit"}
         /\ at = "rest" => \/ next = "retr" /\ (ok \/ ResumeAt = 0)
                           \/ next = "quit"
         /\ at = "retr" => next \in {"data", "quit"}
         /\ at = "quit" /\ ~ok => next = "retry"
<1>1. at = "igreet" => next \in {"iuser", "iretry"}
  BY DEF Ftp!Else, Ftp!Then, Ftp!NoPass
<1>2. at = "iuser" => next \in {"ipass", "itype", "iretry"}
  BY DEF Ftp!Else, Ftp!Then, Ftp!NoPass
<1>3. at = "ipass" => next \in {"itype", "iretry"}
  BY DEF Ftp!Else, Ftp!Then, Ftp!NoPass
<1>4. at = "itype" => next = "irest"
  BY DEF Ftp!Else, Ftp!Then, Ftp!NoPass
<1>5. at = "irest" => next = "stype"
  BY DEF Ftp!Else, Ftp!Then, Ftp!NoPass
<1>6. at = "stype" => next \in {"size", "ltype"}
  BY DEF Ftp!Else, Ftp!Then, Ftp!NoPass
<1>7. at = "size" => next \in {"yes", "ltype"}
  BY DEF Ftp!Else, Ftp!Then, Ftp!NoPass
<1>8. at = "greet" => next \in {"user", "retry"}
  BY DEF Ftp!Else, Ftp!Then, Ftp!NoPass
<1>9. at = "user" => next \in {"pass", "pasv", "retry"}
  BY DEF Ftp!Else, Ftp!Then, Ftp!NoPass
<1>10. at = "pass" => next \in {"pasv", "retry"}
  BY DEF Ftp!Else, Ftp!Then, Ftp!NoPass
<1>11. at = "pasv" => next \in {"dconn", "quit"}
  BY DEF Ftp!Else, Ftp!Then, Ftp!NoPass
<1>12. at = "type" => next \in {"rest", "quit"}
  BY DEF Ftp!Else, Ftp!Then, Ftp!NoPass
<1>13. at = "rest" => \/ next = "retr" /\ (ok \/ ResumeAt = 0)
                      \/ next = "quit"
  BY DEF Ftp!Else, Ftp!Then, Ftp!NoPass, Ftp!ResumeAt, ResumeAt
<1>14. at = "retr" => next \in {"data", "quit"}
  BY DEF Ftp!Else, Ftp!Then, Ftp!NoPass
<1>15. at = "quit" /\ ~ok => next = "retry"
  BY DEF Ftp!Else, Ftp!Then, Ftp!NoPass
<1> QED
  BY <1>1, <1>2, <1>3, <1>4, <1>5, <1>6, <1>7, <1>8, <1>9, <1>10, <1>11, <1>12,
     <1>13, <1>14, <1>15

(* A reply is read.                                                        *)
LEMMA FtpAnswered ==
  ASSUME Ftp!FtpSessionAssumption, FtpInv, Ftp!Answered
  PROVE  FtpInv'
<1> DEFINE k == Ftp!FirstFinal(wire)
           c == wire[k].code
           ok == c \in Ftp!Reply(at) /\ Ftp!Parsed(at)
           next == IF ~ok THEN Ftp!Else(at)
                   ELSE IF Ftp!NoPass(c) THEN Ftp!Then(Ftp!Then(at)) ELSE Ftp!Then(at)
<1>1. /\ at \in Ftp!Asked /\ Ftp!Finals(wire) # {}
      /\ \E more \in 0 .. Len(wire) - k :
           Ftp!Send(next, SubSeq(wire, k + more + 1, Len(wire)), data)
      /\ size' = Ftp!SizeFound(ok)
      /\ resume' = IF at = "irest" THEN ok ELSE resume
      /\ UNCHANGED <<server, from, ctrl, lost, held, total, file>>
  BY DEF Ftp!Answered, Ftp!ant
<1>2. PICK more \in 0 .. Len(wire) - k :
        Ftp!Send(next, SubSeq(wire, k + more + 1, Len(wire)), data)
  BY <1>1
<1> DEFINE w == SubSeq(wire, k + more + 1, Len(wire))
<1>t. /\ server \in Servers /\ Counts /\ rest \in Nat
      /\ ctrl \in BOOLEAN /\ resume \in BOOLEAN /\ lost \in BOOLEAN
      /\ wire \in Seq(ReplyLine)
  BY DEF FtpInv, FtpTyped
<1> HIDE DEF next, ok
<1>3. k \in Ftp!Finals(wire) /\ k \in 1 .. Len(wire) /\ wire # << >> /\ ctrl
  <2>1. Ftp!Finals(wire) \subseteq 1 .. Len(wire) /\ Len(wire) \in Nat
    BY <1>t DEF Ftp!Finals
  <2>2. k \in Ftp!Finals(wire)
    BY <1>1, <2>1, LeastOf DEF Ftp!FirstFinal
  <2>3. wire # << >>
    <3>1. ASSUME wire = << >> PROVE FALSE
      BY <2>1, <2>2, <3>1
    <3> QED
      BY <3>1
  <2> QED
    BY <1>1, <1>t, <2>1, <2>2, <2>3 DEF FtpInv, InTurn
<1>4. w \in Seq(ReplyLine) /\ k \in Nat /\ more \in Nat
  <2>1. k \in Nat /\ Len(wire) \in Nat /\ Len(wire) - k \in Int
    BY <1>3, <1>t
  <2>2. \A i \in k + more + 1 .. Len(wire) : wire[i] \in ReplyLine
    <3>1. more \in Nat
      BY <1>2, <2>1
    <3> QED
      BY <1>t, <2>1, <3>1
  <2>3. k + more + 1 \in 1 .. Len(wire) + 1
    BY <1>2, <2>1
  <2> HIDE DEF k
  <2> QED
    BY <1>t, <1>2, <2>1, <2>3, SubSeqProperties
<1>5. at \in OwnSteps => w = << >> /\ k = Len(wire)
  <2> SUFFICES ASSUME at \in OwnSteps
               PROVE  w = << >> /\ k = Len(wire)
    OBVIOUS
  <2>1. k = Len(wire) /\ Len(wire) \in Nat
    BY <1>3, <1>t DEF FtpInv, InTurn, Own
  <2>2. more = 0
    BY <1>2, <2>1
  <2>3. w = SubSeq(wire, Len(wire) + 1, Len(wire))
    BY <2>1, <2>2
  <2> HIDE DEF k, w
  <2> QED
    BY <1>t, <2>1, <2>3, SubSeqProperties
<1>6. /\ at' = next /\ wire' \in Seq(ReplyLine) /\ (~ctrl => wire' = << >>)
      /\ rest' \in Nat /\ dpos' \in Nat
  BY <1>1, <1>2, <1>3, <1>4, <1>t, Sending DEF FtpInv
<1>7. FtpTyped'
  <2>1. ok \in BOOLEAN
    BY DEF ok
  <2> QED
    BY <1>1, <1>6, <1>t, <2>1 DEF FtpTyped, Counts
<1>o. ok \in BOOLEAN /\ (ok <=> c \in Ftp!Reply(at) /\ Ftp!Parsed(at))
  BY DEF ok
<1>n. next = IF ~ok THEN Ftp!Else(at)
             ELSE IF Ftp!NoPass(c) THEN Ftp!Then(Ftp!Then(at)) ELSE Ftp!Then(at)
  BY DEF next
<1>c. /\ Accepts(wire) /\ k = Len(wire) => c = 350
      /\ Refuses(wire) /\ k = Len(wire) => c = 502
      /\ c = 213 /\ k = Len(wire) => Sized(wire)
  <2>2. Accepts(wire) => wire[Len(wire)].code = 350
    BY DEF Accepts, Ftp!One, Ftp!Line
  <2>3. Refuses(wire) => wire[Len(wire)].code = 502
    BY DEF Refuses, Ftp!One, Ftp!Line
  <2> HIDE DEF k
  <2> QED
    BY <1>3, <2>2, <2>3 DEF Sized
<1>8. size' # -1 => server.size \/ server.list
  <2>1. CASE ok /\ at = "size"
    <3>1. c = 213
      BY <1>o, <2>1 DEF Ftp!Reply
    <3>2. k = Len(wire)
      BY <1>5, <2>1 DEF OwnSteps
    <3> HIDE DEF c, k
    <3> QED
      BY <1>c, <2>1, <3>1, <3>2 DEF FtpInv, InTurn
  <2>2. CASE ok /\ at = "lend"
    BY <1>o, <2>2 DEF Ftp!Parsed
  <2>3. CASE ~(ok /\ at \in {"size", "lend"})
    <3>1. size' = size
      BY <1>1, <2>3 DEF Ftp!SizeFound
    <3> QED
      BY <3>1 DEF FtpInv, Informed
  <2> QED
    BY <2>1, <2>2, <2>3
<1>w. BytesInPlace' /\ ResumeWritten'
  BY <1>1 DEF FtpInv, BytesInPlace, ResumeWritten
<1>v. /\ server' = server /\ ctrl' = ctrl /\ lost' = lost /\ from' = from
      /\ held' = held /\ total' = total
      /\ resume' = IF at = "irest" THEN ok ELSE resume
  BY <1>1
<1>9. CASE at \in OwnSteps
  <2> HIDE DEF w
  <2>1. /\ w = << >> /\ k = Len(wire)
    BY <1>5, <1>9
  <2> HIDE DEF k, c
  <2>2. /\ at = "igreet" => next \in {"iuser", "iretry"}
        /\ at = "iuser" => next \in {"ipass", "itype", "iretry"}
        /\ at = "ipass" => next \in {"itype", "iretry"}
        /\ at = "itype" => next = "irest"
        /\ at = "irest" => next = "stype"
        /\ at = "stype" => next \in {"size", "ltype"}
        /\ at = "size" => next \in {"yes", "ltype"}
        /\ at = "greet" => next \in {"user", "retry"}
        /\ at = "user" => next \in {"pass", "pasv", "retry"}
        /\ at = "pass" => next \in {"pasv", "retry"}
        /\ at = "pasv" => next \in {"dconn", "quit"}
        /\ at = "type" => next \in {"rest", "quit"}
        /\ at = "rest" => \/ next = "retr" /\ (ok \/ ResumeAt = 0)
                          \/ next = "quit"
        /\ at = "retr" => next \in {"data", "quit"}
        /\ at = "quit" /\ ~ok => next = "retry"
    BY <1>9, <1>o, <1>n, NextSteps
  <2>3. at = "quit" => ~ok
    BY <1>o DEF Ftp!Reply
  <2>4. /\ next \in OwnSteps => Own(wire') /\ wire' # << >>
        /\ next = "irest" => RestTold(wire', server.rest)
        /\ next = "size" /\ Sized(wire') => server.size
        /\ next # "rest" => rest' = rest
        /\ next = "rest" => \/ rest' = ResumeAt /\ Accepts(wire')
                            \/ rest' = rest /\ (wire' = << >> \/ Refuses(wire'))
        /\ next = "dconn" => wire' = << >>
        /\ next = "retr" => \/ data' = data /\ dpos' = dpos
                            \/ data' = "sending" /\ dpos' = rest
        /\ next # "retr" => dpos' = dpos
        /\ next \notin {"list", "retr"} => data' = data
    <3>1. Ftp!Send(next, w, data) /\ FtpTyped /\ (~ctrl => w = << >>)
      BY <1>2, <1>3 DEF FtpInv, w, c, k
    <3>2. next \in OwnSteps => Own(wire') /\ (ctrl => wire' # << >>)
      BY <1>4, <2>1, <3>1, Sending
    <3>3. /\ next = "irest" => RestTold(wire', server.rest)
          /\ next = "size" /\ Sized(wire') => server.size
      BY <1>4, <2>1, <3>1, Sending
    <3>4. /\ next # "rest" => rest' = rest
          /\ next = "rest" => \/ rest' = ResumeAt /\ Accepts(wire')
                              \/ rest' = rest /\ (wire' = << >> \/ Refuses(wire'))
          /\ next = "dconn" => wire' = << >>
      BY <1>4, <2>1, <3>1, Sending
    <3>5. /\ next = "retr" => \/ data' = data /\ dpos' = dpos
                              \/ data' = "sending" /\ dpos' = rest
          /\ next # "retr" => dpos' = dpos
          /\ next \notin {"list", "retr"} => data' = data
      BY <1>4, <2>1, <3>1, Sending
    <3> QED
      BY <1>3, <3>2, <3>3, <3>4, <3>5
  <2>5. InTurn'
    <3>1. at' \in OwnSteps => Own(wire') /\ data' # "list"
      <4>1. next \in OwnSteps => data # "list" /\ (next # "retr" => data' = data)
        BY <1>9, <2>2, <2>3, <2>4 DEF OwnSteps, FtpInv, InTurn
      <4> QED
        BY <1>6, <2>4, <4>1
    <3>2. /\ (~ctrl' => wire' = << >>)
          /\ at' = "irest" => RestTold(wire', server'.rest)
          /\ at' = "size" /\ Sized(wire') => server'.size
          /\ at' = "dconn" => wire' = << >>
      BY <1>6, <1>v, <2>4
    <3> QED
      BY <3>1, <3>2 DEF InTurn
  <2>6. Marked'
    <3>1. next \in BeforeRest => rest = 0 /\ data \in {"none", "open"}
      BY <1>9, <2>2, <2>3 DEF OwnSteps, BeforeRest, FtpInv, Marked
    <3>2. next = "rest" => rest = 0 /\ data \in {"none", "open"}
      BY <1>9, <2>2, <2>3 DEF OwnSteps, BeforeRest, FtpInv, Marked
    <3>3. next \in BeforeRest => next \notin {"rest", "retr", "list"}
      BY DEF BeforeRest
    <3>4. ResumeAt' = ResumeAt
      BY <1>v DEF ResumeAt
    <3> QED
      BY <1>6, <2>4, <3>1, <3>2, <3>3, <3>4 DEF Marked
  <2>7. Placed'
    <3>1. held = 0
      BY <1>9 DEF OwnSteps, FtpInv, Placed
    <3>2. CASE next = "retr"
      <4>1. at = "rest" /\ (ok \/ ResumeAt = 0)
        BY <1>9, <2>2, <2>3, <3>2 DEF OwnSteps
      <4>2. rest = ResumeAt
        <5>1. CASE ~ok
          BY <4>1, <5>1 DEF FtpInv, Marked
        <5>2. CASE ok
          <6>1. c = 350
            BY <1>o, <4>1, <5>2 DEF Ftp!Reply
          <6>2. ~Refuses(wire) /\ wire # << >>
            BY <1>3, <1>c, <2>1, <6>1 DEF c, k
          <6> QED
            BY <4>1, <6>2 DEF FtpInv, Marked
        <5> QED
          BY <5>1, <5>2
      <4>3. data # "sending"
        BY <4>1 DEF FtpInv, Marked
      <4> QED
        BY <1>6, <1>v, <1>t, <2>4, <3>1, <3>2, <4>2, <4>3
           DEF Placed, ResumeAt, Counts, InStep
    <3>3. CASE next = "data"
      <4>1. at = "retr"
        BY <1>9, <2>2, <2>3, <3>3 DEF OwnSteps
      <4>2. data' = data /\ dpos' = dpos
        BY <2>4, <3>3
      <4>3. data' = "sending" => InStep'
        BY <1>v, <4>1, <4>2 DEF FtpInv, Placed, InStep
      <4> QED
        BY <1>6, <1>v, <3>1, <3>3, <4>3 DEF Placed
    <3>4. CASE next \notin {"retr", "data"}
      BY <1>6, <1>v, <3>1, <3>4 DEF Placed
    <3> QED
      BY <3>2, <3>3, <3>4
  <2>8. Informed'
    <3>1. next \in FirstSteps => wire' # << >>
      BY <2>4 DEF FirstSteps, OwnSteps
    <3>2. /\ at = "irest" => (ok <=> server.rest)
      <4> SUFFICES ASSUME at = "irest" PROVE ok <=> server.rest
        OBVIOUS
      <4>1. IF server.rest THEN Accepts(wire) ELSE Refuses(wire)
        BY <1>3 DEF FtpInv, InTurn, RestTold
      <4>2. c = IF server.rest THEN 350 ELSE 502
        BY <1>c, <2>1, <4>1 DEF c, k
      <4>3. Ftp!Reply(at) = {350} /\ Ftp!Parsed(at)
        BY DEF Ftp!Reply, Ftp!Parsed
      <4> QED
        BY <1>o, <4>2, <4>3
    <3>3. next \in LaterSteps => at = "irest" \/ at \in LaterSteps
      BY <1>9, <2>2, <2>3 DEF OwnSteps, LaterSteps
    <3>4. "irest" \notin LaterSteps
      BY DEF LaterSteps
    <3> QED
      BY <1>6, <1>8, <1>v, <3>1, <3>2, <3>3, <3>4 DEF FtpInv, Informed
  <2> QED
    BY <1>7, <1>w, <2>5, <2>6, <2>7, <2>8 DEF FtpInv
<1>10. CASE at \notin OwnSteps
  <2> HIDE DEF k, c, w
  <2>1. at \in {"ltype", "lpasv", "list", "lend", "type2", "probe"}
    BY <1>1, <1>10 DEF Ftp!Asked, Ftp!InfoSteps, Ftp!GoSteps, Ftp!Unasked, OwnSteps
  <2>2. next \in {"lpasv", "lconn", "ldata", "yes", "probe", "type2", "no"}
    BY <1>n, <2>1 DEF Ftp!Then, Ftp!Else, Ftp!NoPass
  <2>3. held = 0
    BY <2>1 DEF FtpInv, Placed
  <2>4. InTurn' /\ Marked' /\ Placed'
    BY <1>6, <1>v, <2>2, <2>3 DEF InTurn, Marked, Placed, OwnSteps, BeforeRest
  <2>5. Informed'
    BY <1>6, <1>8, <1>v, <2>1, <2>2 DEF FtpInv, Informed, FirstSteps, LaterSteps
  <2> QED
    BY <1>7, <1>w, <2>4, <2>5 DEF FtpInv
<1> QED
  BY <1>9, <1>10

(* The other steps of the session.                                         *)
LEMMA FtpGetTask ==
  ASSUME Ftp!FtpSessionAssumption, FtpInv, Ftp!GetTask
  PROVE  FtpInv'
<1>1. /\ from' \in 0 .. FileLen /\ total' = 0 /\ held' = 0 /\ lost' = FALSE
      /\ at' \in {"connect", "iconnect"} /\ size' = -1 /\ resume' = FALSE
      /\ UNCHANGED <<server, ctrl, wire, rest, data, dpos, file>>
  BY DEF Ftp!GetTask, Ftp!control, Ftp!None
<1>2. FtpTyped'
  <2>1. from' \in Nat
    BY <1>1, GetDataAssumption
  <2>2. FtpTyped
    BY DEF FtpInv
  <2> QED
    BY <1>1, <2>1, <2>2 DEF FtpTyped, Counts
<1>3. InTurn' /\ Marked' /\ Placed' /\ Informed'
  BY <1>1 DEF FtpInv, InTurn, Marked, Placed, Informed, OwnSteps, BeforeRest,
              FirstSteps, LaterSteps
<1>4. BytesInPlace' /\ ResumeWritten'
  <2>1. ResumeWritten'
    BY <1>1 DEF ResumeWritten
  <2> QED
    BY <1>1, <2>1 DEF FtpInv, BytesInPlace
<1> QED
  BY <1>2, <1>3, <1>4 DEF FtpInv

(* The control connection is made: the old one, its replies and its        *)
(* restart marker are gone.                                                *)
LEMMA FtpConnect ==
  ASSUME Ftp!FtpSessionAssumption, FtpInv, Ftp!Connect
  PROVE  FtpInv'
<1>1. /\ at \in {"iconnect", "connect"} /\ data' = "none" /\ rest' = 0
      /\ \/ /\ at' = IF at = "connect" THEN "greet" ELSE "igreet"
            /\ ctrl' = TRUE /\ wire' = Ftp!Lines(at', "none") /\ UNCHANGED lost
         \/ /\ at' = Ftp!Else(at) /\ lost' = TRUE
            /\ ctrl' = FALSE /\ wire' = << >>
      /\ UNCHANGED <<server, from, dpos, held, total, file, size, resume>>
  BY DEF Ftp!Connect, Ftp!Hangup, Ftp!ant, Ftp!found
<1>2. \/ at' \in {"igreet", "greet"} /\ ctrl' = TRUE /\ Own(wire') /\ wire' # << >>
      \/ at' \in {"iretry", "retry"} /\ ctrl' = FALSE /\ wire' = << >>
  <2>1. CASE at' \in {"igreet", "greet"} /\ ctrl' = TRUE /\ wire' = Ftp!Lines(at', "none")
    <3>1. server \in Servers
      BY DEF FtpInv, FtpTyped
    <3> QED
      BY <2>1, <3>1, Answers DEF Own, OwnSteps
  <2>2. Ftp!Else(at) \in {"iretry", "retry"}
    BY <1>1 DEF Ftp!Else
  <2> QED
    BY <1>1, <2>1, <2>2
<1>3. wire' \in Seq(ReplyLine) /\ lost' \in BOOLEAN
  <2>1. server \in Servers /\ lost \in BOOLEAN
    BY DEF FtpInv, FtpTyped
  <2>2. Ftp!Lines(at', "none") \in Seq(ReplyLine)
    BY <2>1, Answers
  <2> QED
    BY <1>1, <2>1, <2>2, EmptySeq
<1>4. FtpTyped'
  BY <1>1, <1>2, <1>3 DEF FtpInv, FtpTyped, Counts
<1>5. InTurn' /\ Marked' /\ Placed' /\ Informed'
  <2>1. held' = 0
    BY <1>1 DEF FtpInv, Placed
  <2>2. InTurn' /\ Marked' /\ Placed'
    BY <1>1, <1>2, <2>1 DEF InTurn, Marked, Placed, OwnSteps, BeforeRest
  <2> QED
    BY <1>1, <1>2, <2>2 DEF FtpInv, Informed, FirstSteps, LaterSteps
<1>6. BytesInPlace' /\ ResumeWritten'
  BY <1>1 DEF FtpInv, BytesInPlace, ResumeWritten
<1> QED
  BY <1>4, <1>5, <1>6 DEF FtpInv

(* No reply comes.                                                         *)
LEMMA FtpUnanswered ==
  ASSUME Ftp!FtpSessionAssumption, FtpInv, Ftp!Unanswered
  PROVE  FtpInv'
<1>1. /\ at \in Ftp!Asked /\ lost' \in {lost, TRUE} /\ (lost' \/ Ftp!Silent)
      /\ ctrl' = FALSE /\ wire' = << >> /\ at' = Ftp!Else(at)
      /\ resume' = (at # "irest" /\ resume)
      /\ UNCHANGED <<server, from, rest, data, dpos, held, total, file, size>>
  BY DEF Ftp!Unanswered, Ftp!Hangup, Ftp!ant, Ftp!channel
<1>2. /\ at' \in {"iretry", "irest", "stype", "ltype", "type2", "no", "retry",
                  "retr", "quit"}
      /\ at' = "irest" => at = "itype"
      /\ at' = "stype" => at = "irest"
      /\ at' \in {"ltype", "type2"} => at \in LaterSteps
      /\ at' = "retr" => at = "rest" /\ ResumeAt = 0
      /\ at' \in OwnSteps /\ at' # "quit" => at \in OwnSteps
      /\ at' = "quit" => at \in {"pasv", "type", "retr", "rest"}
  BY <1>1 DEF Ftp!Asked, Ftp!InfoSteps, Ftp!GoSteps, Ftp!Unasked, Ftp!Else,
              OwnSteps, LaterSteps, Ftp!ResumeAt, ResumeAt
<1>3. FtpTyped'
  BY <1>1, EmptySeq DEF FtpInv, FtpTyped, Counts
<1>4. held' = 0
  BY <1>1 DEF FtpInv, Placed, Ftp!Asked, Ftp!Unasked
<1>5. InTurn'
  BY <1>1, <1>2 DEF FtpInv, InTurn, Own, OwnSteps, RestTold, Sized
<1>6. Marked' /\ Placed'
  <2>1. at' \notin BeforeRest \cup {"rest", "data"}
    BY <1>2 DEF BeforeRest
  <2>2. at' = "retr" => data' # "sending"
    BY <1>1, <1>2 DEF FtpInv, Marked
  <2> QED
    BY <1>4, <2>1, <2>2 DEF Marked, Placed
<1>7. Informed'
  <2>1. at' \in {"irest", "stype"} => lost'
    <3> SUFFICES ASSUME at \in {"itype", "irest"}, ~lost' PROVE FALSE
      BY <1>2
    <3>1. ~lost /\ wire # << >> /\ ctrl /\ Own(wire)
      <4>1. ~lost
        BY <1>1
      <4>2. at \in FirstSteps /\ at \in OwnSteps
        BY DEF FirstSteps, OwnSteps
      <4>3. wire # << >>
        BY <4>1, <4>2 DEF FtpInv, Informed
      <4> QED
        BY <4>1, <4>2, <4>3 DEF FtpInv, InTurn
    <3>2. Ftp!Finals(wire) # {}
      BY <3>1 DEF Own
    <3> QED
      BY <1>1, <3>1, <3>2 DEF Ftp!Silent
  <2>2. at' \in LaterSteps => at' \in {"stype", "ltype", "type2"}
    BY <1>2 DEF LaterSteps
  <2>3. at' \in FirstSteps => at' = "irest"
    BY <1>2 DEF FirstSteps
  <2>4. at \in LaterSteps => at # "irest"
    BY DEF LaterSteps
  <2>5. ~lost' => ~lost
    BY <1>1 
  <2> QED
    BY <1>1, <1>2, <2>1, <2>2, <2>3, <2>4, <2>5 DEF FtpInv, Informed
<1>8. BytesInPlace' /\ ResumeWritten'
  BY <1>1 DEF FtpInv, BytesInPlace, ResumeWritten
<1> QED
  BY <1>3, <1>5, <1>6, <1>7, <1>8 DEF FtpInv

(* The data connection of a dialogue is made, or refused.                  *)
LEMMA FtpDataConnect ==
  ASSUME Ftp!FtpSessionAssumption, FtpInv, Ftp!DataConnect
  PROVE  FtpInv'
<1>1. /\ at \in {"lconn", "dconn"}
      /\ UNCHANGED <<server, from, ctrl, held, total, file, size, resume>>
      /\ \/ Ftp!Send(Ftp!Then(at), wire, "open") /\ UNCHANGED lost
         \/ Ftp!Send(Ftp!Else(at), wire, "none") /\ lost' = TRUE
  BY DEF Ftp!DataConnect, Ftp!ant, Ftp!found
<1>2. PICK next \in {"list", "type2", "type", "quit"}, d \in {"open", "none"} :
        /\ Ftp!Send(next, wire, d)
        /\ next \in {"type", "quit"} => at = "dconn"
        /\ next \in {"list", "type2"} => at = "lconn"
  <2>1. /\ at = "lconn" => Ftp!Then(at) = "list" /\ Ftp!Else(at) = "type2"
        /\ at = "dconn" => Ftp!Then(at) = "type" /\ Ftp!Else(at) = "quit"
    BY DEF Ftp!Then, Ftp!Else
  <2>2. PICK n \in {Ftp!Then(at), Ftp!Else(at)}, d \in {"open", "none"} :
          Ftp!Send(n, wire, d)
    BY <1>1
  <2> QED
    BY <1>1, <2>1, <2>2
<1>3. wire \in Seq(ReplyLine) /\ FtpTyped /\ (~ctrl => wire = << >>)
  BY DEF FtpInv, FtpTyped, InTurn
<1>4. /\ at' = next /\ wire' \in Seq(ReplyLine) /\ (~ctrl => wire' = << >>)
      /\ rest' \in Nat /\ dpos' \in Nat /\ rest' = rest
      /\ next # "list" => data' = d
      /\ wire = << >> /\ next \in {"type", "quit"} => Own(wire')
  <2>1. next # "rest" /\ next # "retr"
    OBVIOUS
  <2>2. next \in {"type", "quit"} => next \in OwnSteps
    BY DEF OwnSteps
  <2> QED
    BY <1>2, <1>3, <2>1, <2>2, Sending
<1>5. FtpTyped'
  BY <1>1, <1>3, <1>4 DEF FtpTyped, Counts
<1>6. at = "dconn" => wire = << >> /\ rest = 0
  BY DEF FtpInv, InTurn, Marked, BeforeRest
<1>7. InTurn' /\ Marked' /\ Placed'
  <2>1. held' = 0
    BY <1>1 DEF FtpInv, Placed
  <2> QED
    BY <1>1, <1>2, <1>4, <1>6, <2>1
       DEF InTurn, Marked, Placed, OwnSteps, BeforeRest
<1>8. Informed'
  <2>1. at' \notin FirstSteps /\ (at' \in LaterSteps => at \in LaterSteps)
    BY <1>1, <1>2, <1>4 DEF FirstSteps, LaterSteps
  <2>2. ~lost' => ~lost
    BY <1>1
  <2> QED
    BY <1>1, <2>1, <2>2 DEF FtpInv, Informed
<1>9. BytesInPlace' /\ ResumeWritten'
  BY <1>1 DEF FtpInv, BytesInPlace, ResumeWritten
<1> QED
  BY <1>5, <1>7, <1>8, <1>9 DEF FtpInv

(* The listing is read; its end is told by a reply of its own.             *)
LEMMA FtpReadListing ==
  ASSUME Ftp!FtpSessionAssumption, FtpInv, Ftp!ReadListing
  PROVE  FtpInv'
<1>1. /\ at = "ldata" /\ lost' \in {lost, TRUE}
      /\ UNCHANGED <<server, from, ctrl, held, total, file, size, resume>>
      /\ \E next \in {"lend", "type2"} : Ftp!Send(next, wire, data)
  BY DEF Ftp!ReadListing, Ftp!ant, Ftp!found
<1>2. PICK next \in {"lend", "type2"} : Ftp!Send(next, wire, data)
  BY <1>1
<1>3. wire \in Seq(ReplyLine) /\ FtpTyped /\ (~ctrl => wire = << >>)
  BY DEF FtpInv, FtpTyped, InTurn
<1>4. /\ at' = next /\ wire' \in Seq(ReplyLine) /\ (~ctrl => wire' = << >>)
      /\ rest' \in Nat /\ dpos' \in Nat
  BY <1>2, <1>3, Sending
<1>5. FtpTyped'
  BY <1>1, <1>3, <1>4 DEF FtpTyped, Counts
<1>6. held' = 0
  BY <1>1 DEF FtpInv, Placed
<1>7. InTurn' /\ Marked' /\ Placed'
  BY <1>1, <1>4, <1>6 DEF InTurn, Marked, Placed, OwnSteps, BeforeRest
<1>8. Informed'
  <2>1. at' \notin FirstSteps /\ at' \in LaterSteps /\ at \in LaterSteps
    BY <1>1, <1>4 DEF FirstSteps, LaterSteps
  <2>2. ~lost' => ~lost
    BY <1>1
  <2> QED
    BY <1>1, <2>1, <2>2 DEF FtpInv, Informed
<1>9. BytesInPlace' /\ ResumeWritten'
  BY <1>1 DEF FtpInv, BytesInPlace, ResumeWritten
<1> QED
  BY <1>5, <1>7, <1>8, <1>9 DEF FtpInv

(* The server has sent the listing.                                        *)
LEMMA FtpListingSent ==
  ASSUME FtpInv, Ftp!ListingSent
  PROVE  FtpInv'
<1>1. /\ data = "list" /\ ctrl /\ data' = "listed"
      /\ wire' = Append(wire, Ftp!Line(226, FALSE))
      /\ UNCHANGED <<server, from, at, lost, ctrl, rest, dpos, held, total, file,
                     size, resume>>
  BY DEF Ftp!ListingSent, Ftp!ant, Ftp!session, Ftp!found
<1>2. wire' \in Seq(ReplyLine)
  <2>1. Ftp!Line(226, FALSE) \in ReplyLine /\ wire \in Seq(ReplyLine)
    BY DEF Ftp!Line, ReplyLine, Codes, FtpInv, FtpTyped
  <2> QED
    BY <1>1, <2>1, AppendProperties
<1>3. FtpTyped'
  BY <1>1, <1>2 DEF FtpInv, FtpTyped, Counts
<1>4. at \notin OwnSteps \cup BeforeRest \cup {"rest"}
  BY <1>1 DEF FtpInv, InTurn, Marked
<1>5. InTurn' /\ Marked' /\ Placed' /\ Informed'
  BY <1>1, <1>4 DEF FtpInv, InTurn, Marked, Placed, Informed, OwnSteps, BeforeRest,
                    FirstSteps
<1>6. BytesInPlace' /\ ResumeWritten'
  BY <1>1 DEF FtpInv, BytesInPlace, ResumeWritten
<1> QED
  BY <1>3, <1>5, <1>6 DEF FtpInv

(* Between the sessions.                                                   *)
LEMMA FtpBetween ==
  ASSUME FtpInv, Ftp!Retry \/ Ftp!Checked \/ Ftp!Went
  PROVE  FtpInv'
<1>1. /\ at' \in {"connect", "iconnect", "went", "no", "task", "end"}
      /\ held = 0 /\ lost' \in {lost, FALSE}
      /\ \/ UNCHANGED <<ctrl, wire>>
         \/ ctrl' = FALSE /\ wire' = << >>
      /\ UNCHANGED <<server, from, rest, data, dpos, held, total, file, size, resume>>
  <2>1. CASE Ftp!Retry
    BY <2>1 DEF Ftp!Retry, Ftp!ant, Ftp!control, Ftp!channel, Ftp!found,
                FtpInv, Placed
  <2>2. CASE Ftp!Checked
    BY <2>2 DEF Ftp!Checked, Ftp!Charge, Ftp!Hangup, Ftp!channel, Ftp!found,
                FtpInv, Placed
  <2>3. CASE Ftp!Went
    BY <2>3 DEF Ftp!Went, Ftp!Charge, Ftp!Hangup, Ftp!channel, Ftp!found,
                FtpInv, Placed
  <2> QED
    BY <2>1, <2>2, <2>3
<1>2. FtpTyped'
  BY <1>1, EmptySeq DEF FtpInv, FtpTyped, Counts
<1>3. InTurn' /\ Marked' /\ Placed' /\ Informed'
  BY <1>1 DEF FtpInv, InTurn, Marked, Placed, Informed, OwnSteps, BeforeRest,
              FirstSteps, LaterSteps
<1>4. BytesInPlace' /\ ResumeWritten'
  BY <1>1 DEF FtpInv, BytesInPlace, ResumeWritten
<1> QED
  BY <1>2, <1>3, <1>4 DEF FtpInv

(* Bytes arrive.                                                           *)
LEMMA FtpTransfer ==
  ASSUME FtpInv, Ftp!Transfer
  PROVE  FtpInv'
<1>1. /\ Fetch /\ Counts /\ at = "data"
      /\ UNCHANGED <<server, from, lost, ctrl, wire, rest, size, resume>>
  <2>1. /\ Ftp!Receive \/ Ftp!DataEnds \/ Ftp!DataLost
        /\ UNCHANGED <<server, from, lost, ctrl, wire, rest, size, resume>>
    BY DEF Ftp!Transfer, Ftp!ant, Ftp!control, Ftp!found
  <2>2. Receive \/ DataEnds \/ DataLost
    BY <2>1 DEF Ftp!Receive, Ftp!DataEnds, Ftp!DataLost, Receive, DataEnds, DataLost,
                Ftp!WriteData, Ftp!Ends, Ftp!CountedBytes, Ftp!GoResult, Ftp!Piece,
                Ftp!Results, WriteData, Ends, CountedBytes, GoResult, Piece, Results
  <2>3. at = "data" /\ Counts
    BY <2>2 DEF Receive, DataEnds, DataLost, FtpInv, FtpTyped
  <2> QED
    BY <2>1, <2>2, <2>3 DEF Fetch
<1>2. /\ Counts' /\ at' \in {"data", "retry", "went"}
      /\ at' # "data" => held' = 0
      /\ at' = "data" => data = "sending" /\ UNCHANGED data
      /\ at' = "data" /\ InStep => InStep'
  BY <1>1, FetchSteps
<1>3. data = "sending" \/ held # 0 => InStep
  BY <1>1 DEF FtpInv, Placed
<1>4. BytesInPlace' /\ ResumeWritten'
  BY <1>1, <1>3, FetchInPlace, FetchWritten DEF FtpInv
<1>5. FtpTyped'
  BY <1>1, <1>2 DEF FtpInv, FtpTyped
<1>6. Placed'
  BY <1>1, <1>2, <1>3 DEF Placed
<1>7. InTurn' /\ Marked' /\ Informed'
  BY <1>1, <1>2 DEF FtpInv, InTurn, Marked, Informed, OwnSteps, BeforeRest,
                    FirstSteps, LaterSteps
<1> QED
  BY <1>4, <1>5, <1>6, <1>7 DEF FtpInv

(* The invariant of the sessions by FTP holds at the start ...              *)
LEMMA FtpStarts ==
  ASSUME Ftp!Init
  PROVE  FtpInv
<1>1. FtpTyped
  BY EmptySeq DEF Ftp!Init, FtpTyped, Counts
<1>2. BytesInPlace /\ ResumeWritten
  BY DEF Ftp!Init, BytesInPlace, ResumeWritten
<1> QED
  BY <1>1, <1>2 DEF Ftp!Init, FtpInv, InTurn, Marked, Placed, Informed, OwnSteps,
     BeforeRest, FirstSteps, LaterSteps, Ftp!None

(* ... and every step keeps it.                                            *)
LEMMA FtpSteps ==
  ASSUME Ftp!FtpSessionAssumption, FtpInv, [Ftp!Next]_Ftp!vars
  PROVE  FtpInv'
<1>1. CASE UNCHANGED Ftp!vars
  BY <1>1 DEF Ftp!vars, Ftp!ant, Ftp!session, Ftp!control, Ftp!channel, Ftp!found,
     FtpInv, FtpTyped, Counts, InStep, InTurn, Marked, Placed, Informed, BytesInPlace,
     ResumeWritten, ResumeAt
<1>2. CASE Ftp!Next
  BY <1>1, <1>2, FtpGetTask, FtpConnect, FtpAnswered, FtpUnanswered,
     FtpDataConnect, FtpReadListing, FtpBetween, FtpTransfer, FtpListingSent
     DEF Ftp!Next, Ftp!Client, Ftp!Quit
<1> QED
  BY <1>1, <1>2

(* The invariant of the sessions by FTP.                                   *)
LEMMA FtpInvariant ==
  ASSUME Ftp!FtpSessionAssumption
  PROVE  Ftp!Spec => []FtpInv
<1>1. Ftp!Init => FtpInv
  BY FtpStarts
<1>2. FtpInv /\ [Ftp!Next]_Ftp!vars => FtpInv'
  BY FtpSteps
<1> QED
  BY <1>1, <1>2, PTL DEF Ftp!Spec

(* By FTP every byte is written at its place, however often a session is   *)
(* broken off and resumed: RETR follows a REST that was granted for the    *)
(* place of the buffer, or starts at the beginning when that is the place. *)
THEOREM FtpBytesInPlace ==
  ASSUME Ftp!FtpSessionAssumption
  PROVE  Ftp!Spec => []BytesInPlace
<1>1. FtpInv => BytesInPlace
  BY DEF FtpInv
<1> QED
  BY <1>1, FtpInvariant, PTL

(* By FTP a session never resumes behind bytes that were not written.      *)
THEOREM FtpResumeWritten ==
  ASSUME Ftp!FtpSessionAssumption
  PROVE  Ftp!Spec => []ResumeWritten
<1>1. FtpInv => ResumeWritten
  BY DEF FtpInv
<1> QED
  BY <1>1, FtpInvariant, PTL

(* It tells what GetInfo of CMgFtpInfo reports.                            *)
LEMMA FtpTold ==
  ASSUME FtpInv
  PROVE  Ftp!InfoTrue
BY DEF FtpInv, Informed, LaterSteps, Ftp!InfoTrue, Ftp!None

(* What GetInfo of CMgFtpInfo tells about REST and the length is so.       *)
THEOREM FtpInfoTrue ==
  ASSUME Ftp!FtpSessionAssumption
  PROVE  Ftp!Spec => []Ftp!InfoTrue
<1>1. FtpInv => Ftp!InfoTrue
  BY FtpTold
<1> QED
  BY <1>1, FtpInvariant, PTL
-----------------------------------------------------------------------------
(* HttpSession.                                                            *)

(* The buffer of a header: its lines, then what an earlier header left.    *)
LEMMA FilledBuffer ==
  ASSUME NEW old \in Seq(Http!HeadLine), NEW h \in Seq(Http!HeadLine)
  PROVE  LET b == Http!Filled(old, h)
         IN b \in Seq(Http!HeadLine)
<1> DEFINE spoiled == [key |-> "other"]
           tail == SubSeq(old, Len(h) + 2, Len(old))
           left == <<spoiled>> \o tail
           b == h \o left
<1>1. /\ Len(old) \in Nat /\ Len(h) \in Nat
      /\ spoiled \in Http!HeadLine /\ spoiled.key = "other"
  BY DEF Http!HeadLine
<1> HIDE DEF spoiled
<1>2. CASE ~(Len(old) > Len(h))
  <2>1. Http!Filled(old, h) = h \o << >>
    BY <1>2 DEF Http!Filled
  <2>2. Http!Filled(old, h) = h
    BY <2>1, ConcatEmptySeq
  <2> QED
    BY <2>2
<1>3. CASE Len(old) > Len(h)
  <2>1. Http!Filled(old, h) = b
    BY <1>3 DEF Http!Filled, spoiled
  <2>2. tail \in Seq(Http!HeadLine)
    <3>1. \A i \in Len(h) + 2 .. Len(old) : old[i] \in Http!HeadLine
      BY <1>1
    <3> QED
      BY <1>1, <3>1, SubSeqProperties
  <2> HIDE DEF tail
  <2>3. <<spoiled>> \in Seq(Http!HeadLine)
    BY <1>1
  <2>4. left \in Seq(Http!HeadLine)
    BY <2>2, <2>3, ConcatProperties
  <2> HIDE DEF left
  <2>5. b \in Seq(Http!HeadLine)
    BY <2>4, ConcatProperties
  <2> QED
    BY <2>1, <2>5
<1> QED
  BY <1>2, <1>3

(* The last item of a kind is a line of the buffer.                        *)
LEMMA LastIsThere ==
  ASSUME NEW b \in Seq(Http!HeadLine), NEW key, Http!Items(b, key) # {}
  PROVE  \E i \in 1 .. Len(b) :
           /\ b[i] \in Http!HeadLine /\ b[i].key = key
           /\ Http!LastItem(b, key) = b[i].value
<1> DEFINE I == Http!Items(b, key)
           last == CHOOSE i \in I : \A j \in I : j <= i
<1>1. I \subseteq 1 .. Len(b) /\ Len(b) \in Nat
  BY DEF Http!Items
<1>2. last \in I
  <2> HIDE DEF I
  <2> QED
    BY <1>1, LastOf DEF I
<1>3. last \in 1 .. Len(b) /\ b[last].key = key
  BY <1>2 DEF Http!Items
<1>4. Http!LastItem(b, key) = b[last].value
  BY DEF Http!LastItem
<1> HIDE DEF last
<1>5. b[last] \in Http!HeadLine
  BY <1>3
<1> QED
  BY <1>3, <1>4, <1>5

StatusCodes == {-1} \cup 100 .. 599

(* A status read behind the header is one, ...                             *)
LEMMA StatusTold ==
  ASSUME NEW b \in Seq(Http!HeadLine), NEW c \in StatusCodes
  PROVE  Http!Status(c, b) \in StatusCodes
<1>1. CASE Http!Items(b, "status") = {}
  BY <1>1 DEF Http!Status
<1>2. CASE Http!Items(b, "status") # {}
  <2>1. PICK i \in 1 .. Len(b) :
          /\ b[i] \in Http!HeadLine /\ b[i].key = "status"
          /\ Http!LastItem(b, "status") = b[i].value
    BY <1>2, LastIsThere
  <2>2. b[i].value \in 100 .. 599
    BY <2>1 DEF Http!HeadLine
  <2> QED
    BY <1>2, <2>1, <2>2 DEF Http!Status, StatusCodes
<1> QED
  BY <1>1, <1>2

(* ... and so are a length and a place.                                    *)
LEMMA LengthTold ==
  ASSUME NEW b \in Seq(Http!HeadLine)
  PROVE  Http!Length(b) \in Nat \cup {-1}
<1>1. CASE Http!Items(b, "length") # {}
  <2>1. PICK i \in 1 .. Len(b) :
          /\ b[i] \in Http!HeadLine /\ b[i].key = "length"
          /\ Http!LastItem(b, "length") = b[i].value
    BY <1>1, LastIsThere
  <2>2. b[i].value \in Nat
    BY <2>1 DEF Http!HeadLine
  <2> QED
    BY <1>1, <2>1, <2>2 DEF Http!Length
<1>2. CASE Http!Items(b, "length") = {}
  BY <1>2 DEF Http!Length, Http!None
<1> QED
  BY <1>1, <1>2

LEMMA PlaceTold ==
  ASSUME NEW b \in Seq(Http!HeadLine), Http!Items(b, "location") # {}
  PROVE  Http!LastItem(b, "location") \in Urls
<1>1. PICK i \in 1 .. Len(b) :
        /\ b[i] \in Http!HeadLine /\ b[i].key = "location"
        /\ Http!LastItem(b, "location") = b[i].value
  BY LastIsThere
<1>2. b[i].value \in Urls
  BY <1>1 DEF Http!HeadLine
<1> QED
  BY <1>1, <1>2

HttpTyped ==
  /\ Counts /\ url \in Urls /\ target \in Urls
  /\ buf \in Seq(Http!HeadLine)

Underway ==
  /\ at # "data" => held = 0
  /\ at = "data" => data = "sending" /\ (url \in Ranges => InStep)

HttpInv == HttpTyped /\ Underway /\ ResumeWritten

(* What a step that reads a reply reads, whatever lies behind the header.  *)
LEMMA ReplyRead ==
  ASSUME Http!HttpSessionAssumption, HttpTyped, Http!Replied
  PROVE  \E b \in Seq(Http!HeadLine), c \in StatusCodes :
           /\ size' = Http!Length(b)
           /\ redirect' = (redirect \/ Http!Items(b, "location") # {})
           /\ target' = IF Http!Items(b, "location") # {}
                        THEN Http!LastItem(b, "location") ELSE target
           /\ retry' = IF c # Http!None /\ Http!Refused(c)
                       THEN Http!Spent(retry) ELSE retry
           /\ at' = Http!Judged(c, b, Http!More(retry'), redirect')
           /\ buf' \in Seq(Http!HeadLine)
<1>1. PICK r \in Replies[url], old \in Http!Under :
        LET b == Http!Filled(old, r.head)
            c == Http!Status(r.code, b)
            located == Http!Items(b, "location") # {}
        IN /\ reply' = r
           /\ size' = Http!Length(b)
           /\ redirect' = (redirect \/ located)
           /\ target' = IF located THEN Http!LastItem(b, "location") ELSE target
           /\ retry' = IF c # Http!None /\ Http!Refused(c) THEN Http!Spent(retry) ELSE retry
           /\ at' = Http!Judged(c, b, Http!More(retry'), redirect')
           /\ IF at' = "get" /\ at = "head" THEN buf' \in Stack ELSE buf' = b
  BY DEF Http!Replied, Http!Answers
<1> DEFINE b == Http!Filled(old, r.head)
           c == Http!Status(r.code, b)
<1>2. /\ r.head \in Seq(Http!HeadLine) /\ r.code \in StatusCodes
      /\ Stack \subseteq Seq(Http!HeadLine) /\ buf \in Seq(Http!HeadLine)
  BY DEF Http!HttpSessionAssumption, Http!IsReply, HttpTyped, StatusCodes
<1>3. old \in Seq(Http!HeadLine)
  BY <1>2 DEF Http!Under
<1>4. b \in Seq(Http!HeadLine)
  BY <1>2, <1>3, FilledBuffer
<1>5. c \in StatusCodes
  <2> HIDE DEF b
  <2> QED
    BY <1>2, <1>4, StatusTold
<1>6. buf' \in Seq(Http!HeadLine)
  <2>1. buf' \in Stack \/ buf' = b
    BY <1>1
  <2> HIDE DEF b
  <2> QED
    BY <1>2, <1>4, <2>1
<1>7. /\ size' = Http!Length(b)
      /\ redirect' = (redirect \/ Http!Items(b, "location") # {})
      /\ target' = IF Http!Items(b, "location") # {}
                   THEN Http!LastItem(b, "location") ELSE target
      /\ retry' = IF c # Http!None /\ Http!Refused(c) THEN Http!Spent(retry) ELSE retry
      /\ at' = Http!Judged(c, b, Http!More(retry'), redirect')
  BY <1>1
<1> HIDE DEF b, c
<1> QED
  BY <1>4, <1>5, <1>6, <1>7

(* A reply is judged: a code is of one kind.                               *)
LEMMA CodeIs ==
  ASSUME NEW c \in StatusCodes
  PROVE  /\ c = Http!None \/ Http!Refused(c) \/ Http!OK(c) \/ Http!Moved(c)
         /\ c = Http!None \/ Http!Refused(c) => ~Http!OK(c) /\ ~Http!Moved(c)
BY DEF StatusCodes, Http!None, Http!Refused, Http!OK, Http!Moved

(* A reply is received, parsed and judged.                                 *)
LEMMA HttpReplied ==
  ASSUME Http!HttpSessionAssumption, HttpInv, Http!Replied
  PROVE  HttpInv'
<1>1. PICK b \in Seq(Http!HeadLine), c \in StatusCodes :
        /\ target' = IF Http!Items(b, "location") # {}
                     THEN Http!LastItem(b, "location") ELSE target
        /\ at' = Http!Judged(c, b, Http!More(retry'), redirect')
        /\ buf' \in Seq(Http!HeadLine)
  BY ReplyRead DEF HttpInv
<1>2. /\ at \in {"head", "get"}
      /\ UNCHANGED <<url, from, total, held, data, dpos, file>>
  BY DEF Http!Replied, Http!piece
<1>3. url \in Urls /\ target \in Urls /\ Counts
  BY DEF HttpInv, HttpTyped
<1>4. at' \in {"head", "get", "yes", "no"}
  <2> DEFINE again == Http!More(retry')
             moved == redirect'
  <2>1. at' = Http!Judged(c, b, again, moved)
    BY <1>1
  <2> HIDE DEF again, moved
  <2>2. CASE c = Http!None \/ Http!Refused(c)
    <3>1. ~Http!OK(c) /\ ~Http!Moved(c)
      BY <2>2, CodeIs
    <3> QED
      BY <1>2, <2>1, <2>2, <3>1 DEF Http!Judged
  <2>3. CASE ~(c = Http!None \/ Http!Refused(c))
    <3>1. Http!OK(c) \/ Http!Moved(c)
      BY <2>3, CodeIs
    <3> QED
      BY <1>2, <2>1, <2>3, <3>1 DEF Http!Judged
  <2> QED
    BY <2>2, <2>3
<1>5. target' \in Urls
  BY <1>1, <1>3, PlaceTold
<1>6. HttpTyped'
  BY <1>1, <1>2, <1>3, <1>5 DEF HttpTyped, Counts
<1>7. Underway'
  BY <1>2, <1>4 DEF HttpInv, Underway
<1>8. ResumeWritten'
  BY <1>2 DEF HttpInv, ResumeWritten
<1> QED
  BY <1>6, <1>7, <1>8 DEF HttpInv

(* The steps that neither take a piece nor touch the file.                 *)
Idles ==
  \/ Http!InitUrl \/ Http!NoConnection \/ Http!NoHeader \/ Http!InitInformed
  \/ Http!InitFails \/ Http!Checked \/ Http!Retry \/ Http!Went

(* They keep the invariant.                                                *)
LEMMA HttpIdles ==
  ASSUME Http!HttpSessionAssumption, HttpInv, Idles
  PROVE  HttpInv'
<1>1. /\ at' \in {"head", "get", "no", "ftp", "url", "ask", "end", "connect", "went"}
      /\ held = 0 /\ at # "data"
      /\ url' \in {url, target} /\ target' \in {url, target}
      /\ buf' \in {buf} \cup Stack
      /\ UNCHANGED <<from, total, held, data, dpos, file>>
  <2>1. CASE Http!InitUrl
    BY <2>1 DEF Http!InitUrl, Http!NewInfo, Http!info, Http!piece,
                HttpInv, Underway
  <2>2. CASE Http!NoConnection
    BY <2>2 DEF Http!NoConnection, Http!info, Http!piece, HttpInv, Underway
  <2>3. CASE Http!NoHeader
    BY <2>3 DEF Http!NoHeader, Http!info, Http!piece, HttpInv, Underway
  <2>4. CASE Http!InitInformed
    BY <2>4 DEF Http!InitInformed, Http!info, Http!piece, HttpInv, Underway
  <2>5. CASE Http!InitFails
    BY <2>5 DEF Http!InitFails, Http!info, Http!piece, HttpInv, Underway
  <2>6. CASE Http!Checked
    BY <2>6 DEF Http!Checked, Http!Charge, Http!NewInfo, Http!Goes, Http!info,
                Http!piece, HttpInv, Underway
  <2>7. CASE Http!Retry
    <3>1. /\ at = "retry" /\ at' \in {"connect", "went"}
          /\ url' = url /\ target' = target /\ buf' = buf
          /\ UNCHANGED <<from, total, held, data, dpos, file>>
      BY <2>7 DEF Http!Retry, Http!info, Http!piece
    <3>2. held = 0
      BY <3>1 DEF HttpInv, Underway
    <3> QED
      BY <3>1, <3>2
  <2>8. CASE Http!Went
    BY <2>8 DEF Http!Went, Http!Charge, Http!info, Http!piece, HttpInv, Underway
  <2> QED
    BY <2>1, <2>2, <2>3, <2>4, <2>5, <2>6, <2>7, <2>8 DEF Idles
<1>2. HttpInv'
  <2>1. HttpTyped'
    BY <1>1 DEF HttpInv, HttpTyped, Counts, Http!HttpSessionAssumption
  <2>2. Underway'
    BY <1>1 DEF HttpInv, Underway
  <2>3. ResumeWritten'
    BY <1>1 DEF HttpInv, ResumeWritten
  <2> QED
    BY <2>1, <2>2, <2>3 DEF HttpInv
<1> QED
  BY <1>2

(* A piece is taken.                                                       *)
LEMMA HttpGetTask ==
  ASSUME Http!HttpSessionAssumption, HttpInv, Http!GetTask
  PROVE  HttpInv'
<1>1. /\ from' \in 0 .. FileLen /\ total' = 0 /\ held' = 0
      /\ UNCHANGED <<data, dpos, file>>
      /\ at' \in {"head", "connect"} /\ url' \in Urls \ FtpUrls
      /\ target' \in Urls /\ buf' \in {buf} \cup Stack
  BY DEF Http!GetTask, Http!NewInfo, Http!Goes, Http!info, HttpInv,
         HttpTyped
<1>2. from' \in Nat
  BY <1>1, GetDataAssumption
<1>3. HttpTyped'
  BY <1>1, <1>2 DEF HttpInv, HttpTyped, Counts, Http!HttpSessionAssumption
<1>4. Underway' /\ ResumeWritten'
  BY <1>1 DEF Underway, ResumeWritten
<1> QED
  BY <1>3, <1>4 DEF HttpInv

(* The file is asked for.                                                  *)
LEMMA HttpAsked ==
  ASSUME HttpInv, Http!Asked
  PROVE  HttpInv'
<1>1. /\ at = "connect" /\ at' \in {"retry", "data"}
      /\ UNCHANGED <<url, target, buf, from, total, held, file>>
      /\ \/ at' = "retry" /\ UNCHANGED dpos
         \/ /\ dpos' = IF url \in Ranges THEN ResumeAt ELSE 0
            /\ data' = "sending"
  BY DEF Http!Asked, Http!SendHttpGetRequest, Http!GetHead, Http!info,
         Http!ResumeAt, ResumeAt
<1>2. held = 0 /\ from \in Nat /\ total \in Nat
  BY <1>1 DEF HttpInv, HttpTyped, Underway, Counts
<1>3. HttpTyped'
  BY <1>1 DEF HttpInv, HttpTyped, Counts, ResumeAt
<1>4. Underway'
  BY <1>1, <1>2 DEF Underway, InStep, ResumeAt
<1>5. ResumeWritten'
  BY <1>1 DEF HttpInv, ResumeWritten
<1> QED
  BY <1>3, <1>4, <1>5 DEF HttpInv

(* Bytes arrive.                                                           *)
LEMMA HttpTransfer ==
  ASSUME HttpInv, Http!Transfer
  PROVE  HttpInv'
<1>1. /\ Fetch /\ Counts /\ at = "data"
      /\ UNCHANGED <<url, target, buf>>
  <2>1. /\ Http!Receive \/ Http!DataEnds \/ Http!DataLost
        /\ UNCHANGED <<url, target, buf, from>>
    BY DEF Http!Transfer, Http!info
  <2>2. Receive \/ DataEnds \/ DataLost
    BY <2>1 DEF Http!Receive, Http!DataEnds, Http!DataLost, Receive, DataEnds, DataLost,
                Http!WriteData, Http!Ends, Http!CountedBytes, Http!GoResult, Http!Piece,
                Http!Results, WriteData, Ends, CountedBytes, GoResult, Piece, Results
  <2>3. at = "data" /\ Counts
    BY <2>2 DEF Receive, DataEnds, DataLost, HttpInv, HttpTyped
  <2> QED
    BY <2>1, <2>2, <2>3 DEF Fetch
<1>2. /\ Counts' /\ at' \in {"data", "retry", "went"}
      /\ at' # "data" => held' = 0
      /\ at' = "data" => data = "sending" /\ UNCHANGED data
      /\ at' = "data" /\ InStep => InStep'
  BY <1>1, FetchSteps
<1>3. HttpTyped' /\ Underway'
  BY <1>1, <1>2 DEF HttpInv, HttpTyped, Underway
<1>4. ResumeWritten'
  BY <1>1, FetchWritten DEF HttpInv
<1> QED
  BY <1>3, <1>4 DEF HttpInv

(* The invariant holds at the start ...                                    *)
LEMMA HttpStarts ==
  ASSUME Http!HttpSessionAssumption, Http!Init
  PROVE  HttpInv
<1>1. HttpTyped
  BY DEF Http!HttpSessionAssumption, Http!Init, HttpTyped, Counts
<1>2. Underway /\ ResumeWritten
  BY DEF Http!Init, Underway, ResumeWritten
<1> QED
  BY <1>1, <1>2 DEF HttpInv

(* ... and every step keeps it.                                            *)
LEMMA HttpSteps ==
  ASSUME Http!HttpSessionAssumption, HttpInv, [Http!Next]_Http!vars
  PROVE  HttpInv'
<1>1. CASE UNCHANGED Http!vars
  <2>1. UNCHANGED <<at, url, buf, redirect, target, size, reply, from, total, held,
                    data, dpos, file>>
    BY <1>1 DEF Http!vars, Http!info, Http!piece
  <2> QED
    BY <2>1 DEF HttpInv, HttpTyped, Counts, Underway, InStep, ResumeWritten
<1>2. CASE Http!Next
  <2>1. \/ Idles \/ Http!Replied \/ Http!GetTask \/ Http!Asked \/ Http!Transfer
        \/ UNCHANGED Http!vars
    BY <1>2 DEF Http!Next, Http!Thread, Http!Stop, Idles
  <2> QED
    BY <1>1, <2>1, HttpIdles, HttpReplied, HttpGetTask, HttpAsked, HttpTransfer
<1> QED
  BY <1>1, <1>2

(* Sessions by HTTP never resume behind bytes that were not written.       *)
THEOREM HttpResumeWritten ==
  ASSUME Http!HttpSessionAssumption
  PROVE  Http!Spec => []ResumeWritten
<1>1. Http!Init => HttpInv
  BY HttpStarts
<1>2. HttpInv /\ [Http!Next]_Http!vars => HttpInv'
  BY HttpSteps
<1>3. HttpInv => ResumeWritten
  BY DEF HttpInv
<1> QED
  BY <1>1, <1>2, <1>3, PTL DEF Http!Spec

(* A step that writes writes the bytes of one connection: only GetData     *)
(* does, from data on.                                                     *)
LEMMA WritesInPlace ==
  ASSUME HttpInv, [Http!Next]_Http!vars, url \in Ranges, NEW b \in file' \ file
  PROVE  b[1] = b[2]
<1>1. Http!Transfer
  BY DEF Http!Next, Http!Thread, Http!Stop, Http!InitUrl, Http!NoConnection,
         Http!NoHeader, Http!Replied, Http!InitInformed, Http!InitFails, Http!GetTask,
         Http!Checked, Http!Asked, Http!Retry, Http!Went, Http!piece, Http!vars
<1>2. Fetch /\ Counts /\ at = "data"
  <2>1. Http!Receive \/ Http!DataEnds \/ Http!DataLost
    BY <1>1 DEF Http!Transfer
  <2>2. Receive \/ DataEnds \/ DataLost
    BY <2>1 DEF Http!Receive, Http!DataEnds, Http!DataLost, Receive, DataEnds, DataLost,
                Http!WriteData, Http!Ends, Http!CountedBytes, Http!GoResult, Http!Piece,
                Http!Results, WriteData, Ends, CountedBytes, GoResult, Piece, Results
  <2> QED
    BY <1>1, <2>2 DEF Fetch, Http!Transfer, Receive, DataEnds, DataLost, HttpInv, HttpTyped
<1>3. InStep
  BY <1>2 DEF HttpInv, Underway
<1>4. PICK n \in Nat : file' = file \cup Piece(n) /\ dpos' = dpos + (n - held)
  BY <1>2, FetchWrites
<1>5. PICK i \in 0 .. n - 1 : b = <<from + total + i, dpos' - n + i>>
  BY <1>4 DEF Piece
<1>6. from + total + i = dpos' - n + i
  BY <1>2, <1>3, <1>4 DEF InStep, Counts
<1> QED
  BY <1>5, <1>6

(* By HTTP a byte is written at a wrong place only while the server of the *)
(* ant's URL ignores Range (a 200 to a request from the middle of the file *)
(* is as good as a 206), whatever is redirected, refused, lost or retried. *)
THEOREM HttpInPlace ==
  ASSUME Http!HttpSessionAssumption
  PROVE  Http!Spec => Http!InPlaceByRange
<1>1. Http!Init => HttpInv
  BY HttpStarts
<1>2. HttpInv /\ [Http!Next]_Http!vars => HttpInv'
  BY HttpSteps
<1>3. HttpInv /\ [Http!Next]_Http!vars
        => [\A b \in file' \ file : url \in Ranges => b[1] = b[2]]_Http!vars
  BY WritesInPlace
<1> QED
  BY <1>1, <1>2, <1>3, PTL DEF Http!Spec, Http!InPlaceByRange
-----------------------------------------------------------------------------
(* The answers of a proxy and, behind a grant, of the server.              *)
ProxyAnswers ==
  ({"hello", "login", "connect5", "connect4"} \X {"open", "login", "none", "ok", "fail"})
    \cup {<<"server", "ok">>}
ProxyBytes == ProxyAnswers \X {1, 2}

ServersByte(b) == b[1][1] = "server"

(* An answer is waiting to be read, alone or with bytes of the server      *)
(* behind it.                                                              *)
Waiting(a) ==
  /\ Len(in) \in {2, 4} /\ in[1] = <<a, 1>> /\ in[2] = <<a, 2>>
  /\ Len(in) = 4 => /\ ServersByte(in[3]) /\ ServersByte(in[4])
                    /\ state = "relay" /\ proxy.speaks

(* The proxy did not understand, and closed; the end of an earlier answer  *)
(* may be left.                                                            *)
Dropped ==
  /\ state = "none" /\ closed /\ Len(in) <= 1
  /\ \A i \in DOMAIN in : in[i][1][1] \in {"hello", "login"}

(* A rejected request, and a granted one.                                  *)
Rejected(request) ==
  Waiting(<<request, "fail">>) /\ state = "none" /\ ~proxy.reaches
Granted(request) == Waiting(<<request, "ok">>) /\ state = "relay"

(* What is to be read where an answer is awaited.                          *)
Hello ==
  /\ version \in {"AUTOVERSION", "V5"}
  /\ \/ proxy.v5 = "none" /\ Dropped
     \/ proxy.v5 = "open" /\ Waiting(<<"hello", "open">>) /\ state = "request" /\ ~closed
     \/ proxy.v5 = "login" /\ Waiting(<<"hello", "login">>) /\ state = "login" /\ ~closed
     \/ proxy.v5 = "other" /\ Waiting(<<"hello", "none">>) /\ state = "none"
Login ==
  /\ version \in {"AUTOVERSION", "V5"} /\ proxy.v5 = "login"
  /\ \/ proxy.knows /\ Waiting(<<"login", "ok">>) /\ state = "request" /\ ~closed
     \/ ~proxy.knows /\ Waiting(<<"login", "fail">>) /\ state = "none"
Connect5 ==
  /\ version \in {"AUTOVERSION", "V5"}
  /\ Granted("connect5") \/ Rejected("connect5")
Connect4(v) ==
  \/ version = v /\ (Granted("connect4") \/ Rejected("connect4"))
  \/ /\ version = v /\ ~Proxy!Speaks(v)
     /\ Dropped \/ (Waiting(<<"connect4", "fail">>) /\ state = "none")
  \/ version = "AUTOVERSION" /\ Dropped

(* Without trouble a proxy that gives the connection is not given up.      *)
Obliging == ~trouble /\ proxy.reaches /\ ~proxy.speaks /\ Proxy!Speaks(version)

ProxyTyped ==
  /\ proxy \in Proxies /\ version \in Proxy!Versions
  /\ at \in Proxy!Unanswered \cup {"start", "yes", "no"}
  /\ open \in BOOLEAN /\ closed \in BOOLEAN /\ trouble \in BOOLEAN
  /\ state \in {"fresh", "login", "request", "relay", "none"}
  /\ (\A b \in eaten : ServersByte(b)) /\ in \in Seq(ProxyBytes) /\ Len(in) <= 4
Awaited ==
  /\ at = "start" => in = << >> /\ state = "fresh" /\ ~closed /\ eaten = {}
  /\ at \in Proxy!Unanswered => open /\ eaten = {}
  /\ at = "hello" => Hello
  /\ at = "login" => Login
  /\ at = "connect5" => Connect5
  /\ at = "connect4a" => Connect4("V4A")
  /\ at = "connect4" => Connect4("V4")
Quiet == (\A i \in DOMAIN in : ~ServersByte(in[i])) => Len(in) <= 2
Persistent ==
  at = "no" \/ (at \in {"connect4a", "connect4"} /\ version = "AUTOVERSION") => ~Obliging

(* The inductive invariant of the talk with a proxy.                       *)
ProxyInv == ProxyTyped /\ Awaited /\ Quiet /\ Persistent /\ Proxy!YesIsGranted

(* Waiting and Dropped after a step.                                       *)
Arrives(s, a) == s = <<<<a, 1>>, <<a, 2>>>>

(* Two bytes arrive for an answer, none for no answer.                     *)
LEMMA AnswerBytes ==
  Proxy!Bytes(<< >>) = << >> /\ \A a : Arrives(Proxy!Bytes(<<a>>), a)
<1>1. Proxy!Bytes(<< >>) = << >>
  BY DEF Proxy!Bytes
<1>2. ASSUME NEW a PROVE Arrives(Proxy!Bytes(<<a>>), a)
  <2>1. <<a>> # << >> /\ <<a>>[1] = a
    OBVIOUS
  <2> QED
    BY <2>1 DEF Proxy!Bytes, Arrives
<1> QED
  BY <1>1, <1>2

(* What is left after n bytes were read.                                   *)
LEMMA ReadSome ==
  ASSUME in \in Seq(ProxyBytes), NEW n \in 1 .. Len(in),
         NEW left, left = Proxy!Left(n)
  PROVE  /\ left \in Seq(ProxyBytes) /\ Len(left) = Len(in) - n
         /\ \A i \in 1 .. Len(in) - n : left[i] = in[n + i]
BY DEF Proxy!Left

(* A request that is dropped, ...                                          *)
LEMMA SentInVain ==
  ASSUME NEW q, NEW left \in Seq(ProxyBytes), Proxy!Send(q, left),
         closed \/ Proxy!Respond(q) = Proxy!Drops
  PROVE  at' = q /\ in' = left /\ state' = "none" /\ closed' = TRUE
<1> DEFINE r == IF closed THEN Proxy!Drops ELSE Proxy!Respond(q)
<1>a. r = Proxy!Drops
  BY Zenon
<1>b. at' = q /\ in' = left \o Proxy!Bytes(r.answer) /\ state' = r.state /\ closed' = r.closed
  BY Zenon DEF Proxy!Send
<1>1. at' = q /\ in' = left \o Proxy!Bytes(<< >>) /\ state' = "none" /\ closed' = TRUE
  <2> HIDE DEF r
  <2>1. r.answer = << >> /\ r.state = "none" /\ r.closed = TRUE
    BY <1>a DEF Proxy!Drops
  <2> QED
    BY <1>b, <2>1, Zenon
<1>2. left \o << >> = left
  OBVIOUS
<1>3. Proxy!Bytes(<< >>) = << >>
  BY AnswerBytes
<1>4. in' = left
  BY <1>1, <1>2, <1>3, Zenon
<1> QED
  BY <1>1, <1>4

(* ... and one that is answered.                                           *)
LEMMA SentAnswered ==
  ASSUME NEW q, NEW a, NEW s, NEW c, Proxy!Send(q, << >>), ~closed,
         Proxy!Respond(q) = [answer |-> <<a>>, state |-> s, closed |-> c]
  PROVE  at' = q /\ state' = s /\ closed' = c /\ Arrives(in', a)
<1>1. /\ at' = q /\ in' = << >> \o Proxy!Bytes(<<a>>) /\ state' = s /\ closed' = c
  BY DEF Proxy!Send
<1>2. Arrives(Proxy!Bytes(<<a>>), a)
  BY AnswerBytes
<1>3. << >> \o <<<<a, 1>>, <<a, 2>>>> = <<<<a, 1>>, <<a, 2>>>>
  OBVIOUS
<1> QED
  BY <1>1, <1>2, <1>3 DEF Arrives

(* A proxy that has dropped or rejected a request, or waits for another    *)
(* one than the first, drops the requests of version 4.                    *)
LEMMA RespondsNot ==
  /\ state = "none" => \A q : Proxy!Respond(q) = Proxy!Drops
  /\ state # "fresh" => \A q \in {"connect4a", "connect4"} : Proxy!Respond(q) = Proxy!Drops
<1>1. ASSUME state = "none", NEW q PROVE Proxy!Respond(q) = Proxy!Drops
  BY <1>1, SMTT(20) DEF Proxy!Respond
<1>2. ASSUME state # "fresh", NEW q \in {"connect4a", "connect4"}
      PROVE  Proxy!Respond(q) = Proxy!Drops
  BY <1>2, SMTT(20) DEF Proxy!Respond
<1> QED
  BY <1>1, <1>2

(* What is waiting while an answer is awaited: at most the third and the   *)
(* fourth byte are the server's, and then the proxy has granted.           *)
Unheard ==
  /\ open /\ eaten = {}
  /\ \A i \in DOMAIN in : i <= 2 => ~ServersByte(in[i])
  /\ Len(in) > 2 => /\ Len(in) = 4 /\ ServersByte(in[3]) /\ ServersByte(in[4])
                    /\ state = "relay" /\ proxy.speaks

(* What is read from is a sequence of at most two answers.                 *)
LEMMA BytesTyped ==
  ASSUME ProxyTyped
  PROVE  in \in Seq(ProxyBytes) /\ Len(in) \in 0 .. 4 /\ DOMAIN in = 1 .. Len(in)
<1>1. in \in Seq(ProxyBytes) /\ Len(in) <= 4
  BY DEF ProxyTyped
<1>2. Len(in) \in Nat /\ DOMAIN in = 1 .. Len(in)
  BY <1>1, LenProperties
<1> QED
  BY <1>1, <1>2

(* While an answer of the proxy is awaited, the server is not heard, ...   *)
LEMMA WaitingUnheard ==
  ASSUME ProxyTyped, open, eaten = {},
         NEW r \in {"hello", "login", "connect5", "connect4"}, NEW w, Waiting(<<r, w>>)
  PROVE  Unheard
<1>1. ~ServersByte(<<<<r, w>>, 1>>) /\ ~ServersByte(<<<<r, w>>, 2>>)
  BY DEF ServersByte
<1>2. /\ Len(in) \in {2, 4} /\ ~ServersByte(in[1]) /\ ~ServersByte(in[2])
      /\ Len(in) = 4 => /\ ServersByte(in[3]) /\ ServersByte(in[4])
                        /\ state = "relay" /\ proxy.speaks
  BY <1>1, Zenon DEF Waiting
<1>3. DOMAIN in = 1 .. Len(in)
  BY BytesTyped
<1>4. \A i \in DOMAIN in : i <= 2 => i = 1 \/ i = 2
  BY <1>2, <1>3
<1>5. \A i \in DOMAIN in : i <= 2 => ~ServersByte(in[i])
  BY <1>2, <1>4, Zenon
<1>6. Len(in) > 2 => Len(in) = 4
  <2>1. Len(in) = 2 \/ Len(in) = 4
    BY <1>2, Zenon
  <2>2. ~(2 > 2)
    OBVIOUS
  <2> QED
    BY <2>1, <2>2, Zenon
<1> QED
  BY <1>2, <1>5, <1>6, Zenon DEF Unheard

(* ... nor while nothing is left of the connection, ...                    *)
LEMMA DroppedUnheard ==
  ASSUME ProxyTyped, open, eaten = {}, Dropped
  PROVE  Unheard
BY DEF Unheard, Dropped, ServersByte, ProxyTyped

(* ... so it is not heard before the proxy has granted.                    *)
LEMMA Heard ==
  ASSUME ProxyInv, at \in Proxy!Unanswered
  PROVE  Unheard
<1>1. ProxyTyped /\ open /\ eaten = {}
  BY DEF ProxyInv, Awaited
<1>2. CASE at = "hello"
  BY <1>1, <1>2, WaitingUnheard, DroppedUnheard DEF ProxyInv, Awaited, Hello
<1>3. CASE at = "login"
  BY <1>1, <1>3, WaitingUnheard, DroppedUnheard DEF ProxyInv, Awaited, Login
<1>4. CASE at = "connect5"
  BY <1>1, <1>4, WaitingUnheard DEF ProxyInv, Awaited, Connect5, Granted, Rejected
<1>5. CASE at = "connect4a"
  BY <1>1, <1>5, WaitingUnheard, DroppedUnheard
  DEF ProxyInv, Awaited, Connect4, Granted, Rejected
<1>6. CASE at = "connect4"
  BY <1>1, <1>6, WaitingUnheard, DroppedUnheard
  DEF ProxyInv, Awaited, Connect4, Granted, Rejected
<1> QED
  BY <1>2, <1>3, <1>4, <1>5, <1>6 DEF Proxy!Unanswered

(* A Read of n bytes, as Answered has it.                                  *)
Reads(n) ==
  /\ n \in 1 .. Len(in)
  /\ eaten' = eaten \cup {b \in {in[i] : i \in 1 .. n} : Proxy!OfServer(b)}
  /\ trouble' = (trouble \/ n < 2)
  /\ UNCHANGED <<proxy, version, open>>

(* What a Read leaves of the types.                                        *)
LEMMA ReadsTyped ==
  ASSUME ProxyInv, at \in Proxy!Unanswered, NEW n, Reads(n)
  PROVE  /\ proxy' \in Proxies /\ version' \in Proxy!Versions
         /\ open' /\ open' \in BOOLEAN
         /\ trouble' \in BOOLEAN /\ (n = 1 => trouble') /\ (trouble => trouble')
         /\ (\A b \in eaten' : ServersByte(b)) /\ (Len(in) <= 2 => eaten' = {})
<1>1. Unheard /\ ProxyTyped
  BY Heard DEF ProxyInv
<1>2. n \in 1 .. Len(in) /\ trouble' = (trouble \/ n < 2)
  BY Zenon DEF Reads
<1>3. n \in 1 .. Len(in) /\ Len(in) \in 0 .. 4 /\ DOMAIN in = 1 .. Len(in)
  BY <1>1, <1>2, BytesTyped, Zenon
<1>4. eaten' = eaten \cup {b \in {in[i] : i \in 1 .. n} : ServersByte(b)} /\ eaten = {}
  BY <1>1, Zenon DEF Reads, Unheard, ServersByte, Proxy!OfServer
<1>5. Len(in) <= 2 => \A i \in 1 .. n : ~ServersByte(in[i])
  <2>1. \A i \in 1 .. n : i \in DOMAIN in
    BY <1>3
  <2>2. Len(in) <= 2 => \A i \in 1 .. n : i <= 2
    BY <1>3
  <2> QED
    BY <1>1, <2>1, <2>2, Zenon DEF Unheard
<1>6. (\A b \in eaten' : ServersByte(b)) /\ (Len(in) <= 2 => eaten' = {})
  BY <1>4, <1>5
<1>7. trouble' \in BOOLEAN /\ (n < 2 => trouble') /\ (trouble => trouble')
  BY <1>2, Zenon
<1>8. trouble' \in BOOLEAN /\ (n = 1 => trouble') /\ (trouble => trouble')
  BY <1>3, <1>7
<1> QED
  BY <1>1, <1>6, <1>8 DEF Reads, ProxyTyped, Unheard

(* Connect returns, with what was not read.                                *)
LEMMA ProxyReturns ==
  ASSUME ProxyInv, at \in Proxy!Unanswered, NEW n, Reads(n),
         NEW r \in {"yes", "no"}, Proxy!Return(r, Proxy!Left(n)),
         r = "yes" => state = "relay", r = "no" => ~Obliging'
  PROVE  ProxyInv'
<1>1. Unheard /\ ProxyTyped
  BY Heard DEF ProxyInv
<1>2. n \in 1 .. Len(in) /\ Len(in) \in 0 .. 4 /\ in \in Seq(ProxyBytes)
  <2>1. n \in 1 .. Len(in)
    BY Zenon DEF Reads
  <2> QED
    BY <1>1, <2>1, BytesTyped, Zenon
<1>3. /\ at' = r /\ in' = Proxy!Left(n) /\ state' = state /\ closed' = closed
  BY DEF Proxy!Return
<1>4. /\ in' \in Seq(ProxyBytes) /\ Len(in') = Len(in) - n
      /\ \A i \in 1 .. Len(in) - n : in'[i] = in[n + i]
  BY <1>2, <1>3, ReadSome
<1>5. ProxyTyped'
  BY <1>1, <1>2, <1>3, <1>4, ReadsTyped DEF ProxyTyped
<1>6. Awaited'
  BY <1>3 DEF Awaited, Proxy!Unanswered
<1>7. Quiet'
  <2>1. CASE Len(in) - n <= 2
    BY <2>1, <1>4 DEF Quiet
  <2>2. CASE Len(in) - n > 2
    <3>1. n = 1 /\ Len(in) = 4 /\ ServersByte(in[3])
      BY <1>1, <1>2, <2>2 DEF Unheard
    <3>2. 2 \in DOMAIN in' /\ in'[2] = in[3]
      BY <1>2, <1>4, <3>1
    <3> QED
      BY <3>1, <3>2 DEF Quiet, ServersByte
  <2> QED
    BY <1>2, <2>1, <2>2
<1>8. Persistent'
  BY <1>3 DEF Persistent
<1>9. Proxy!YesIsGranted'
  BY <1>3, ReadsTyped DEF Proxy!YesIsGranted
<1> QED
  BY <1>5, <1>6, <1>7, <1>8, <1>9 DEF ProxyInv

(* AUTOVERSION goes on with a version that the proxy no longer hears.      *)
LEMMA ProxyDrops ==
  ASSUME ProxyInv, at \in {"hello", "login", "connect4a"}, version = "AUTOVERSION",
         NEW n, Reads(n), NEW q \in {"connect4a", "connect4"},
         Proxy!Send(q, Proxy!Left(n)), state # "fresh", ~Obliging'
  PROVE  ProxyInv'
<1>1. Unheard /\ ProxyTyped /\ at \in Proxy!Unanswered
  BY Heard DEF ProxyInv, Proxy!Unanswered
<1>2. n \in 1 .. Len(in) /\ Len(in) \in 0 .. 4 /\ in \in Seq(ProxyBytes)
  <2>1. n \in 1 .. Len(in)
    BY Zenon DEF Reads
  <2> QED
    BY <1>1, <2>1, BytesTyped, Zenon
<1>3. /\ Len(in) <= 2
      /\ \A i \in DOMAIN in : in[i][1][1] \in {"hello", "login"}
  <2>1. CASE Dropped
    BY <1>2, <2>1 DEF Dropped
  <2>2. CASE ~Dropped
    <3>1. at \in {"hello", "login"} /\ state # "relay"
      BY <2>2, <1>1 DEF ProxyInv, Awaited, Connect4, Hello, Login
    <3>2. PICK w : Waiting(<<at, w>>)
      BY <2>2, <3>1 DEF ProxyInv, Awaited, Hello, Login
    <3>3. Len(in) = 2 /\ in[1] = <<<<at, w>>, 1>> /\ in[2] = <<<<at, w>>, 2>>
      BY <3>1, <3>2 DEF Waiting
    <3>4. in[1][1][1] = at /\ in[2][1][1] = at
      BY <3>3
    <3>5. DOMAIN in = 1 .. 2
      BY <3>3, <1>1, BytesTyped
    <3> QED
      BY <3>1, <3>3, <3>4, <3>5
  <2> QED
    BY <2>1, <2>2
<1>4. /\ Proxy!Left(n) \in Seq(ProxyBytes) /\ Len(Proxy!Left(n)) = Len(in) - n
      /\ \A i \in 1 .. Len(in) - n : Proxy!Left(n)[i] = in[n + i]
  BY <1>2, ReadSome
<1>5. at' = q /\ in' = Proxy!Left(n) /\ state' = "none" /\ closed' = TRUE
  BY <1>4, RespondsNot, SentInVain
<1>6. /\ in' \in Seq(ProxyBytes) /\ Len(in') = Len(in) - n
      /\ \A i \in 1 .. Len(in) - n : in'[i] = in[n + i]
  BY <1>4, <1>5, Zenon
<1>7. Len(in') <= 1 /\ Len(in') \in Nat /\ DOMAIN in' = 1 .. Len(in')
  BY <1>2, <1>3, <1>6
<1>8. \A i \in DOMAIN in' : in'[i][1][1] \in {"hello", "login"}
  <2>1. TAKE i \in DOMAIN in'
  <2>2. i \in 1 .. Len(in) - n /\ n + i \in DOMAIN in
    BY <1>2, <1>6, <1>7
  <2> QED
    BY <2>2, <1>3, <1>6
<1>9. Dropped'
  BY <1>5, <1>7, <1>8 DEF Dropped
<1>10. version' = version
  BY DEF Reads
<1>11. /\ proxy' \in Proxies /\ version' \in Proxy!Versions
       /\ open' /\ open' \in BOOLEAN /\ trouble' \in BOOLEAN
       /\ eaten' = {}
  BY <1>1, <1>3, ReadsTyped
<1>12. ProxyTyped'
  BY <1>5, <1>6, <1>7, <1>11 DEF ProxyTyped, Proxy!Unanswered
<1>13. Awaited'
  BY <1>5, <1>9, <1>10, <1>11 DEF Awaited, Connect4
<1>14. Quiet' /\ Persistent' /\ Proxy!YesIsGranted'
  BY <1>5, <1>7 DEF Quiet, Persistent, Proxy!YesIsGranted
<1> QED
  BY <1>12, <1>13, <1>14 DEF ProxyInv

(* The answer to a request for the server.                                 *)
LEMMA RespondsGrant ==
  ASSUME NEW q, NEW r, Proxy!Respond(q) = Proxy!Grant(r), ~closed, Proxy!Send(q, << >>)
  PROVE  /\ at' = q /\ closed' \in BOOLEAN
         /\ proxy.reaches => Arrives(in', <<r, "ok">>) /\ state' = "relay"
         /\ ~proxy.reaches => Arrives(in', <<r, "fail">>) /\ state' = "none"
<1>1. CASE proxy.reaches
  <2>1. Proxy!Respond(q) = [answer |-> << <<r, "ok">> >>, state |-> "relay", closed |-> FALSE]
    BY <1>1, Zenon DEF Proxy!Grant, Proxy!Says
  <2> QED
    BY <1>1, <2>1, SentAnswered
<1>2. CASE ~proxy.reaches
  <2>1. Proxy!Respond(q) = [answer |-> << <<r, "fail">> >>, state |-> "none", closed |-> TRUE]
    BY <1>2, Zenon DEF Proxy!Grant, Proxy!Rejects
  <2> QED
    BY <1>2, <2>1, SentAnswered
<1> QED
  BY <1>1, <1>2

(* An answer that arrives waits.                                           *)
LEMMA ArrivesWaiting ==
  ASSUME NEW a \in ProxyAnswers, Arrives(in', a), a[1] # "server"
  PROVE  /\ Waiting(a)' /\ in' \in Seq(ProxyBytes) /\ Len(in') = 2
<1>1. Len(in') = 2 /\ in'[1] = <<a, 1>> /\ in'[2] = <<a, 2>>
  BY DEF Arrives
<1>2. <<a, 1>> \in ProxyBytes /\ <<a, 2>> \in ProxyBytes
  BY DEF ProxyBytes
<1>3. in' \in Seq(ProxyBytes)
  BY <1>2 DEF Arrives
<1>4. Len(in') = 4 => FALSE
  <2>1. 4 # 2
    OBVIOUS
  <2> QED
    BY <1>1, <2>1, Zenon
<1>5. Waiting(a)'
  BY <1>1, <1>4 DEF Waiting
<1> QED
  BY <1>1, <1>3, <1>5

(* A request was sent, and its answer, if any, is to be read.              *)
LEMMA ProxyAsked ==
  ASSUME ProxyTyped, proxy' = proxy, version' = version,
         open', open' \in BOOLEAN, eaten' = {}, trouble' \in BOOLEAN,
         at' \in Proxy!Unanswered, state' \in {"fresh", "login", "request", "relay", "none"},
         closed' \in BOOLEAN, in' \in Seq(ProxyBytes), Len(in') \in {0, 2},
         at' = "hello" => Hello', at' = "login" => Login', at' = "connect5" => Connect5',
         at' = "connect4a" => Connect4("V4A")', at' = "connect4" => Connect4("V4")',
         at' \in {"connect4a", "connect4"} => version # "AUTOVERSION"
  PROVE  ProxyInv'
<1>1. at' \notin {"start", "yes", "no"}
  BY DEF Proxy!Unanswered
<1>2. ProxyTyped'
  <2>1. proxy' \in Proxies /\ version' \in Proxy!Versions
    BY DEF ProxyTyped
  <2>2. \A b \in eaten' : ServersByte(b)
    OBVIOUS
  <2>3. Len(in') <= 4
    BY 0 <= 4, 2 <= 4, Zenon
  <2>4. at' \in Proxy!Unanswered \cup {"start", "yes", "no"}
    OBVIOUS
  <2> QED
    BY <2>1, <2>2, <2>3, <2>4, Zenon DEF ProxyTyped
<1>3. Awaited'
  BY <1>1 DEF Awaited
<1>4. Quiet'
  BY DEF Quiet
<1>5. Persistent' /\ Proxy!YesIsGranted'
  BY <1>1 DEF Persistent, Proxy!YesIsGranted
<1> QED
  BY <1>2, <1>3, <1>4, <1>5 DEF ProxyInv

(* The types of a proxy.                                                   *)
LEMMA ProxyKinds ==
  ASSUME ProxyTyped
  PROVE  /\ proxy.v5 \in {"none", "open", "login", "other"}
         /\ proxy.v4a \in BOOLEAN /\ proxy.v4 \in BOOLEAN
         /\ proxy.knows \in BOOLEAN /\ proxy.reaches \in BOOLEAN
BY SessionAssumption DEF ProxyTyped, Proxy!ProxySocketAssumption

(* The connection to the proxy is made and the first request is sent.      *)
LEMMA ProxyReached ==
  ASSUME ProxyInv, Proxy!Reach
  PROVE  ProxyInv'
<1>1. /\ ProxyTyped /\ at = "start" /\ in = << >> /\ state = "fresh" /\ ~closed /\ eaten = {}
      /\ version \in {"AUTOVERSION", "V5", "V4A", "V4"} /\ trouble \in BOOLEAN
  BY DEF ProxyInv, ProxyTyped, Awaited, Proxy!Reach, Proxy!Versions
<1>2. /\ proxy' = proxy /\ version' = version /\ open' /\ open' \in BOOLEAN
      /\ eaten' = {} /\ trouble' \in BOOLEAN
  BY <1>1 DEF Proxy!Reach
<1>3. CASE version \in {"AUTOVERSION", "V5"}
  <2>1. Proxy!Send("hello", << >>)
    BY <1>3 DEF Proxy!Reach
  <2>2. CASE proxy.v5 = "none"
    <3>1. Proxy!Respond("hello") = Proxy!Drops
      BY <2>2 DEF Proxy!Respond
    <3>2. at' = "hello" /\ in' = << >> /\ state' = "none" /\ closed' = TRUE
      BY <2>1, <3>1, SentInVain, EmptySeq
    <3>3. Dropped'
      BY <3>2 DEF Dropped
    <3>4. Hello'
      BY <1>2, <1>3, <2>2, <3>3, Zenon DEF Hello
    <3> QED
      BY <1>1, <1>2, <3>2, <3>4, ProxyAsked DEF Proxy!Unanswered
  <2>3. CASE proxy.v5 = "open"
    <3> DEFINE a == <<"hello", "open">>
    <3>1. Proxy!Respond("hello") = [answer |-> <<a>>, state |-> "request", closed |-> FALSE]
      BY <1>1, <2>3 DEF Proxy!Respond, Proxy!Says
    <3>2. at' = "hello" /\ Arrives(in', a) /\ state' = "request" /\ closed' = FALSE
      BY <1>1, <2>1, <3>1, SentAnswered
    <3>3. Waiting(a)' /\ in' \in Seq(ProxyBytes) /\ Len(in') = 2
      BY <3>2, ArrivesWaiting DEF ProxyAnswers
    <3>4. Hello'
      BY <1>2, <1>3, <2>3, <3>2, <3>3, Zenon DEF Hello
    <3> QED
      BY <1>1, <1>2, <3>2, <3>3, <3>4, ProxyAsked DEF Proxy!Unanswered
  <2>4. CASE proxy.v5 = "login"
    <3> DEFINE a == <<"hello", "login">>
    <3>1. Proxy!Respond("hello") = [answer |-> <<a>>, state |-> "login", closed |-> FALSE]
      BY <1>1, <2>4 DEF Proxy!Respond, Proxy!Says
    <3>2. at' = "hello" /\ Arrives(in', a) /\ state' = "login" /\ closed' = FALSE
      BY <1>1, <2>1, <3>1, SentAnswered
    <3>3. Waiting(a)' /\ in' \in Seq(ProxyBytes) /\ Len(in') = 2
      BY <3>2, ArrivesWaiting DEF ProxyAnswers
    <3>4. Hello'
      BY <1>2, <1>3, <2>4, <3>2, <3>3, Zenon DEF Hello
    <3> QED
      BY <1>1, <1>2, <3>2, <3>3, <3>4, ProxyAsked DEF Proxy!Unanswered
  <2>5. CASE proxy.v5 = "other"
    <3> DEFINE a == <<"hello", "none">>
    <3>1. Proxy!Respond("hello") = [answer |-> <<a>>, state |-> "none", closed |-> TRUE]
      BY <1>1, <2>5 DEF Proxy!Respond, Proxy!Rejects
    <3>2. at' = "hello" /\ Arrives(in', a) /\ state' = "none" /\ closed' = TRUE
      BY <1>1, <2>1, <3>1, SentAnswered
    <3>3. Waiting(a)' /\ in' \in Seq(ProxyBytes) /\ Len(in') = 2
      BY <3>2, ArrivesWaiting DEF ProxyAnswers
    <3>4. Hello'
      BY <1>2, <1>3, <2>5, <3>2, <3>3, Zenon DEF Hello
    <3> QED
      BY <1>1, <1>2, <3>2, <3>3, <3>4, ProxyAsked DEF Proxy!Unanswered
  <2> QED
    BY <1>1, <2>2, <2>3, <2>4, <2>5, ProxyKinds
<1>4. CASE version = "V4A"
  <2>1. Proxy!Send("connect4a", << >>)
    BY <1>4 DEF Proxy!Reach
  <2>2. CASE proxy.v4a
    <3>1. Proxy!Respond("connect4a") = Proxy!Grant("connect4")
      BY <1>1, <2>2 DEF Proxy!Respond
    <3>2. /\ at' = "connect4a" /\ closed' \in BOOLEAN
          /\ proxy.reaches => Arrives(in', <<"connect4", "ok">>) /\ state' = "relay"
          /\ ~proxy.reaches => Arrives(in', <<"connect4", "fail">>) /\ state' = "none"
      BY <1>1, <2>1, <3>1, RespondsGrant
    <3>3. /\ Granted("connect4")' \/ Rejected("connect4")'
          /\ in' \in Seq(ProxyBytes) /\ Len(in') = 2
      BY <1>2, <3>2, ArrivesWaiting DEF ProxyAnswers, Granted, Rejected
    <3>4. Connect4("V4A")'
      BY <1>2, <1>4, <3>3, Zenon DEF Connect4
    <3> QED
      BY <1>1, <1>2, <1>4, <3>2, <3>3, <3>4, ProxyAsked DEF Proxy!Unanswered
  <2>3. CASE ~proxy.v4a
    <3>1. ~Proxy!Speaks("V4A")'
      BY <1>2, <2>3 DEF Proxy!Speaks
    <3>2. CASE proxy.v4
      <4> DEFINE a == <<"connect4", "fail">>
      <4>1. Proxy!Respond("connect4a") = [answer |-> <<a>>, state |-> "none", closed |-> TRUE]
        BY <1>1, <2>3, <3>2 DEF Proxy!Respond, Proxy!Rejects
      <4>2. at' = "connect4a" /\ Arrives(in', a) /\ state' = "none" /\ closed' = TRUE
        BY <1>1, <2>1, <4>1, SentAnswered
      <4>3. Waiting(a)' /\ in' \in Seq(ProxyBytes) /\ Len(in') = 2
        BY <4>2, ArrivesWaiting DEF ProxyAnswers
      <4>4. Connect4("V4A")'
        BY <1>2, <1>4, <3>1, <4>2, <4>3, Zenon DEF Connect4
      <4> QED
        BY <1>1, <1>2, <1>4, <4>2, <4>3, <4>4, ProxyAsked DEF Proxy!Unanswered
    <3>3. CASE ~proxy.v4
      <4>1. Proxy!Respond("connect4a") = Proxy!Drops
        BY <1>1, <2>3, <3>3 DEF Proxy!Respond
      <4>2. at' = "connect4a" /\ in' = << >> /\ state' = "none" /\ closed' = TRUE
        BY <2>1, <4>1, SentInVain, EmptySeq
      <4>3. Dropped'
        BY <4>2 DEF Dropped
      <4>4. Connect4("V4A")'
        BY <1>2, <1>4, <3>1, <4>3, Zenon DEF Connect4
      <4> QED
        BY <1>1, <1>2, <1>4, <4>2, <4>4, ProxyAsked DEF Proxy!Unanswered
    <3> QED
      BY <3>2, <3>3
  <2> QED
    BY <2>2, <2>3
<1>5. CASE version = "V4"
  <2>1. Proxy!Send("connect4", << >>)
    BY <1>5 DEF Proxy!Reach
  <2>2. CASE proxy.v4 \/ proxy.v4a
    <3>1. Proxy!Respond("connect4") = Proxy!Grant("connect4")
      BY <1>1, <2>2 DEF Proxy!Respond
    <3>2. /\ at' = "connect4" /\ closed' \in BOOLEAN
          /\ proxy.reaches => Arrives(in', <<"connect4", "ok">>) /\ state' = "relay"
          /\ ~proxy.reaches => Arrives(in', <<"connect4", "fail">>) /\ state' = "none"
      BY <1>1, <2>1, <3>1, RespondsGrant
    <3>3. /\ Granted("connect4")' \/ Rejected("connect4")'
          /\ in' \in Seq(ProxyBytes) /\ Len(in') = 2
      BY <1>2, <3>2, ArrivesWaiting DEF ProxyAnswers, Granted, Rejected
    <3>4. Connect4("V4")'
      BY <1>2, <1>5, <3>3, Zenon DEF Connect4
    <3> QED
      BY <1>1, <1>2, <1>5, <3>2, <3>3, <3>4, ProxyAsked DEF Proxy!Unanswered
  <2>3. CASE ~(proxy.v4 \/ proxy.v4a)
    <3>1. ~Proxy!Speaks("V4")'
      BY <1>2, <2>3 DEF Proxy!Speaks
    <3>2. Proxy!Respond("connect4") = Proxy!Drops
      BY <1>1, <2>3 DEF Proxy!Respond
    <3>3. at' = "connect4" /\ in' = << >> /\ state' = "none" /\ closed' = TRUE
      BY <2>1, <3>2, SentInVain, EmptySeq
    <3>4. Dropped'
      BY <3>3 DEF Dropped
    <3>5. Connect4("V4")'
      BY <1>2, <1>5, <3>1, <3>4, Zenon DEF Connect4
    <3> QED
      BY <1>1, <1>2, <1>5, <3>3, <3>5, ProxyAsked DEF Proxy!Unanswered
  <2> QED
    BY <2>2, <2>3
<1> QED
  BY <1>1, <1>3, <1>4, <1>5

(* A version 5 proxy goes on: it wants the login, or hears the request.    *)
LEMMA ProxyGoesOn ==
  ASSUME ProxyInv, at \in {"hello", "login"}, NEW n, Reads(n),
         version \in {"AUTOVERSION", "V5"}, Len(in) = 2, n = 2, ~closed,
         NEW q \in {"login", "connect5"}, Proxy!Send(q, Proxy!Left(n)),
         q = "login" => state = "login" /\ proxy.v5 = "login",
         q = "connect5" => state = "request"
  PROVE  ProxyInv'
<1>1. ProxyTyped /\ at \in Proxy!Unanswered /\ Unheard
  BY Heard DEF ProxyInv, Proxy!Unanswered
<1>2. Proxy!Left(n) = << >>
  <2>1. /\ Proxy!Left(n) \in Seq(ProxyBytes) /\ Len(Proxy!Left(n)) = Len(in) - n
    BY <1>1, BytesTyped, ReadSome
  <2>2. Len(Proxy!Left(n)) = 0
    BY <2>1
  <2> QED
    BY <2>1, <2>2, EmptySeq
<1>3. Proxy!Send(q, << >>)
  BY <1>2, Zenon
<1>4. /\ proxy' = proxy /\ version' = version /\ open' /\ open' \in BOOLEAN
      /\ eaten' = {} /\ trouble' \in BOOLEAN
  <2>1. Len(in) <= 2
    OBVIOUS
  <2>2. proxy' = proxy /\ version' = version
    BY Zenon DEF Reads
  <2> QED
    BY <1>1, <2>1, <2>2, ReadsTyped, Zenon
<1>5. CASE q = "connect5"
  <2>1. Proxy!Respond(q) = Proxy!Grant(q)
    BY <1>5 DEF Proxy!Respond
  <2>2. /\ at' = q /\ closed' \in BOOLEAN
        /\ proxy.reaches => Arrives(in', <<q, "ok">>) /\ state' = "relay"
        /\ ~proxy.reaches => Arrives(in', <<q, "fail">>) /\ state' = "none"
    BY <1>3, <2>1, RespondsGrant
  <2>3. /\ Granted(q)' \/ Rejected(q)'
        /\ in' \in Seq(ProxyBytes) /\ Len(in') = 2
    BY <1>4, <1>5, <2>2, ArrivesWaiting DEF ProxyAnswers, Granted, Rejected
  <2>4. Connect5'
    BY <1>4, <1>5, <2>3, Zenon DEF Connect5
  <2> QED
    BY <1>1, <1>4, <1>5, <2>2, <2>3, <2>4, ProxyAsked DEF Proxy!Unanswered
<1>6. CASE q = "login"
  <2>1. CASE proxy.knows
    <3> DEFINE a == <<"login", "ok">>
    <3>1. Proxy!Respond(q) = [answer |-> <<a>>, state |-> "request", closed |-> FALSE]
      BY <1>6, <2>1 DEF Proxy!Respond, Proxy!Says
    <3>2. at' = q /\ Arrives(in', a) /\ state' = "request" /\ closed' = FALSE
      BY <1>3, <3>1, SentAnswered
    <3>3. Waiting(a)' /\ in' \in Seq(ProxyBytes) /\ Len(in') = 2
      BY <3>2, ArrivesWaiting DEF ProxyAnswers
    <3>4. Login'
      BY <1>4, <1>6, <2>1, <3>2, <3>3, Zenon DEF Login
    <3> QED
      BY <1>1, <1>4, <1>6, <3>2, <3>3, <3>4, ProxyAsked DEF Proxy!Unanswered
  <2>2. CASE ~proxy.knows
    <3> DEFINE a == <<"login", "fail">>
    <3>1. Proxy!Respond(q) = [answer |-> <<a>>, state |-> "none", closed |-> TRUE]
      BY <1>6, <2>2 DEF Proxy!Respond, Proxy!Rejects
    <3>2. at' = q /\ Arrives(in', a) /\ state' = "none" /\ closed' = TRUE
      BY <1>3, <3>1, SentAnswered
    <3>3. Waiting(a)' /\ in' \in Seq(ProxyBytes) /\ Len(in') = 2
      BY <3>2, ArrivesWaiting DEF ProxyAnswers
    <3>4. Login'
      BY <1>4, <1>6, <2>2, <3>2, <3>3, Zenon DEF Login
    <3> QED
      BY <1>1, <1>4, <1>6, <3>2, <3>3, <3>4, ProxyAsked DEF Proxy!Unanswered
  <2> QED
    BY <2>1, <2>2
<1> QED
  BY <1>5, <1>6

(* A talk that goes well so far went well before.                          *)
LEMMA ObligingBefore ==
  ASSUME proxy' = proxy, version' = version, trouble => trouble', Obliging'
  PROVE  Obliging
<1>1. Proxy!Speaks(version)' <=> Proxy!Speaks(version)
  BY DEF Proxy!Speaks
<1> QED
  BY <1>1, Zenon DEF Obliging

(* Connect fails to reach the proxy.                                       *)
LEMMA ProxyUnreached ==
  ASSUME ProxyInv, Proxy!Unreachable
  PROVE  ProxyInv'
<1>1. /\ ProxyTyped /\ in = << >> /\ trouble' = TRUE /\ at' = "no" /\ in' = << >>
      /\ state' = state /\ closed' = closed /\ proxy' = proxy /\ version' = version
      /\ open' = open /\ eaten' = eaten
  BY DEF ProxyInv, Awaited, Proxy!Unreachable, Proxy!Return
<1>2. ProxyTyped'
  BY <1>1 DEF ProxyTyped
<1>3. Awaited' /\ Quiet' /\ Persistent' /\ Proxy!YesIsGranted'
  BY <1>1 DEF Awaited, Quiet, Persistent, Obliging, Proxy!Unanswered, Proxy!YesIsGranted
<1> QED
  BY <1>2, <1>3 DEF ProxyInv

(* The connection ends before an answer, or with it.                       *)
LEMMA ProxyBroken ==
  ASSUME ProxyInv, Proxy!Broken
  PROVE  ProxyInv'
<1>1. /\ ProxyTyped /\ trouble' \in {trouble, TRUE} /\ (trouble' \/ in = << >>)
      /\ at' = "no" /\ in' = << >> /\ open' = FALSE
      /\ state' = state /\ closed' = closed /\ proxy' = proxy /\ version' = version
      /\ eaten' = eaten
  BY DEF ProxyInv, Proxy!Broken, Proxy!Return
<1>2. ProxyTyped'
  <2>1. in' \in Seq(ProxyBytes) /\ Len(in') <= 4
    BY <1>1, EmptySeq
  <2>2. trouble' \in BOOLEAN
    BY <1>1 DEF ProxyTyped
  <2> QED
    BY <1>1, <2>1, <2>2 DEF ProxyTyped
<1>3. in = << >> => ~Obliging
  <2> SUFFICES ASSUME in = << >>, Proxy!Speaks(version) PROVE ~Obliging
    BY Zenon DEF Obliging
  <2>1. \A a : ~Waiting(a)
    <3>1. Len(in) # 2 /\ Len(in) # 4
      OBVIOUS
    <3> QED
      BY <3>1, Zenon DEF Waiting
  <2>2. at \in Proxy!Unanswered
    BY DEF Proxy!Broken
  <2>3. CASE at = "hello"
    <3>1. version \in {"AUTOVERSION", "V5"} => proxy.v5 # "none"
      BY DEF Proxy!Speaks
    <3> QED
      BY <2>1, <2>3, <3>1, Zenon DEF ProxyInv, Awaited, Hello
  <2>4. CASE at = "login"
    BY <2>1, <2>4, Zenon DEF ProxyInv, Awaited, Login
  <2>5. CASE at = "connect5"
    BY <2>1, <2>5, Zenon DEF ProxyInv, Awaited, Connect5, Granted, Rejected
  <2>6. CASE at = "connect4a"
    BY <2>1, <2>6, Zenon DEF ProxyInv, Awaited, Connect4, Granted, Rejected, Persistent
  <2>7. CASE at = "connect4"
    BY <2>1, <2>7, Zenon DEF ProxyInv, Awaited, Connect4, Granted, Rejected, Persistent
  <2> QED
    BY <2>2, <2>3, <2>4, <2>5, <2>6, <2>7 DEF Proxy!Unanswered
<1>4. ~Obliging'
  <2>a. trouble' = trouble \/ trouble' = TRUE
    BY <1>1, Zenon
  <2>b. trouble = TRUE \/ trouble = FALSE
    BY <1>1 DEF ProxyTyped
  <2>c. trouble = TRUE => trouble' = TRUE
    BY <2>a, Zenon
  <2>1. (trouble => trouble') /\ (trouble' \/ ~Obliging)
    <3>1. trouble => trouble'
      BY <2>b, <2>c, Zenon
    <3>2. trouble' \/ in = << >>
      BY <1>1, Zenon
    <3> QED
      BY <3>1, <3>2, <1>3, Zenon
  <2>2. Obliging' => ~trouble'
    BY Zenon DEF Obliging
  <2> QED
    BY <1>1, <2>1, <2>2, ObligingBefore, Zenon
<1>5. Awaited' /\ Quiet' /\ Persistent' /\ Proxy!YesIsGranted'
  BY <1>1, <1>4 DEF Awaited, Quiet, Persistent, Proxy!Unanswered, Proxy!YesIsGranted
<1> QED
  BY <1>2, <1>5 DEF ProxyInv

(* The server begins to talk, behind a grant or after Connect returned.    *)
LEMMA ProxyServerSpeaks ==
  ASSUME ProxyInv, Proxy!ServerSpeaks
  PROVE  ProxyInv'
<1> DEFINE s == <<"server", "ok">>
<1>1. /\ ProxyTyped /\ Quiet /\ state = "relay" /\ proxy.speaks /\ open /\ eaten = {}
      /\ \A i \in 1 .. Len(in) : in[i][1] # s
      /\ in' = in \o Proxy!Bytes(<<s>>)
      /\ UNCHANGED <<proxy, version, at, open, state, closed, eaten, trouble>>
  BY DEF ProxyInv, Proxy!ServerSpeaks
<1>2. in \in Seq(ProxyBytes) /\ Len(in) \in 0 .. 4 /\ DOMAIN in = 1 .. Len(in)
  BY <1>1, BytesTyped
<1>3. Len(in) <= 2
  <2>1. \A b \in ProxyBytes : ServersByte(b) => b[1] = s
    BY DEF ProxyBytes, ProxyAnswers, ServersByte
  <2>2. \A i \in DOMAIN in : in[i] \in ProxyBytes
    BY <1>2
  <2>3. \A i \in DOMAIN in : ~ServersByte(in[i])
    BY <1>1, <1>2, <2>1, <2>2, Zenon
  <2> QED
    BY <1>1, <2>3 DEF Quiet
<1>4. in' = in \o <<<<s, 1>>, <<s, 2>>>>
  <2>1. Arrives(Proxy!Bytes(<<s>>), s)
    BY AnswerBytes
  <2> QED
    BY <1>1, <2>1, Zenon DEF Arrives
<1>5. /\ in' \in Seq(ProxyBytes) /\ Len(in') = Len(in) + 2
      /\ \A i \in 1 .. Len(in) : in'[i] = in[i]
      /\ in'[Len(in) + 1] = <<s, 1>> /\ in'[Len(in) + 2] = <<s, 2>>
  <2>1. <<<<s, 1>>, <<s, 2>>>> \in Seq(ProxyBytes)
    BY DEF ProxyBytes, ProxyAnswers
  <2> QED
    BY <1>2, <1>4, <2>1
<1>6. ProxyTyped'
  BY <1>1, <1>2, <1>3, <1>5 DEF ProxyTyped
<1>7. ASSUME NEW a, Waiting(a) PROVE Waiting(a)'
  <2>1. Len(in) = 2
    BY <1>3, <1>7 DEF Waiting
  <2>2. Len(in') = 4 /\ in'[1] = in[1] /\ in'[2] = in[2]
        /\ in'[3] = <<s, 1>> /\ in'[4] = <<s, 2>>
    BY <1>5, <2>1
  <2>3. ServersByte(in'[3]) /\ ServersByte(in'[4])
    BY <2>2 DEF ServersByte
  <2>4. Len(in') \in {2, 4}
    BY <2>2
  <2> QED
    BY <1>1, <1>7, <2>2, <2>3, <2>4, Zenon DEF Waiting, ServersByte
<1>8. Awaited'
  <2>1. at # "start" /\ at # "hello" /\ at # "login"
    BY <1>1 DEF ProxyInv, Awaited, Hello, Login, Dropped
  <2>2. at = "connect5" => Connect5'
    BY <1>1, <1>7, Zenon DEF ProxyInv, Awaited, Connect5, Granted, Rejected
  <2>3. ASSUME NEW v, Connect4(v) PROVE Connect4(v)'
    <3>1. version = v /\ Granted("connect4")
      BY <1>1, <2>3 DEF Connect4, Dropped, Rejected
    <3> QED
      BY <1>1, <1>7, <3>1, Zenon DEF Connect4, Granted
  <2> QED
    BY <1>1, <2>1, <2>2, <2>3, Zenon DEF ProxyInv, Awaited
<1>9. Quiet'
  <2>1. Len(in) + 1 \in DOMAIN in' /\ ServersByte(in'[Len(in) + 1])
    BY <1>2, <1>5 DEF ServersByte
  <2> QED
    BY <2>1, Zenon DEF Quiet, ServersByte
<1>10. Persistent'
  <2>1. Obliging' => Obliging
    BY <1>1, ObligingBefore
  <2> QED
    BY <1>1, <2>1, Zenon DEF ProxyInv, Persistent
<1>11. Proxy!YesIsGranted'
  BY <1>1, Zenon DEF ProxyInv, Proxy!YesIsGranted
<1> QED
  BY <1>6, <1>8, <1>9, <1>10, <1>11 DEF ProxyInv

(* A good answer is read whole; the first byte tells it.                   *)
LEMMA GoodAccepted ==
  ASSUME NEW r, NEW w, Waiting(<<r, w>>), r = Proxy!Expected
  PROVE  /\ \A n : Proxy!Accepts(n) => w \in {"ok", "open", "login"}
         /\ w \in {"ok", "open", "login"} => Proxy!Accepts(2)
         /\ in[1][1] = <<r, w>>
<1>1. in[1] = <<<<r, w>>, 1>>
  BY DEF Waiting
<1>2. in[1][2] = 1 /\ in[1][1] = <<r, w>> /\ in[1][1][1] = r /\ in[1][1][2] = w
  BY <1>1
<1>3. \A n : Proxy!Accepts(n) => w \in {"ok", "open", "login"}
  BY <1>2, Zenon DEF Proxy!Accepts, Proxy!Good
<1>4. w \in {"ok", "open", "login"} => Proxy!Accepts(2)
  BY <1>2, Zenon DEF Proxy!Accepts, Proxy!Good, Proxy!Whole
<1> QED
  BY <1>2, <1>3, <1>4, Zenon

(* What is not accepted is no answer of a proxy that gives the connection. *)
LEMMA ProxyRefused ==
  ASSUME ProxyInv, at \in Proxy!Unanswered, NEW n, Reads(n), ~Proxy!Accepts(n)
  PROVE  ~Obliging'
<1>1. ProxyTyped /\ Unheard
  BY Heard DEF ProxyInv
<1>2. n \in 1 .. Len(in) /\ Len(in) \in 0 .. 4
  <2>1. n \in 1 .. Len(in)
    BY Zenon DEF Reads
  <2> QED
    BY <1>1, <2>1, BytesTyped, Zenon
<1>3. CASE n = 1
  BY <1>3, ReadsTyped, Zenon DEF Obliging
<1>4. Obliging' => Obliging
  <2>1. proxy' = proxy /\ version' = version
    BY Zenon DEF Reads
  <2> QED
    BY <2>1, ReadsTyped, ObligingBefore, Zenon
<1>5. CASE n > 2
  BY <1>1, <1>2, <1>4, <1>5 DEF Unheard, Obliging
<1>6. CASE n = 2
  <2> SUFFICES ASSUME Obliging PROVE FALSE
    BY <1>4
  <2>1. ~Dropped
    BY <1>2, <1>6 DEF Dropped
  <2>2. ~Proxy!Accepts(2) /\ proxy.reaches /\ Proxy!Speaks(version)
    BY <1>6, Zenon DEF Obliging
  <2>3. CASE at = "hello"
    <3>1. Proxy!Expected = "hello"
      BY <2>3 DEF Proxy!Expected
    <3>2. Waiting(<<"hello", "none">>) /\ proxy.v5 = "other" /\ version \in {"AUTOVERSION", "V5"}
      BY <2>1, <2>2, <2>3, <3>1, GoodAccepted, Zenon DEF ProxyInv, Awaited, Hello
    <3> QED
      BY <2>2, <3>2 DEF Proxy!Speaks
  <2>4. CASE at = "login"
    <3>1. Proxy!Expected = "login"
      BY <2>4 DEF Proxy!Expected
    <3>2. ~proxy.knows /\ proxy.v5 = "login" /\ version \in {"AUTOVERSION", "V5"}
      BY <2>2, <2>4, <3>1, GoodAccepted, Zenon DEF ProxyInv, Awaited, Login
    <3> QED
      BY <2>2, <3>2 DEF Proxy!Speaks
  <2>5. CASE at = "connect5"
    <3>1. Proxy!Expected = "connect5"
      BY <2>5 DEF Proxy!Expected
    <3> QED
      BY <2>2, <2>5, <3>1, GoodAccepted, Zenon
      DEF ProxyInv, Awaited, Connect5, Granted, Rejected
  <2>6. CASE at \in {"connect4a", "connect4"}
    <3>1. Proxy!Expected = "connect4"
      BY <2>6 DEF Proxy!Expected
    <3> QED
      BY <2>1, <2>2, <2>6, <3>1, GoodAccepted, Zenon
      DEF ProxyInv, Awaited, Connect4, Granted, Rejected
  <2> QED
    BY <2>3, <2>4, <2>5, <2>6 DEF Proxy!Unanswered
<1> QED
  BY <1>2, <1>3, <1>5, <1>6

(* What is accepted is the answer awaited.                                 *)
LEMMA ProxyAccepted ==
  ASSUME ProxyInv, at \in Proxy!Unanswered, NEW n \in 1 .. Len(in), Proxy!Accepts(n)
  PROVE  \/ /\ at = "hello" /\ n = 2 /\ proxy.v5 = "open" /\ state = "request"
            /\ Proxy!Then(in[1][1]) = "connect5" /\ ~closed
         \/ /\ at = "hello" /\ n = 2 /\ proxy.v5 = "login" /\ state = "login"
            /\ Proxy!Then(in[1][1]) = "login" /\ ~closed
         \/ /\ at = "login" /\ n = 2 /\ state = "request"
            /\ Proxy!Then(in[1][1]) = "connect5" /\ ~closed
         \/ /\ at \in {"connect5", "connect4a", "connect4"} /\ state = "relay"
            /\ Proxy!Then(in[1][1]) = "yes"
<1>1. Proxy!Whole(n) /\ in[1][1][2] \in {"ok", "open", "login"}
  BY Zenon DEF Proxy!Accepts, Proxy!Good
<1>2. ProxyTyped /\ Len(in) \in 0 .. 4
  BY BytesTyped DEF ProxyInv
<1>3. ~Dropped
  <2>1. Len(in) >= 2
    BY <1>1, <1>2 DEF Proxy!Whole
  <2> QED
    BY <1>2, <2>1 DEF Dropped
<1>4. CASE at = "hello"
  <2>1. n = 2
    BY <1>1, <1>4 DEF Proxy!Whole
  <2>2. Proxy!Expected = "hello"
    BY <1>4 DEF Proxy!Expected
  <2>3. \/ proxy.v5 = "open" /\ Waiting(<<"hello", "open">>) /\ state = "request" /\ ~closed
        \/ proxy.v5 = "login" /\ Waiting(<<"hello", "login">>) /\ state = "login" /\ ~closed
    <3>1. ~("none" \in {"ok", "open", "login"})
      OBVIOUS
    <3> QED
      BY <1>3, <1>4, <2>2, <3>1, GoodAccepted, Zenon DEF ProxyInv, Awaited, Hello
  <2>4. CASE Waiting(<<"hello", "open">>)
    <3>1. in[1][1] = <<"hello", "open">>
      BY <2>2, <2>4, GoodAccepted
    <3>2. Proxy!Then(in[1][1]) = "connect5"
      BY <3>1 DEF Proxy!Then
    <3> QED
      BY <1>4, <2>1, <2>3, <3>1, <3>2, GoodAccepted, <2>2
  <2>5. CASE Waiting(<<"hello", "login">>)
    <3>1. in[1][1] = <<"hello", "login">>
      BY <2>2, <2>5, GoodAccepted
    <3>2. Proxy!Then(in[1][1]) = "login"
      BY <3>1 DEF Proxy!Then
    <3> QED
      BY <1>4, <2>1, <2>3, <3>1, <3>2, GoodAccepted, <2>2
  <2> QED
    BY <2>3, <2>4, <2>5
<1>5. CASE at = "login"
  <2>1. n = 2
    BY <1>1, <1>5 DEF Proxy!Whole
  <2>2. Proxy!Expected = "login"
    BY <1>5 DEF Proxy!Expected
  <2>3. Waiting(<<"login", "ok">>) /\ state = "request" /\ ~closed
    <3>1. ~("fail" \in {"ok", "open", "login"})
      OBVIOUS
    <3> QED
      BY <1>5, <2>2, <3>1, GoodAccepted, Zenon DEF ProxyInv, Awaited, Login
  <2>4. in[1][1] = <<"login", "ok">>
    BY <2>2, <2>3, GoodAccepted
  <2>5. Proxy!Then(in[1][1]) = "connect5"
    BY <2>4 DEF Proxy!Then
  <2> QED
    BY <1>5, <2>1, <2>3, <2>5, Zenon
<1>6. ASSUME NEW r \in {"connect5", "connect4"}, Proxy!Expected = r,
             Granted(r) \/ Waiting(<<r, "fail">>)
      PROVE  state = "relay" /\ Proxy!Then(in[1][1]) = "yes"
  <2>1. Granted(r)
    <3>1. ~("fail" \in {"ok", "open", "login"})
      OBVIOUS
    <3> QED
      BY <1>6, <3>1, GoodAccepted, Zenon
  <2>2. in[1][1] = <<r, "ok">> /\ state = "relay"
    BY <1>6, <2>1, GoodAccepted, Zenon DEF Granted
  <2>3. Proxy!Then(in[1][1]) = "yes"
    BY <2>2 DEF Proxy!Then
  <2> QED
    BY <2>2, <2>3
<1>7. CASE at = "connect5"
  <2>1. Proxy!Expected = "connect5"
    BY <1>7 DEF Proxy!Expected
  <2> QED
    BY <1>6, <1>7, <2>1, Zenon DEF ProxyInv, Awaited, Connect5, Rejected
<1>8. CASE at \in {"connect4a", "connect4"}
  <2>1. Proxy!Expected = "connect4"
    BY <1>8 DEF Proxy!Expected
  <2> QED
    BY <1>3, <1>6, <1>8, <2>1, Zenon DEF ProxyInv, Awaited, Connect4, Rejected
<1> QED
  BY <1>4, <1>5, <1>7, <1>8 DEF Proxy!Unanswered

(* The answer of the proxy is read and taken.                              *)
LEMMA ProxyAnswered ==
  ASSUME ProxyInv, Proxy!Answered
  PROVE  ProxyInv'
<1> DEFINE follows(n) == IF Proxy!Accepts(n) THEN Proxy!Then(in[1][1]) ELSE Proxy!Else
<1>1. PICK n \in 1 .. Len(in) :
        /\ IF follows(n) \in {"yes", "no"} THEN Proxy!Return(follows(n), Proxy!Left(n))
                                           ELSE Proxy!Send(follows(n), Proxy!Left(n))
        /\ eaten' = eaten \cup {b \in {in[i] : i \in 1 .. n} : Proxy!OfServer(b)}
        /\ trouble' = (trouble \/ n < 2)
  BY Zenon DEF Proxy!Answered
<1>2. at \in Proxy!Unanswered /\ Reads(n)
  BY <1>1, Zenon DEF Proxy!Answered, Reads
<1>3. ASSUME NEW q, q = IF Proxy!Accepts(n) THEN Proxy!Then(in[1][1]) ELSE Proxy!Else
      PROVE  /\ q \in {"yes", "no"} => Proxy!Return(q, Proxy!Left(n))
             /\ q \notin {"yes", "no"} => Proxy!Send(q, Proxy!Left(n))
  BY <1>1, <1>3, Zenon
<1>4. CASE Proxy!Accepts(n)
  <2> DEFINE q == Proxy!Then(in[1][1])
  <2>1. /\ q \in {"yes", "no"} => Proxy!Return(q, Proxy!Left(n))
        /\ q \notin {"yes", "no"} => Proxy!Send(q, Proxy!Left(n))
    BY <1>3, <1>4
  <2>2. CASE at \in {"connect5", "connect4a", "connect4"}
    <3>1. state = "relay" /\ q = "yes"
      BY <1>2, <1>4, <2>2, ProxyAccepted
    <3>2. Proxy!Return("yes", Proxy!Left(n))
      BY <2>1, <3>1
    <3> QED
      BY <1>2, <3>1, <3>2, ProxyReturns
  <2>3. CASE at \in {"hello", "login"}
    <3>1. /\ n = 2 /\ ~closed /\ state \in {"request", "login"} /\ q \in {"login", "connect5"}
          /\ q = "login" => state = "login" /\ proxy.v5 = "login"
          /\ q = "connect5" => state = "request"
      BY <1>2, <1>4, <2>3, ProxyAccepted
    <3>2. version \in {"AUTOVERSION", "V5"}
      BY <2>3 DEF ProxyInv, Awaited, Hello, Login
    <3>3. Len(in) = 2
      <4>1. Unheard /\ Len(in) \in 0 .. 4
        BY <1>2, Heard, BytesTyped DEF ProxyInv
      <4>2. ~(Len(in) > 2)
        BY <3>1, <4>1 DEF Unheard
      <4> QED
        BY <3>1, <4>1, <4>2
    <3>4. Proxy!Send(q, Proxy!Left(n))
      BY <2>1, <3>1
    <3> HIDE DEF q
    <3> QED
      BY <1>2, <2>3, <3>1, <3>2, <3>3, <3>4, ProxyGoesOn
  <2> QED
    BY <1>2, <2>2, <2>3 DEF Proxy!Unanswered
<1>5. CASE ~Proxy!Accepts(n)
  <2>1. ~Obliging'
    BY <1>2, <1>5, ProxyRefused
  <2>2. /\ Proxy!Else \in {"yes", "no"} => Proxy!Return(Proxy!Else, Proxy!Left(n))
        /\ Proxy!Else \notin {"yes", "no"} => Proxy!Send(Proxy!Else, Proxy!Left(n))
    BY <1>3, <1>5
  <2>3. CASE Proxy!Else = "no"
    BY <1>2, <2>1, <2>2, <2>3, ProxyReturns
  <2>4. CASE Proxy!Else # "no"
    <3>1. /\ version = "AUTOVERSION" /\ at \in {"hello", "login", "connect4a"}
          /\ Proxy!Else \in {"connect4a", "connect4"}
      BY <2>4 DEF Proxy!Else
    <3>2. Proxy!Send(Proxy!Else, Proxy!Left(n))
      BY <2>2, <3>1
    <3>3. state # "fresh"
      BY <3>1 DEF ProxyInv, Awaited, Hello, Login, Connect4, Dropped
    <3> QED
      BY <1>2, <2>1, <3>1, <3>2, <3>3, ProxyDrops
  <2> QED
    BY <2>3, <2>4
<1> QED
  BY <1>4, <1>5

(* The invariant holds at the start, ...                                   *)
LEMMA ProxyStarts ==
  ASSUME Proxy!Init
  PROVE  ProxyInv
<1>1. /\ proxy \in Proxies /\ version \in Proxy!Versions /\ at = "start" /\ open = FALSE
      /\ in = << >> /\ state = "fresh" /\ closed = FALSE /\ eaten = {} /\ trouble = FALSE
  BY DEF Proxy!Init
<1>2. ProxyTyped
  <2>1. in \in Seq(ProxyBytes) /\ Len(in) <= 4
    BY <1>1, EmptySeq
  <2>2. \A b \in eaten : ServersByte(b)
    BY <1>1
  <2> QED
    BY <1>1, <2>1, <2>2 DEF ProxyTyped
<1>3. Awaited /\ Quiet /\ Persistent /\ Proxy!YesIsGranted
  BY <1>1 DEF Awaited, Quiet, Persistent, Proxy!Unanswered, Proxy!YesIsGranted
<1> QED
  BY <1>2, <1>3 DEF ProxyInv

(* ... every step keeps it, ...                                            *)
LEMMA ProxySteps ==
  ASSUME ProxyInv, Proxy!Client \/ Proxy!ServerSpeaks
  PROVE  ProxyInv'
BY ProxyReached, ProxyUnreached, ProxyAnswered, ProxyBroken, ProxyServerSpeaks
   DEF Proxy!Client

(* ... and it tells what Connect reports.                                  *)
LEMMA ProxyTold ==
  ASSUME ProxyInv
  PROVE  Proxy!YesIsGranted /\ Proxy!ConnectsWhenItCan
BY DEF ProxyInv, Persistent, Obliging, Proxy!ConnectsWhenItCan
-----------------------------------------------------------------------------
(* The numbers that GetData counts stay within the file and the buffer.    *)
LEMMA FetchBounds ==
  ASSUME Counts, Fetch, held \in 0 .. Full - 1, dpos <= FileLen
  PROVE  /\ dpos' <= FileLen /\ held' \in 0 .. Full - 1
         /\ InStep => from' + total' <= FileLen
         /\ code' \in {code, -3, -2, -1, 1} /\ at' \in {"data", "retry", "went"}
         /\ data' \in {"none", data}
<1> USE GetDataAssumption
<1>1. from' = from /\ Counts' /\ at' \in {"data", "retry", "went"}
  BY FetchSteps DEF Fetch
<1>2. /\ from \in Nat /\ total \in Nat /\ held \in Nat /\ dpos \in Nat
  BY DEF Counts
<1>3. \A r \in {"stop", "url", "fail", "lost"} : Ends(r) => code' \in {-3, -2, -1, 1}
  BY DEF Ends, GoResult, Results
<1>4. \A r \in Results, n \in Nat :
        WriteData(r, n) => held' = 0 /\ (total' = total + n \/ total' = total)
  BY DEF WriteData, CountedBytes
<1>5. CASE Receive
  <2>1. PICK n \in 1 .. FileLen - dpos :
          LET h == held + n
          IN /\ dpos' = dpos + n
             /\ IF h < Full
                  THEN held' = h /\ UNCHANGED <<at, code, total, file>>
                  ELSE \E r \in Results :
                         /\ WriteData(r, h)
                         /\ IF r = "more" THEN UNCHANGED <<at, code>> ELSE Ends(r)
    BY <1>5 DEF Receive
  <2>2. /\ n \in Nat /\ dpos' = dpos + n /\ dpos' <= FileLen /\ held + n \in Nat
        /\ dpos + n <= FileLen /\ UNCHANGED data
    BY <1>2, <1>5, <2>1 DEF Receive
  <2>3. CASE held + n < Full
    <3>1. held' = held + n /\ total' = total /\ code' = code
      BY <2>1, <2>3
    <3> QED
      BY <1>1, <1>2, <2>2, <2>3, <3>1 DEF InStep
  <2>4. CASE ~(held + n < Full)
    <3>1. PICK r \in Results :
            /\ WriteData(r, held + n)
            /\ IF r = "more" THEN UNCHANGED <<at, code>> ELSE Ends(r)
      BY <2>1, <2>4
    <3>2. held' = 0 /\ (total' = total + (held + n) \/ total' = total)
      BY <1>4, <2>2, <3>1
    <3>3. code' \in {code, -3, -2, -1, 1}
      BY <1>3, <3>1 DEF Results
    <3> QED
      BY <1>1, <1>2, <2>2, <3>2, <3>3 DEF InStep
  <2> QED
    BY <2>3, <2>4
<1>6. CASE DataEnds
  <2>1. PICK r \in Results : WriteData(r, held) /\ Ends(IF r = "more" THEN "stop" ELSE r)
    BY <1>6 DEF DataEnds
  <2>2. held' = 0 /\ (total' = total + held \/ total' = total)
    BY <1>2, <1>4, <2>1
  <2>3. code' \in {code, -3, -2, -1, 1}
    BY <2>1 DEF Ends, GoResult, Results
  <2>4. dpos' = dpos /\ data' = "none"
    BY <1>6 DEF DataEnds
  <2> QED
    BY <1>1, <1>2, <2>2, <2>3, <2>4 DEF InStep
<1>7. CASE DataLost
  <2>1. \/ Ends("lost") /\ held' = held /\ total' = total /\ held = 0
        \/ \E r \in Results : WriteData(r, held) /\ Ends(IF r = "more" THEN "lost" ELSE r)
    BY <1>7 DEF DataLost
  <2>2. held' = 0 /\ (total' = total + held \/ total' = total)
    BY <1>2, <1>4, <2>1
  <2>3. code' \in {code, -3, -2, -1, 1}
    BY <2>1 DEF Ends, GoResult, Results
  <2>4. dpos' = dpos /\ data' = "none"
    BY <1>7 DEF DataLost
  <2> QED
    BY <1>1, <1>2, <2>2, <2>3, <2>4 DEF InStep
<1> QED
  BY <1>5, <1>6, <1>7 DEF Fetch
-----------------------------------------------------------------------------
(* FtpSession: the bounds of its types.                                    *)

FtpPlaces == Ftp!InfoSteps \cup Ftp!GoSteps \cup {"task", "yes", "no", "went", "end"}
DataStates == {"none", "open", "list", "listed", "sending"}

FtpBounds ==
  /\ at \in FtpPlaces /\ data \in DataStates /\ size \in {-1, FileLen}
  /\ budget \in -3 .. Budget /\ (at # "end" => budget >= 0)
  /\ retry \in 0 .. RETRY /\ (at \in Ftp!InfoSteps \cup Ftp!GoSteps => retry >= 1)
  /\ code \in -7 .. 1
  /\ rest <= FileLen /\ dpos <= FileLen /\ from + total <= FileLen
  /\ held \in 0 .. Full - 1

(* The step that follows a reply is one of the session.                    *)
LEMMA StepsFollow ==
  /\ \A cmd \in Ftp!Asked :
       /\ Ftp!Else(cmd) \in Ftp!InfoSteps \cup Ftp!GoSteps \cup {"yes", "no"}
       /\ cmd # "quit" =>
            Ftp!Then(cmd) \in Ftp!InfoSteps \cup Ftp!GoSteps \cup {"yes", "no"}
       /\ cmd \in {"iuser", "user"} =>
            Ftp!Then(Ftp!Then(cmd)) \in Ftp!InfoSteps \cup Ftp!GoSteps \cup {"yes", "no"}
       /\ code \in -7 .. 1 => Ftp!Result(cmd) \in -7 .. 1
<1> USE DEF Ftp!Asked, Ftp!Unasked, Ftp!InfoSteps, Ftp!GoSteps
<1>1. \A cmd \in Ftp!Asked :
        Ftp!Else(cmd) \in Ftp!InfoSteps \cup Ftp!GoSteps \cup {"yes", "no"}
  BY SMTT(60) DEF Ftp!Else
<1>2. \A cmd \in Ftp!Asked : cmd # "quit" =>
        Ftp!Then(cmd) \in Ftp!InfoSteps \cup Ftp!GoSteps \cup {"yes", "no"}
  BY SMTT(60) DEF Ftp!Then
<1>3. \A cmd \in {"iuser", "user"} :
        Ftp!Then(Ftp!Then(cmd)) \in Ftp!InfoSteps \cup Ftp!GoSteps \cup {"yes", "no"}
  <2>1. Ftp!Then("iuser") = "ipass" /\ Ftp!Then("user") = "pass"
    BY DEF Ftp!Then
  <2>2. Ftp!Then("ipass") = "itype" /\ Ftp!Then("pass") = "pasv"
    BY DEF Ftp!Then
  <2> QED
    BY <2>1, <2>2
<1>4. \A cmd \in Ftp!Asked : code \in -7 .. 1 => Ftp!Result(cmd) \in -7 .. 1
  BY SMTT(60) DEF Ftp!Result
<1> QED
  BY <1>1, <1>2, <1>3, <1>4, Zenon

(* A command was sent.                                                     *)
LEMMA SendingBounds ==
  ASSUME FtpBounds, NEW next, NEW w, NEW d \in DataStates, Ftp!Send(next, w, d)
  PROVE  at' = next /\ data' \in DataStates /\ dpos' <= FileLen /\ rest' <= FileLen
<1> DEFINE out == IF ctrl THEN Ftp!Lines(next, d) ELSE << >>
           begun == out # << >> /\ out[1].code \in {125, 150}
<1>1. /\ at' = next
      /\ data' = (IF next = "list" /\ begun THEN "list"
                  ELSE IF next = "retr" /\ begun THEN "sending" ELSE d)
      /\ dpos' = (IF next = "retr" /\ begun THEN rest ELSE dpos)
      /\ rest' = (IF next = "rest" /\ out = Ftp!One(350) THEN Ftp!ResumeAt ELSE rest)
  BY Zenon DEF Ftp!Send
<1> HIDE DEF out, begun
<1>2. Ftp!ResumeAt <= FileLen /\ rest <= FileLen /\ dpos <= FileLen
  BY DEF Ftp!ResumeAt, FtpBounds
<1>3. dpos' <= FileLen /\ rest' <= FileLen
  BY <1>1, <1>2, Zenon
<1>4. data' \in DataStates
  BY <1>1 DEF DataStates
<1> QED
  BY <1>1, <1>3, <1>4

(* The bounds after each action: a piece is given out, ...                 *)
LEMMA FtpBoundsGetTask ==
  ASSUME Ftp!FtpSessionAssumption, FtpBounds, Ftp!GetTask
  PROVE  FtpBounds'
<1> USE GetDataAssumption
<1>1. /\ at = "task" /\ from' \in 0 .. FileLen /\ total' = 0 /\ held' = 0 /\ code' = 0
      /\ at' \in {"connect", "iconnect"} /\ retry' \in 1 .. RETRY /\ size' = -1
      /\ UNCHANGED <<budget, rest, data, dpos>>
  BY DEF Ftp!FtpSessionAssumption, Ftp!GetTask, Ftp!control, Ftp!None
<1>2. at' \in FtpPlaces /\ budget >= 0
  BY <1>1 DEF FtpBounds, FtpPlaces, Ftp!InfoSteps, Ftp!GoSteps
<1>a. ASSUME NEW f \in 0 .. FileLen PROVE f + 0 <= FileLen
  BY <1>a
<1>3. from' + total' <= FileLen /\ held' \in 0 .. Full - 1 /\ code' \in -7 .. 1
  <2>1. from' + total' <= FileLen
    BY <1>1, <1>a, Zenon
  <2>2. 0 \in 0 .. Full - 1 /\ 0 \in -7 .. 1
    OBVIOUS
  <2> QED
    BY <1>1, <2>1, <2>2, Zenon
<1>4. retry' \in 0 .. RETRY /\ retry' >= 1
  BY <1>1 DEF Ftp!FtpSessionAssumption
<1> QED
  BY <1>1, <1>2, <1>3, <1>4 DEF FtpBounds

(* ... the control connection is made or refused, ...                      *)
LEMMA FtpBoundsConnect ==
  ASSUME Ftp!FtpSessionAssumption, FtpBounds, Ftp!Connect
  PROVE  FtpBounds'
<1> USE GetDataAssumption
<1>1. /\ at \in {"iconnect", "connect"} /\ data' = "none" /\ rest' = 0
      /\ UNCHANGED <<budget, from, retry, dpos, held, total, size>>
      /\ \/ at' \in {"greet", "igreet"} /\ code' = code
         \/ at' = Ftp!Else(at) /\ code' = Ftp!Result(at)
  BY DEF Ftp!Connect, Ftp!ant, Ftp!found
<1>2. at' \in {"greet", "igreet", "retry", "iretry"}
  BY <1>1 DEF Ftp!Else
<1>3. code' \in -7 .. 1
  BY <1>1 DEF Ftp!Result, FtpBounds
<1>4. retry >= 1 /\ budget >= 0 /\ at' \in FtpPlaces
  BY <1>1, <1>2 DEF FtpBounds, FtpPlaces, Ftp!InfoSteps, Ftp!GoSteps
<1>5. data' \in DataStates /\ rest' <= FileLen
  BY <1>1 DEF DataStates
<1> QED
  BY <1>1, <1>2, <1>3, <1>4, <1>5 DEF FtpBounds

(* ... a reply is read, ...                                                *)
LEMMA FtpBoundsAnswered ==
  ASSUME Ftp!FtpSessionAssumption, FtpBounds, Ftp!Answered
  PROVE  FtpBounds'
<1> USE GetDataAssumption
<1> DEFINE k == Ftp!FirstFinal(wire)
           c == wire[k].code
           ok == c \in Ftp!Reply(at) /\ Ftp!Parsed(at)
           next == IF ~ok THEN Ftp!Else(at)
                   ELSE IF Ftp!NoPass(c) THEN Ftp!Then(Ftp!Then(at)) ELSE Ftp!Then(at)
<1>1. PICK m : Ftp!Send(next, SubSeq(wire, k + m + 1, Len(wire)), data)
  BY DEF Ftp!Answered
<1>2. /\ at \in Ftp!Asked /\ size' = Ftp!SizeFound(ok)
      /\ code' = IF ok \/ at \in Ftp!InfoSteps THEN code ELSE Ftp!Result(at)
      /\ UNCHANGED <<server, budget, from, retry, held, total>>
  BY DEF Ftp!Answered, Ftp!ant
<1>3. data \in DataStates
  BY DEF FtpBounds
<1>4. next \in Ftp!InfoSteps \cup Ftp!GoSteps \cup {"yes", "no"}
  <2>1. ok => at # "quit"
    BY DEF Ftp!Reply
  <2>2. Ftp!NoPass(c) => at \in {"iuser", "user"}
    BY DEF Ftp!NoPass
  <2> QED
    BY <1>2, <2>1, <2>2, StepsFollow, Zenon
<1>5. size' \in {-1, FileLen} /\ code' \in -7 .. 1
  <2>1. size' \in {size, FileLen}
    BY <1>2, Zenon DEF Ftp!SizeFound
  <2>2. code' \in -7 .. 1
    BY <1>2, StepsFollow, Zenon DEF FtpBounds
  <2> QED
    BY <2>1, <2>2 DEF FtpBounds
<1> HIDE DEF next, k, ok
<1>6. at' = next /\ data' \in DataStates /\ dpos' <= FileLen /\ rest' <= FileLen
  BY <1>1, <1>3, SendingBounds
<1>7. retry >= 1 /\ budget >= 0
  BY <1>2 DEF FtpBounds, Ftp!Asked, Ftp!InfoSteps, Ftp!GoSteps
<1>8. at' \in FtpPlaces /\ at' # "end"
  BY <1>4, <1>6 DEF FtpPlaces, Ftp!InfoSteps, Ftp!GoSteps
<1> QED
  BY <1>2, <1>5, <1>6, <1>7, <1>8 DEF FtpBounds

(* ... or none comes, ...                                                  *)
LEMMA FtpBoundsUnanswered ==
  ASSUME Ftp!FtpSessionAssumption, FtpBounds, Ftp!Unanswered
  PROVE  FtpBounds'
<1>1. /\ at \in Ftp!Asked /\ at' = Ftp!Else(at)
      /\ code' = IF at \in Ftp!InfoSteps THEN code ELSE Ftp!Result(at)
      /\ UNCHANGED <<budget, from, retry, rest, data, dpos, held, total, size>>
  BY DEF Ftp!Unanswered, Ftp!ant, Ftp!channel
<1>2. at' \in Ftp!InfoSteps \cup Ftp!GoSteps \cup {"yes", "no"}
  BY <1>1, StepsFollow
<1>3. code' \in -7 .. 1
  BY <1>1, StepsFollow, Zenon DEF FtpBounds
<1>4. retry >= 1 /\ budget >= 0
  BY <1>1 DEF FtpBounds, Ftp!Asked, Ftp!InfoSteps, Ftp!GoSteps
<1>5. at' \in FtpPlaces /\ at' # "end"
  BY <1>2 DEF FtpPlaces, Ftp!InfoSteps, Ftp!GoSteps
<1> QED
  BY <1>1, <1>3, <1>4, <1>5 DEF FtpBounds

(* ... the data connection is made or refused, ...                         *)
LEMMA FtpBoundsDataConnect ==
  ASSUME Ftp!FtpSessionAssumption, FtpBounds, Ftp!DataConnect
  PROVE  FtpBounds'
<1>1. /\ at \in {"lconn", "dconn"}
      /\ UNCHANGED <<budget, from, retry, held, total, size>>
      /\ \/ Ftp!Send(Ftp!Then(at), wire, "open") /\ code' = code
         \/ Ftp!Send(Ftp!Else(at), wire, "none") /\ code' = Ftp!Result(at)
  BY DEF Ftp!DataConnect, Ftp!ant, Ftp!found
<1>2. /\ Ftp!Then(at) \in {"list", "type"} /\ Ftp!Else(at) \in {"type2", "quit"}
  BY <1>1 DEF Ftp!Then, Ftp!Else
<1>3. code' \in -7 .. 1
  BY <1>1 DEF Ftp!Result, FtpBounds
<1>4. /\ at' \in {"list", "type", "type2", "quit"}
      /\ data' \in DataStates /\ dpos' <= FileLen /\ rest' <= FileLen
  <2>1. "open" \in DataStates /\ "none" \in DataStates
    BY DEF DataStates
  <2> QED
    BY <1>1, <1>2, <2>1, SendingBounds
<1>5. retry >= 1 /\ budget >= 0 /\ at' \in FtpPlaces
  BY <1>1, <1>4 DEF FtpBounds, FtpPlaces, Ftp!InfoSteps, Ftp!GoSteps
<1> QED
  BY <1>1, <1>3, <1>4, <1>5 DEF FtpBounds

(* ... the listing is read, ...                                            *)
LEMMA FtpBoundsReadListing ==
  ASSUME Ftp!FtpSessionAssumption, FtpBounds, Ftp!ReadListing
  PROVE  FtpBounds'
<1>1. /\ at = "ldata"
      /\ UNCHANGED <<budget, from, retry, code, held, total, size>>
      /\ Ftp!Send("lend", wire, data) \/ Ftp!Send("type2", wire, data)
  BY DEF Ftp!ReadListing, Ftp!ant, Ftp!found
<1>2. /\ at' \in {"lend", "type2"}
      /\ data' \in DataStates /\ dpos' <= FileLen /\ rest' <= FileLen
  <2>1. data \in DataStates
    BY DEF FtpBounds
  <2> QED
    BY <1>1, <2>1, SendingBounds
<1>3. retry >= 1 /\ budget >= 0 /\ at' \in FtpPlaces
  BY <1>1, <1>2 DEF FtpBounds, FtpPlaces, Ftp!InfoSteps, Ftp!GoSteps
<1> QED
  BY <1>1, <1>2, <1>3 DEF FtpBounds

(* ... a session ends, a retry is charged, ...                             *)
LEMMA FtpBoundsBetween ==
  ASSUME Ftp!FtpSessionAssumption, FtpBounds, Ftp!Retry \/ Ftp!Checked \/ Ftp!Went
  PROVE  FtpBounds'
<1>1. /\ RETRY \in Nat \ {0} /\ Budget \in Nat /\ budget \in -3 .. Budget /\ retry \in 0 .. RETRY
  BY DEF Ftp!FtpSessionAssumption, FtpBounds
<1>2. CASE Ftp!Retry
  <2>1. /\ at \in {"iretry", "retry"} /\ retry' = retry - 1
        /\ retry' > 0 => at' \in {"connect", "iconnect"}
        /\ ~(retry' > 0) => at' \in {"went", "no"}
        /\ UNCHANGED <<budget, from, code, rest, data, dpos, held, total, size>>
    BY <1>2 DEF Ftp!Retry, Ftp!ant, Ftp!control, Ftp!channel, Ftp!found
  <2>2. retry >= 1 /\ budget >= 0
    BY <2>1 DEF FtpBounds, Ftp!InfoSteps, Ftp!GoSteps
  <2>3. retry' \in 0 .. RETRY /\ at' \in FtpPlaces /\ at' # "end"
    BY <1>1, <2>1, <2>2 DEF FtpPlaces, Ftp!InfoSteps, Ftp!GoSteps
  <2>4. at' \in Ftp!InfoSteps \cup Ftp!GoSteps => retry' >= 1
    <3>1. ~(retry' > 0) => at' \notin Ftp!InfoSteps \cup Ftp!GoSteps
      BY <2>1 DEF Ftp!InfoSteps, Ftp!GoSteps
    <3> QED
      BY <2>3, <3>1
  <2> QED
    BY <2>1, <2>2, <2>3, <2>4 DEF FtpBounds
<1>3. ASSUME NEW m \in {1, 3}, at \in {"yes", "no", "went"}, Ftp!Charge(m),
             UNCHANGED <<from, code, rest, data, dpos, held, total, size>>
      PROVE  FtpBounds'
  <2>1. budget >= 0
    BY <1>3 DEF FtpBounds
  <2>2. /\ budget' = budget - m /\ retry' = retry
        /\ at' = (IF budget' < 0 THEN "end" ELSE "task")
    BY <1>3 DEF Ftp!Charge
  <2>3. budget' \in -3 .. Budget /\ (at' # "end" => budget' >= 0)
    BY <1>1, <2>1, <2>2
  <2>4. at' \in FtpPlaces /\ at' \notin Ftp!InfoSteps \cup Ftp!GoSteps
    BY <2>2 DEF FtpPlaces, Ftp!InfoSteps, Ftp!GoSteps
  <2> QED
    BY <1>3, <2>2, <2>3, <2>4 DEF FtpBounds
<1>4. CASE Ftp!Checked
  <2>1. /\ at \in {"yes", "no"}
        /\ UNCHANGED <<from, code, rest, data, dpos, held, total, size>>
        /\ \/ at' = "connect" /\ retry' = RETRY /\ budget' = budget
           \/ Ftp!Charge(1)
    BY <1>4 DEF Ftp!Checked, Ftp!channel, Ftp!found
  <2>2. CASE at' = "connect" /\ retry' = RETRY /\ budget' = budget
    <3>1. budget >= 0 /\ retry' \in 0 .. RETRY /\ retry' >= 1 /\ at' \in FtpPlaces
      BY <1>1, <2>1, <2>2 DEF FtpBounds, FtpPlaces, Ftp!InfoSteps, Ftp!GoSteps
    <3> QED
      BY <2>1, <2>2, <3>1 DEF FtpBounds
  <2> QED
    BY <1>3, <2>1, <2>2
<1>5. CASE Ftp!Went
  <2>1. /\ at = "went"
        /\ UNCHANGED <<from, code, rest, data, dpos, held, total, size>>
        /\ \/ at' = "task" /\ retry' = retry /\ budget' = budget
           \/ Ftp!Charge(3)
    BY <1>5 DEF Ftp!Went, Ftp!channel, Ftp!found
  <2>2. CASE at' = "task" /\ retry' = retry /\ budget' = budget
    <3>1. /\ budget >= 0 /\ at' \in FtpPlaces
          /\ at' \notin Ftp!InfoSteps \cup Ftp!GoSteps
      BY <2>1, <2>2 DEF FtpBounds, FtpPlaces, Ftp!InfoSteps, Ftp!GoSteps
    <3> QED
      BY <2>1, <2>2, <3>1 DEF FtpBounds
  <2> QED
    BY <1>3, <2>1, <2>2
<1> QED
  BY <1>2, <1>4, <1>5

(* ... bytes arrive, ...                                                   *)
LEMMA FtpBoundsTransfer ==
  ASSUME Ftp!FtpSessionAssumption, FtpInv, FtpBounds, Ftp!Transfer
  PROVE  FtpBounds'
<1> USE GetDataAssumption
<1>1. /\ Counts /\ Fetch /\ at = "data"
      /\ UNCHANGED <<budget, from, retry, rest, size>>
  <2>1. /\ Ftp!Receive \/ Ftp!DataEnds \/ Ftp!DataLost
        /\ UNCHANGED <<budget, from, retry, rest, size>>
    BY DEF Ftp!Transfer, Ftp!ant, Ftp!control, Ftp!found
  <2>2. Receive \/ DataEnds \/ DataLost
    BY <2>1 DEF Ftp!Receive, Ftp!DataEnds, Ftp!DataLost, Receive, DataEnds, DataLost,
                Ftp!WriteData, Ftp!Ends, Ftp!CountedBytes, Ftp!GoResult, Ftp!Piece,
                Ftp!Results, WriteData, Ends, CountedBytes, GoResult, Piece, Results
  <2>3. at = "data" /\ Counts
    BY <2>2 DEF Receive, DataEnds, DataLost, FtpInv, FtpTyped
  <2> QED
    BY <2>1, <2>2, <2>3 DEF Fetch
<1>2. held \in 0 .. Full - 1 /\ dpos <= FileLen
  BY DEF FtpBounds
<1>3. /\ dpos' <= FileLen /\ held' \in 0 .. Full - 1
      /\ InStep => from' + total' <= FileLen
      /\ code' \in {code, -3, -2, -1, 1} /\ at' \in {"data", "retry", "went"}
      /\ data' \in {"none", data}
  BY <1>1, <1>2, FetchBounds
<1>4. from' + total' <= FileLen
  <2>1. CASE data = "sending"
    BY <1>1, <1>3, <2>1 DEF FtpInv, Placed
  <2>2. CASE data # "sending"
    <3>1. DataLost /\ held = 0
      BY <1>1, <2>2 DEF FtpInv, Placed, Fetch, Receive, DataEnds
    <3>2. total' = total
      BY <3>1, <1>1 DEF DataLost, Counts
    <3> QED
      BY <1>1, <3>2 DEF FtpBounds
  <2> QED
    BY <2>1, <2>2
<1>5. retry >= 1 /\ budget >= 0 /\ at' \in FtpPlaces /\ at' # "end"
  BY <1>1, <1>3 DEF FtpBounds, FtpPlaces, Ftp!InfoSteps, Ftp!GoSteps
<1>6. code' \in -7 .. 1 /\ data' \in DataStates
  BY <1>3 DEF FtpBounds, DataStates
<1> QED
  BY <1>1, <1>3, <1>4, <1>5, <1>6 DEF FtpBounds

(* ... the server says that the listing is sent.                           *)
LEMMA FtpBoundsListingSent ==
  ASSUME FtpBounds, Ftp!ListingSent
  PROVE  FtpBounds'
BY DEF FtpBounds, Ftp!ListingSent, Ftp!ant, Ftp!session, Ftp!found, DataStates

(* The bounds at the start.                                                *)
LEMMA FtpBoundsStart ==
  ASSUME Ftp!FtpSessionAssumption, Ftp!Init
  PROVE  FtpBounds
BY GetDataAssumption DEF FtpBounds, Ftp!Init, Ftp!FtpSessionAssumption, FtpPlaces,
   DataStates, Ftp!InfoSteps, Ftp!GoSteps, Ftp!None

(* The invariant and the bounds give the types.                            *)
LEMMA FtpTypes ==
  ASSUME FtpInv, FtpBounds
  PROVE  Ftp!TypeOK
<1>1. /\ server \in Servers /\ ctrl \in BOOLEAN /\ resume \in BOOLEAN /\ lost \in BOOLEAN
      /\ wire \in Seq(ReplyLine)
      /\ rest \in Nat /\ from \in Nat /\ total \in Nat /\ dpos \in Nat
  BY DEF FtpInv, FtpTyped, Counts
<1>2. \A i \in 1 .. Len(wire) : wire[i] \in [code : 125 .. 550, more : BOOLEAN]
  <2>1. \A i \in 1 .. Len(wire) : wire[i] \in ReplyLine
    BY <1>1
  <2> QED
    BY <2>1, Zenon DEF ReplyLine, Codes
<1>3. from \in 0 .. FileLen /\ total \in 0 .. FileLen /\ rest \in 0 .. FileLen
      /\ dpos \in 0 .. FileLen
  BY <1>1, GetDataAssumption DEF FtpBounds
<1> QED
  BY <1>1, <1>2, <1>3 DEF FtpBounds, FtpPlaces, DataStates, Ftp!TypeOK, Ftp!None

(* Every session by FTP has its types.                                     *)
LEMMA FtpBounded ==
  ASSUME Ftp!FtpSessionAssumption, FtpInv, FtpBounds, [Ftp!Next]_Ftp!vars
  PROVE  FtpBounds'
<1>1. CASE UNCHANGED Ftp!vars
  BY <1>1 DEF Ftp!vars, Ftp!ant, Ftp!session, Ftp!control, Ftp!channel, Ftp!found,
     FtpBounds
<1>2. CASE Ftp!Next
  BY <1>1, <1>2, FtpBoundsGetTask, FtpBoundsConnect, FtpBoundsAnswered,
     FtpBoundsUnanswered, FtpBoundsDataConnect, FtpBoundsReadListing, FtpBoundsBetween,
     FtpBoundsTransfer, FtpBoundsListingSent
  DEF Ftp!Next, Ftp!Client, Ftp!Quit
<1> QED
  BY <1>1, <1>2
-----------------------------------------------------------------------------
(* HttpSession: the bounds of its types.                                   *)

HttpBounds ==
  /\ at \in Http!Places /\ checking \in {"init", "ant"} /\ redirect \in BOOLEAN
  /\ size \in Nat \cup {-1} /\ tasklen \in Nat \cup {-1} /\ ants \in 1 .. MaxAnts
  /\ data \in {"none", "sending"}
  /\ budget \in -3 .. Budget /\ (at # "end" => budget >= 0)
  /\ retry \in 0 .. RETRY
  /\ at \in {"head", "get", "connect", "data", "retry"} => retry >= 1
  /\ code \in -3 .. 1
  /\ from <= FileLen /\ dpos <= FileLen /\ held \in 0 .. Full - 1
  /\ at \in {"url", "head", "get", "yes", "no"} => total = 0
  /\ url \in Ranges /\ at \in {"connect", "data", "retry"} => from + total <= FileLen

(* The bounds after each action: a reply is read, ...                      *)
LEMMA HttpBoundsReplied ==
  ASSUME Http!HttpSessionAssumption, HttpInv, HttpBounds, Http!Replied
  PROVE  HttpBounds'
<1>1. PICK b \in Seq(Http!HeadLine), c \in StatusCodes :
        /\ size' = Http!Length(b)
        /\ redirect' = (redirect \/ Http!Items(b, "location") # {})
        /\ retry' = IF c # Http!None /\ Http!Refused(c)
                    THEN Http!Spent(retry) ELSE retry
        /\ at' = Http!Judged(c, b, Http!More(retry'), redirect')
  BY ReplyRead DEF HttpInv
<1>2. /\ at \in {"head", "get"}
      /\ UNCHANGED <<url, checking, code, budget, tasklen, ants, from, total, held, data, dpos>>
  BY DEF Http!Replied, Http!piece, Http!task
<1>3. size' \in Nat \cup {-1} /\ redirect' \in BOOLEAN
  BY <1>1, LengthTold
<1>4. /\ at' \in {"head", "get", "yes", "no"} /\ retry' \in 0 .. RETRY
      /\ at' \in {"head", "get"} => retry' >= 1
  <2> DEFINE again == Http!More(retry')
             moved == redirect'
  <2>1. at' = Http!Judged(c, b, again, moved)
    BY <1>1
  <2>2. retry' = IF c # Http!None /\ Http!Refused(c) THEN retry - 1 ELSE retry
    BY <1>1 DEF Http!Spent
  <2>3. again => retry' > 0
    BY DEF Http!More
  <2>4. retry \in 0 .. RETRY /\ retry >= 1 /\ RETRY \in Nat
    BY <1>2 DEF HttpBounds, Http!HttpSessionAssumption
  <2>5. retry' \in 0 .. RETRY
    BY <2>2, <2>4
  <2> HIDE DEF again, moved
  <2>6. CASE c = Http!None
    <3>1. at' = "no"
      BY <2>1, <2>6, CodeIs DEF Http!Judged
    <3> QED
      BY <2>5, <3>1
  <2>7. CASE Http!Refused(c) /\ c # Http!None
    <3>1. at' = IF again THEN at ELSE "no"
      BY <2>1, <2>7, CodeIs DEF Http!Judged
    <3>2. CASE again
      BY <1>2, <2>3, <2>5, <3>1, <3>2
    <3>3. CASE ~again
      BY <2>5, <3>1, <3>3
    <3> QED
      BY <3>2, <3>3
  <2>8. CASE ~Http!Refused(c) /\ c # Http!None
    <3>1. Http!OK(c) \/ Http!Moved(c)
      BY <2>8, CodeIs
    <3>2. at' \in {"yes", "get", "no"}
      BY <2>1, <2>8, <3>1 DEF Http!Judged
    <3>3. retry' = retry
      BY <2>2, <2>8
    <3> QED
      BY <2>4, <2>5, <3>2, <3>3
  <2> QED
    BY <2>6, <2>7, <2>8
<1> QED
  BY <1>2, <1>3, <1>4 DEF HttpBounds, Http!Places

(* ... a piece is given out, ...                                           *)
LEMMA HttpBoundsGetTask ==
  ASSUME Http!HttpSessionAssumption, HttpBounds, Http!GetTask
  PROVE  HttpBounds'
<1> USE GetDataAssumption
<1>1. /\ at = "ask" /\ at' \in {"head", "connect"} /\ retry' \in 1 .. RETRY
      /\ from' \in 0 .. FileLen /\ total' = 0 /\ held' = 0 /\ code' = 0
      /\ size' \in {size, -1} /\ redirect' \in {redirect, FALSE}
      /\ UNCHANGED <<checking, budget, tasklen, ants, data, dpos>>
  <2>1. /\ at = "ask" /\ from' \in 0 .. FileLen /\ total' = 0 /\ held' = 0 /\ code' = 0
        /\ UNCHANGED <<checking, budget, tasklen, ants, data, dpos>>
    BY DEF Http!GetTask, Http!task
  <2>2. PICK u \in Urls \ FtpUrls : Http!NewInfo(u, 1) \/ Http!Goes(u)
    BY DEF Http!GetTask
  <2>3. 1 \in 1 .. RETRY /\ RETRY \in 1 .. RETRY
    BY DEF Http!HttpSessionAssumption
  <2>4. /\ at' \in {"head", "connect"} /\ retry' \in {1, RETRY}
        /\ size' \in {size, -1} /\ redirect' \in {redirect, FALSE}
    BY <2>2 DEF Http!NewInfo, Http!Goes, Http!info, Http!None
  <2>5. retry' \in 1 .. RETRY
    BY <2>3, <2>4
  <2> QED
    BY <2>1, <2>4, <2>5
<1>2. budget >= 0 /\ at' \in Http!Places /\ RETRY \in Nat
  BY <1>1 DEF HttpBounds, Http!Places, Http!HttpSessionAssumption
<1>3. from' + total' <= FileLen
  <2>1. ASSUME NEW f \in 0 .. FileLen PROVE f + 0 <= FileLen
    BY <2>1
  <2> QED
    BY <1>1, <2>1, Zenon
<1>4. held' \in 0 .. Full - 1 /\ code' \in -3 .. 1 /\ from' <= FileLen
  <2>1. 0 \in 0 .. Full - 1 /\ 0 \in -3 .. 1
    OBVIOUS
  <2>2. from' <= FileLen
    BY <1>1
  <2> QED
    BY <1>1, <2>1, <2>2, Zenon
<1>5. retry' \in 0 .. RETRY /\ retry' >= 1
  BY <1>1, <1>2
<1>6. size' \in Nat \cup {-1} /\ redirect' \in BOOLEAN
  BY <1>1 DEF HttpBounds
<1> QED
  BY <1>1, <1>2, <1>3, <1>4, <1>5, <1>6 DEF HttpBounds

(* ... a piece was asked for, ...                                          *)
LEMMA HttpBoundsAsked ==
  ASSUME HttpInv, HttpBounds, Http!Asked
  PROVE  HttpBounds'
<1> USE GetDataAssumption
<1>1. /\ at = "connect" /\ at' \in {"retry", "data"} /\ code' \in {code, -1, -2}
      /\ UNCHANGED <<url, checking, retry, size, redirect, budget, tasklen, ants, from,
                     total, held>>
      /\ data' \in {data, "sending"}
      /\ \/ dpos' = dpos
         \/ dpos' = (IF url \in Ranges THEN from + total ELSE 0)
  BY DEF Http!Asked, Http!SendHttpGetRequest, Http!GetHead, Http!info, Http!ResumeAt,
         Http!task
<1>2. dpos' <= FileLen
  <2>1. url \in Ranges => from + total <= FileLen
    BY <1>1 DEF HttpBounds
  <2>2. dpos <= FileLen /\ 0 <= FileLen
    BY DEF HttpBounds
  <2> QED
    BY <1>1, <2>1, <2>2, Zenon
<1>3. budget >= 0 /\ retry >= 1 /\ at' \in Http!Places
  BY <1>1 DEF HttpBounds, Http!Places
<1>4. code' \in -3 .. 1 /\ data' \in {"none", "sending"}
  BY <1>1 DEF HttpBounds
<1> QED
  BY <1>1, <1>2, <1>3, <1>4 DEF HttpBounds

(* ... bytes arrive, ...                                                   *)
LEMMA HttpBoundsTransfer ==
  ASSUME HttpInv, HttpBounds, Http!Transfer
  PROVE  HttpBounds'
<1> USE GetDataAssumption
<1>1. /\ Fetch /\ Counts /\ at = "data"
      /\ UNCHANGED <<url, checking, retry, size, redirect, budget, tasklen, ants, from>>
  <2>1. /\ Http!Receive \/ Http!DataEnds \/ Http!DataLost
        /\ UNCHANGED <<url, checking, retry, size, redirect, budget, tasklen, ants, from>>
    BY DEF Http!Transfer, Http!info, Http!task
  <2>2. Receive \/ DataEnds \/ DataLost
    BY <2>1 DEF Http!Receive, Http!DataEnds, Http!DataLost, Receive, DataEnds, DataLost,
                Http!WriteData, Http!Ends, Http!CountedBytes, Http!GoResult, Http!Piece,
                Http!Results, WriteData, Ends, CountedBytes, GoResult, Piece, Results
  <2>3. at = "data" /\ Counts
    BY <2>2 DEF Receive, DataEnds, DataLost, HttpInv, HttpTyped
  <2> QED
    BY <2>1, <2>2, <2>3 DEF Fetch
<1>2. held \in 0 .. Full - 1 /\ dpos <= FileLen
  BY DEF HttpBounds
<1>3. /\ dpos' <= FileLen /\ held' \in 0 .. Full - 1
      /\ InStep => from' + total' <= FileLen
      /\ code' \in {code, -3, -2, -1, 1} /\ at' \in {"data", "retry", "went"}
      /\ data' \in {"none", data}
  BY <1>1, <1>2, FetchBounds
<1>4. url' \in Ranges => from' + total' <= FileLen
  BY <1>1, <1>3 DEF HttpInv, Underway
<1>5. budget >= 0 /\ retry >= 1 /\ at' \in Http!Places
  BY <1>1, <1>3 DEF HttpBounds, Http!Places
<1>6. code' \in -3 .. 1 /\ data' \in {"none", "sending"}
  BY <1>3 DEF HttpBounds
<1> QED
  BY <1>1, <1>3, <1>4, <1>5, <1>6 DEF HttpBounds

(* ... nothing is read: a URL is chosen or fails, a retry is charged.      *)
LEMMA HttpBoundsIdles ==
  ASSUME Http!HttpSessionAssumption, HttpInv, HttpBounds, Idles
  PROVE  HttpBounds'
<1> USE GetDataAssumption
<1>1. /\ RETRY \in Nat \ {0} /\ Budget \in Nat /\ budget \in -3 .. Budget /\ retry \in 0 .. RETRY
      /\ size \in Nat \cup {-1} /\ ants \in 1 .. MaxAnts /\ 1 \in 1 .. MaxAnts
  BY DEF Http!HttpSessionAssumption, HttpBounds
<1>2. ASSUME NEW m \in {1, 3}, at # "end", Http!Charge(m),
             UNCHANGED <<url, checking, retry, code, size, redirect, tasklen, ants, from,
                         total, held, data, dpos>>
      PROVE  HttpBounds'
  <2>1. budget >= 0
    BY <1>2 DEF HttpBounds
  <2>2. budget' = budget - m /\ at' = (IF budget' < 0 THEN "end" ELSE "ask")
    BY <1>2 DEF Http!Charge
  <2>3. budget' \in -3 .. Budget /\ (at' # "end" => budget' >= 0)
    BY <1>1, <2>1, <2>2
  <2>4. at' \in {"end", "ask"} /\ at' \in Http!Places
    BY <2>2 DEF Http!Places
  <2> QED
    BY <1>2, <2>3, <2>4 DEF HttpBounds
<1>3. ASSUME NEW u, NEW n \in 1 .. RETRY, Http!NewInfo(u, n), total = 0, at # "end",
             UNCHANGED <<checking, code, budget, tasklen, ants, from, total, held, data, dpos>>
      PROVE  HttpBounds'
  <2>1. at' = "head" /\ retry' = n /\ size' = -1 /\ redirect' = FALSE
    BY <1>3 DEF Http!NewInfo, Http!None
  <2>2. n \in 0 .. RETRY /\ n >= 1
    BY <1>1
  <2>3. at' \in Http!Places /\ budget >= 0
    BY <1>3, <2>1 DEF Http!Places, HttpBounds
  <2> QED
    BY <1>3, <2>1, <2>2, <2>3 DEF HttpBounds
<1>4. CASE Http!InitUrl
  <2>1. /\ at = "url" /\ UNCHANGED <<checking, code, budget, tasklen, ants, from, total,
                                     held, data, dpos>>
        /\ \/ at' = "ftp" /\ UNCHANGED <<url, retry, size, redirect>>
           \/ Http!NewInfo(url, RETRY)
    BY <1>4 DEF Http!InitUrl, Http!info, Http!task, Http!piece
  <2>2. CASE at' = "ftp" /\ UNCHANGED <<url, retry, size, redirect>>
    BY <2>1, <2>2 DEF HttpBounds, Http!Places
  <2>3. CASE Http!NewInfo(url, RETRY)
    <3>1. RETRY \in 1 .. RETRY /\ total = 0
      BY <1>1, <2>1 DEF HttpBounds
    <3> QED
      BY <1>3, <2>1, <2>3, <3>1
  <2> QED
    BY <2>1, <2>2, <2>3
<1>5. CASE Http!NoConnection
  <2>1. /\ at \in {"head", "get"} /\ retry' = retry - 1
        /\ at' = (IF retry' > 0 THEN at ELSE "no")
        /\ UNCHANGED <<url, checking, code, size, redirect, budget, tasklen, ants, from,
                       total, held, data, dpos>>
    BY <1>5 DEF Http!NoConnection, Http!Spent, Http!More, Http!info, Http!task, Http!piece
  <2>2. retry >= 1 /\ total = 0 /\ budget >= 0
    BY <2>1 DEF HttpBounds
  <2>3. retry' \in 0 .. RETRY /\ (at' \in {"head", "get"} => retry' >= 1)
        /\ at' \in {"head", "get", "no"}
    BY <1>1, <2>1, <2>2
  <2> QED
    BY <2>1, <2>2, <2>3 DEF HttpBounds, Http!Places
<1>6. CASE Http!NoHeader
  BY <1>6 DEF Http!NoHeader, Http!info, Http!task, Http!piece, HttpBounds, Http!Places
<1>7. CASE Http!InitInformed
  <2>1. /\ at = "yes"
        /\ UNCHANGED <<retry, code, size, redirect, budget, from, total, held, data, dpos>>
        /\ \/ at' = "url" /\ UNCHANGED <<checking, tasklen, ants>>
           \/ at' = "ask" /\ checking' = "ant" /\ tasklen' = size /\ ants' \in {1, ants}
    BY <1>7 DEF Http!InitInformed, Http!info, Http!task, Http!piece
  <2>2. total = 0 /\ budget >= 0
    BY <2>1 DEF HttpBounds
  <2>3. at' \in {"url", "ask"} /\ tasklen' \in Nat \cup {-1} /\ ants' \in 1 .. MaxAnts
        /\ checking' \in {"init", "ant"}
    BY <1>1, <2>1 DEF HttpBounds
  <2> QED
    BY <2>1, <2>2, <2>3 DEF HttpBounds, Http!Places
<1>8. CASE Http!InitFails
  BY <1>8 DEF Http!InitFails, Http!info, Http!task, Http!piece, HttpBounds, Http!Places
<1>9. CASE Http!Checked
  <2>1. /\ at \in {"yes", "no"}
        /\ UNCHANGED <<checking, code, tasklen, ants, from, total, held, data, dpos>>
        /\ \/ Http!Charge(1) /\ UNCHANGED <<url, retry, size, redirect>>
           \/ Http!NewInfo(target, 1) /\ UNCHANGED budget
           \/ Http!Goes(url) /\ UNCHANGED budget
    BY <1>9 DEF Http!Checked, Http!info, Http!task, Http!piece
  <2>2. total = 0 /\ budget >= 0 /\ from <= FileLen /\ from \in Nat
    BY <2>1 DEF HttpBounds, HttpInv, HttpTyped, Counts
  <2>3. CASE Http!Charge(1) /\ UNCHANGED <<url, retry, size, redirect>>
    BY <1>2, <2>1, <2>3
  <2>4. CASE Http!NewInfo(target, 1) /\ UNCHANGED budget
    <3>1. 1 \in 1 .. RETRY
      BY <1>1
    <3> QED
      BY <1>3, <2>1, <2>2, <2>4, <3>1
  <2>5. CASE Http!Goes(url) /\ UNCHANGED budget
    <3>1. at' = "connect" /\ retry' = RETRY /\ UNCHANGED <<url, size, redirect>>
      BY <2>5 DEF Http!Goes, Http!info
    <3>2. RETRY \in 0 .. RETRY /\ RETRY >= 1 /\ from + 0 <= FileLen
      BY <1>1, <2>2
    <3>3. from + total <= FileLen
      BY <2>2, <3>2, Zenon
    <3> QED
      BY <2>1, <2>2, <2>5, <3>1, <3>2, <3>3 DEF HttpBounds, Http!Places
  <2> QED
    BY <2>1, <2>3, <2>4, <2>5
<1>10. CASE Http!Retry
  <2>1. /\ at = "retry" /\ retry' = retry - 1
        /\ at' = (IF retry' > 0 THEN "connect" ELSE "went")
        /\ UNCHANGED <<url, checking, code, size, redirect, budget, tasklen, ants, from,
                       total, held, data, dpos>>
    BY <1>10 DEF Http!Retry, Http!Spent, Http!More, Http!info, Http!task, Http!piece
  <2>2. retry >= 1 /\ budget >= 0
    BY <2>1 DEF HttpBounds
  <2>3. retry' \in 0 .. RETRY /\ (at' = "connect" => retry' >= 1)
        /\ at' \in {"connect", "went"}
    BY <1>1, <2>1, <2>2
  <2> QED
    BY <2>1, <2>2, <2>3 DEF HttpBounds, Http!Places
<1>11. CASE Http!Went
  <2>1. /\ at = "went"
        /\ UNCHANGED <<url, checking, retry, code, size, redirect, tasklen, ants, from,
                       total, held, data, dpos>>
        /\ Http!Charge(3) \/ (at' = "ask" /\ UNCHANGED budget)
    BY <1>11 DEF Http!Went, Http!info, Http!task, Http!piece
  <2>2. CASE Http!Charge(3)
    BY <1>2, <2>1, <2>2
  <2>3. CASE at' = "ask" /\ UNCHANGED budget
    BY <2>1, <2>3 DEF HttpBounds, Http!Places
  <2> QED
    BY <2>1, <2>2, <2>3
<1> QED
  BY <1>4, <1>5, <1>6, <1>7, <1>8, <1>9, <1>10, <1>11 DEF Idles

(* The bounds at the start.                                                *)
LEMMA HttpBoundsStart ==
  ASSUME Http!HttpSessionAssumption, Http!Init
  PROVE  HttpBounds
<1>1. /\ at = "url" /\ checking = "init" /\ retry = 0 /\ code = 0 /\ redirect = FALSE
      /\ size = -1 /\ budget = Budget /\ tasklen = -1 /\ ants = MaxAnts
      /\ from = 0 /\ total = 0 /\ held = 0 /\ data = "none" /\ dpos = 0
  BY DEF Http!Init, Http!None
<1>2. RETRY \in Nat /\ Budget \in Nat /\ MaxAnts \in Nat /\ MaxAnts >= 1
  BY DEF Http!HttpSessionAssumption
<1>3. 0 <= FileLen /\ 0 \in 0 .. Full - 1
  BY GetDataAssumption
<1>4. /\ budget \in -3 .. Budget /\ budget >= 0 /\ ants \in 1 .. MaxAnts
      /\ retry \in 0 .. RETRY /\ code \in -3 .. 1
  BY <1>1, <1>2
<1>5. from <= FileLen /\ dpos <= FileLen /\ held \in 0 .. Full - 1
  BY <1>1, <1>3
<1> QED
  BY <1>1, <1>4, <1>5 DEF HttpBounds, Http!Places

(* The invariant and the bounds give the types.                            *)
LEMMA HttpTypes ==
  ASSUME HttpInv, HttpBounds
  PROVE  Http!TypeOK
<1>1. /\ url \in Urls /\ target \in Urls /\ buf \in Seq(Http!HeadLine)
      /\ from \in Nat /\ total \in Nat /\ dpos \in Nat
  BY DEF HttpInv, HttpTyped, Counts
<1>2. \A i \in 1 .. Len(buf) : buf[i].key \in {"length", "location", "status", "other"}
  BY <1>1 DEF Http!HeadLine
<1>3. from \in 0 .. FileLen /\ dpos \in 0 .. FileLen
  BY <1>1, GetDataAssumption DEF HttpBounds
<1> QED
  BY <1>1, <1>2, <1>3 DEF HttpBounds, Http!TypeOK, Http!None

(* Every session by HTTP has its types.                                    *)
LEMMA HttpBounded ==
  ASSUME Http!HttpSessionAssumption, HttpInv, HttpBounds, [Http!Next]_Http!vars
  PROVE  HttpBounds'
<1>1. CASE UNCHANGED Http!vars
  BY <1>1 DEF Http!vars, Http!info, Http!task, Http!piece, HttpBounds
<1>2. CASE Http!Next
  <2>1. \/ Idles \/ Http!Replied \/ Http!GetTask \/ Http!Asked \/ Http!Transfer
        \/ UNCHANGED Http!vars
    BY <1>2 DEF Http!Next, Http!Thread, Http!Stop, Idles
  <2> QED
    BY <1>1, <2>1, HttpBoundsIdles, HttpBoundsReplied, HttpBoundsGetTask,
       HttpBoundsAsked, HttpBoundsTransfer
<1> QED
  BY <1>1, <1>2
-----------------------------------------------------------------------------
(* The three together.                                                     *)

(* The inductive invariant: the one of the session that was chosen.        *)
SessionInv ==
  /\ kind \in {"ftp", "http", "proxy"}
  /\ kind = "ftp" => FtpInv /\ FtpBounds
  /\ kind = "http" => HttpInv /\ HttpBounds
  /\ kind = "proxy" => ProxyInv

(* A step that leaves the variables of the proxy alone keeps ProxyInv.     *)
LEMMA ProxyKept ==
  ASSUME ProxyInv,
         UNCHANGED <<proxy, version, at, open, in, state, closed, eaten, trouble>>
  PROVE  ProxyInv'
<1>1. ProxyTyped'
  BY DEF ProxyInv, ProxyTyped
<1>2. Awaited'
  BY DEF ProxyInv, Awaited, Hello, Login, Connect5, Connect4, Granted, Rejected,
     Dropped, Waiting, ServersByte, Proxy!Speaks
<1>3. Quiet'
  BY DEF ProxyInv, Quiet, ServersByte
<1>4. Persistent'
  BY ObligingBefore DEF ProxyInv, Persistent
<1>5. Proxy!YesIsGranted'
  BY DEF ProxyInv, Proxy!YesIsGranted
<1> QED
  BY <1>1, <1>2, <1>3, <1>4, <1>5 DEF ProxyInv

(* The invariant holds at the start ...                                    *)
LEMMA SessionStarts ==
  ASSUME Init
  PROVE  SessionInv
<1>1. CASE kind = "ftp" /\ Ftp!Init
  BY <1>1, SessionAssumption, FtpStarts, FtpBoundsStart DEF SessionInv
<1>2. CASE kind = "http" /\ Http!Init
  BY <1>2, SessionAssumption, HttpStarts, HttpBoundsStart DEF SessionInv
<1>3. CASE kind = "proxy" /\ Proxy!Init
  BY <1>3, ProxyStarts DEF SessionInv
<1> QED
  BY <1>1, <1>2, <1>3 DEF Init

(* ... and every step keeps it.                                            *)
LEMMA SessionSteps ==
  ASSUME SessionInv, [Next]_vars
  PROVE  SessionInv'
<1>1. /\ kind' = kind
      /\ kind = "ftp" => [Ftp!Next]_Ftp!vars
      /\ kind = "http" => [Http!Next]_Http!vars
      /\ kind = "proxy" =>
           \/ Proxy!Client \/ Proxy!ServerSpeaks
           \/ UNCHANGED <<proxy, version, at, open, in, state, closed, eaten, trouble>>
  <2>1. CASE UNCHANGED vars
    BY <2>1 DEF vars, shared, onlyFtp, onlyHttp, onlyProxy, Ftp!vars, Ftp!ant,
       Ftp!session, Ftp!control, Ftp!channel, Ftp!found, Http!vars, Http!info,
       Http!task, Http!piece
  <2>2. CASE Ended
    BY <2>1, <2>2 DEF Ended
  <2>3. CASE FtpStep \/ ListingSent
    BY <2>3 DEF FtpStep, ListingSent, Ftp!Next
  <2>4. CASE HttpStep
    BY <2>4 DEF HttpStep, Http!Next
  <2>5. CASE ProxyStep \/ ServerSpeaks
    BY <2>5 DEF ProxyStep, ServerSpeaks
  <2> QED
    BY <2>1, <2>2, <2>3, <2>4, <2>5 DEF Next
<1>2. CASE kind = "ftp"
  BY <1>1, <1>2, SessionAssumption, FtpSteps, FtpBounded DEF SessionInv
<1>3. CASE kind = "http"
  BY <1>1, <1>3, SessionAssumption, HttpSteps, HttpBounded DEF SessionInv
<1>4. CASE kind = "proxy"
  BY <1>1, <1>4, ProxySteps, ProxyKept DEF SessionInv
<1> QED
  BY <1>2, <1>3, <1>4 DEF SessionInv

(* What CMgFtpInfo tells of a server is so, whatever the replies and their *)
(* order were, and every session keeps its types.                          *)
THEOREM SessionsInformed == Spec => []InfoTrue
<1>1. Init => SessionInv
  BY SessionStarts
<1>2. SessionInv /\ [Next]_vars => SessionInv'
  BY SessionSteps
<1>3. SessionInv => InfoTrue
  <2> SUFFICES ASSUME SessionInv PROVE InfoTrue
    OBVIOUS
  <2>1. CASE kind = "ftp"
    BY <2>1, FtpTypes, FtpTold, SessionAssumption DEF SessionInv, InfoTrue, TypeOK
  <2>2. CASE kind = "http"
    <3>1. Http!TypeOK
      BY <2>2, HttpTypes DEF SessionInv
    <3> QED
      BY <2>2, <3>1 DEF InfoTrue, TypeOK
  <2>3. CASE kind = "proxy"
    <3>1. Proxy!TypeOK
      BY <2>3 DEF SessionInv, ProxyInv, ProxyTyped, Proxy!TypeOK, ServersByte,
                  Proxy!OfServer, Proxy!Unanswered
    <3> QED
      BY <2>3, <3>1 DEF InfoTrue, TypeOK
  <2> QED
    BY <2>1, <2>2, <2>3 DEF SessionInv
<1> QED
  BY <1>1, <1>2, <1>3, PTL DEF Spec

(* A connection that Connect reports was granted by the proxy, and one     *)
(* that can be had is had: whatever the kinds of proxies are, and however  *)
(* their answers are cut and joined on the way.                            *)
THEOREM ConnectionsTrue == Spec => []ConnectTrue
<1>1. Init => SessionInv
  BY SessionStarts
<1>2. SessionInv /\ [Next]_vars => SessionInv'
  BY SessionSteps
<1>3. SessionInv => ConnectTrue
  BY ProxyTold DEF SessionInv, ConnectTrue
<1> QED
  BY <1>1, <1>2, <1>3, PTL DEF Spec
=============================================================================
