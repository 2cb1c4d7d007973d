----------------------------- MODULE UrlParser ------------------------------
(***************************************************************************)
(* CUrlParser: what SetUrl makes of a URL, the escapes of its path, and    *)
(* RebuildUrl, which the dialogs use to put a name and a password into it. *)
(*                                                                         *)
(* A URL is a sequence of characters.  The scans of the code, forward and  *)
(* backward, are choices of positions here: the last '@' that belongs to   *)
(* the name and password, the first ':' behind it, and so on.  A parser    *)
(* object may be used several times (InitThread, WorkThread); SetUrl       *)
(* returns at the first part it does not like and leaves the rest of the   *)
(* object as the last call left it.                                        *)
(*                                                                         *)
(* The reference is the way a URL is put together (Join): its parts must   *)
(* come back.                                                              *)
(***************************************************************************)
EXTENDS Integers, Sequences, SequencesExt, FiniteSetsExt, Functions

CONSTANTS
  Inputs,     \* URLs, as records of their parts
  Schemes,    \* texts of the schemes: a function
  Names,      \* pairs of a name and a password that are put into a URL
  NameMax,    \* room for a name or a password, 30 in the code
  ServerMax,  \* room for the name of a server, 256 in the code
  MaxCalls    \* bound: calls of SetUrl of one object

UrlParserAssumption ==
  /\ NameMax \in Nat /\ ServerMax \in Nat /\ MaxCalls \in Nat
  /\ DOMAIN Schemes = {"ftp", "http", "other"}

VARIABLES
  input,   \* the parts of the URL of the last call
  parser,  \* the members of the object
  ok,      \* the result of the last call
  calls    \* calls so far

vars == <<input, parser, ok, calls>>

Anonymous == <<"anonymous">>
DefPass == <<"pass">>    \* gDefFtpPass
Failed == [ok |-> FALSE]

Digits == <<"0", "1", "2", "3", "4", "5", "6", "7", "8", "9">>
HexLetters == {"a", "b", "c", "d", "e", "f", "A", "B", "C", "D", "E", "F"}
IsDigit(c) == c \in Range(Digits)
XDigits == Range(Digits) \cup HexLetters
Value(c) == (CHOOSE i \in DOMAIN Digits : Digits[i] = c) - 1
Atoi(s) == FoldLeft(LAMBDA n, c : 10 * n + Value(c), 0, s)
-----------------------------------------------------------------------------
(* Scans. *)
Positions(u, c) == {i \in DOMAIN u : u[i] = c}
Nth(S, n) == IF Cardinality(S) < n THEN 0
               ELSE CHOOSE i \in S : Cardinality({j \in S : j < i}) = n - 1
Slash(u, n) == Nth(Positions(u, "/"), n)     \* the nth '/', or 0
From(u, i) == SubSeq(u, i, Len(u))

Trim(u) ==
  LET kept == DOMAIN u \ Positions(u, " ")
  IN IF kept = {} THEN << >> ELSE SubSeq(u, Min(kept), Max(kept))

(* findat: the last '@' whose '/' before it is the second one. *)
At(u) ==
  Max({0} \cup {i \in Positions(u, "@") :
         Max({j \in Positions(u, "/") : j < i}) = Slash(u, 1) + 1})

UrlType(u) ==
  IF Len(u) < 7 THEN "other"
  ELSE IF IsPrefix(Schemes["ftp"], u) THEN "ftp"
  ELSE IF IsPrefix(Schemes["http"], u) THEN "http" ELSE "other"

(* GetUserAndPass splits at the first ':'. *)
ColonMutant(u, s, e) == Max({0} \cup {i \in Positions(u, ":") : i \in s .. e - 1})
Colon(u, s, e) ==
  LET found == {i \in Positions(u, ":") : i \in s .. e - 1}
  IN IF found = {} THEN 0 ELSE Min(found)

GetUserAndPass(u) ==
  IF At(u) = 0 THEN [ok |-> TRUE, user |-> Anonymous, pass |-> DefPass]
  ELSE LET s == Slash(u, 2) + 1
           e == At(u) - 1
           p == Colon(u, s, e)
       IN IF p = 0 \/ p - s + 1 > NameMax \/ e - p + 1 > NameMax
          THEN Failed
          ELSE [ok |-> TRUE, user |-> SubSeq(u, s, p - 1), pass |-> SubSeq(u, p + 1, e)]

GetDefaultPort(protocol) == IF protocol = "ftp" THEN 21 ELSE 80

(* From s up to the next '/': the server, and the port behind the last ':'. *)
Host(u, s, e, protocol) ==
  LET found == {i \in Positions(u, ":") : i \in s + 1 .. e - 1}
      ck == Max(found)
      prt == SubSeq(u, ck + 1, e - 1)
  IN IF found = {}
     THEN IF e - s + 1 > ServerMax THEN Failed
          ELSE [ok |-> TRUE, server |-> SubSeq(u, s, e - 1),
                port |-> GetDefaultPort(protocol)]
     ELSE IF ck - s > ServerMax \/ Len(prt) > 5 \/ \E i \in DOMAIN prt : ~IsDigit(prt[i])
          THEN Failed
          ELSE [ok |-> TRUE, server |-> SubSeq(u, s, ck - 1), port |-> Atoi(prt)]

GetServerAndPort(u, protocol) ==
  LET s == IF At(u) # 0 THEN At(u) + 1 ELSE Slash(u, 2) + 1
      behind == {i \in Positions(u, "/") : i >= s}
  IN IF behind = {} THEN Failed ELSE Host(u, s, Min(behind), protocol)

(* GetRawUrl takes the name and the password away. *)
GetRawUrlMutant(u) ==
  IF At(u) = 0 THEN u
  ELSE SubSeq(u, 1, Slash(u, 2)) \o From(u, Min(Positions(u, "@")) + 1)
GetRawUrl(u) ==
  IF At(u) = 0 THEN u ELSE SubSeq(u, 1, Slash(u, 2)) \o From(u, At(u) + 1)

GetPathFile(u) ==
  IF Slash(u, 3) = 0 THEN Failed ELSE [ok |-> TRUE, file |-> From(u, Slash(u, 3))]

(* GetRefer: what is before the last '/', unless a referer is set. *)
GetRefer(raw, old) ==
  IF old # << >> THEN old ELSE SubSeq(raw, 1, Max(Positions(raw, "/")) - 1)
-----------------------------------------------------------------------------
(* Precode copies escapes and escapes what is unsafe and not reserved ('~' *)
(* is both); a lone '%' becomes %25.  UnEscape turns escapes into          *)
(* characters, and its own ISXDIGIT takes every letter for a digit; a NUL  *)
(* ends the string.                                                        *)
Unsafe == {" ", "<"}
Code == [c \in {" ", "<", "%"} |->
           CASE c = " " -> <<"%", "2", "0">> [] c = "<" -> <<"%", "3", "C">>
             [] c = "%" -> <<"%", "2", "5">>]

Escaped(s, i, digits) ==
  i + 2 <= Len(s) /\ s[i] = "%" /\ {s[i + 1], s[i + 2]} \subseteq digits

KeepsMutant(s, i) == FALSE
Keeps(s, i) == Escaped(s, i, XDigits)

Precode(s) ==
  FlattenSeq([i \in DOMAIN s |->
    IF s[i] \in Unsafe \/ (s[i] = "%" /\ ~Keeps(s, i)) THEN Code[s[i]] ELSE <<s[i]>>])

AnyLetter == XDigits \cup {"z"}

(* The characters behind the two digits, as far as inputs have them. *)
Decoded(hi, lo) ==
  CASE <<hi, lo>> = <<"2", "0">> -> " " [] <<hi, lo>> = <<"3", "C">> -> "<"
    [] <<hi, lo>> = <<"7", "E">> -> "~" [] <<hi, lo>> = <<"2", "5">> -> "%"
    [] <<hi, lo>> = <<"2", "F">> -> "/" [] <<hi, lo>> = <<"0", "0">> -> "NUL"
    [] OTHER -> "octet"

UnEscape(s) ==
  LET starts == {i \in DOMAIN s : Escaped(s, i, AnyLetter)}
      all == FlattenSeq([i \in DOMAIN s |->
               IF i \in starts THEN <<Decoded(s[i + 1], s[i + 2])>>
               ELSE IF {i - 1, i - 2} \cap starts # {} THEN << >> ELSE <<s[i]>>])
      ends == Positions(all, "NUL")
  IN IF ends = {} THEN all ELSE SubSeq(all, 1, Min(ends) - 1)

GetFileName(file) == UnEscape(From(file, Max(Positions(file, "/")) + 1))
-----------------------------------------------------------------------------
(* SetUrl: protocol, name and password, server and port, raw URL, path.    *)
(* A directory is no file of an ftp server, but a good mirror.             *)
Fresh == [protocol |-> "other", user |-> << >>, pass |-> << >>, server |-> << >>,
          port |-> 0, raw |-> << >>, file |-> << >>, esc |-> << >>, refer |-> << >>,
          mirror |-> FALSE]

Result(r, p) == [ok |-> r, parser |-> p]

Parse(url, old) ==
  LET u == Trim(url)
      t == UrlType(u)
      p0 == [old EXCEPT !.mirror = FALSE, !.protocol = t]
      names == GetUserAndPass(u)
      p1 == [p0 EXCEPT !.user = names.user, !.pass = names.pass]
      host == GetServerAndPort(u, t)
      p2 == [p1 EXCEPT !.server = host.server, !.port = host.port, !.raw = GetRawUrl(u)]
      path == GetPathFile(u)
      p3 == [p2 EXCEPT !.file = path.file]
  IN IF t = "other" \/ ~names.ok THEN Result(FALSE, p0)
     ELSE IF ~host.ok THEN Result(FALSE, p1)
     ELSE IF ~path.ok THEN Result(FALSE, p2)
     ELSE IF t = "http"
          THEN Result(TRUE, [p3 EXCEPT !.esc = Precode(p3.file),
                                       !.refer = GetRefer(p3.raw, @)])
     ELSE IF Last(p3.file) = "/" THEN Result(FALSE, [p3 EXCEPT !.mirror = TRUE])
     ELSE Result(TRUE, [p3 EXCEPT !.esc = UnEscape(p3.file)])

(* RebuildUrl. *)
RebuildUrlMutant(u, n) ==
  SubSeq(u, 1, Slash(u, 2)) \o n.user \o <<":">> \o n.pass \o <<"@">>
    \o From(u, Slash(u, 2) + 1)
RebuildUrl(u, n) ==
  LET raw == GetRawUrl(u)
  IN SubSeq(raw, 1, Slash(raw, 2)) \o n.user \o <<":">> \o n.pass \o <<"@">>
       \o From(raw, Slash(raw, 2) + 1)
-----------------------------------------------------------------------------
(* The parts of a URL, and the URL. *)
NoName == [user |-> << >>, pass |-> << >>]
NamePart(n) == IF n = NoName THEN << >> ELSE n.user \o <<":">> \o n.pass \o <<"@">>
PortPart(p) == IF p = << >> THEN << >> ELSE <<":">> \o p

Join(x) == Schemes[x.scheme] \o NamePart(x.name) \o x.host \o PortPart(x.port) \o x.path

Init == /\ input = (CHOOSE x \in Inputs : TRUE)
        /\ parser = Fresh /\ ok = FALSE /\ calls = 0

SetUrl(x) ==
  /\ calls < MaxCalls /\ calls' = calls + 1
  /\ input' = x
  /\ LET r == Parse(Join(x), parser) IN ok' = r.ok /\ parser' = r.parser

SetRefer ==
  /\ calls = 0 /\ parser.refer = << >>
  /\ parser' = [parser EXCEPT !.refer = <<"refer">>]
  /\ UNCHANGED <<input, ok, calls>>

Next == SetRefer \/ \E x \in Inputs : SetUrl(x)

Spec == Init /\ [][Next]_vars
-----------------------------------------------------------------------------
(* Names that a URL can carry, and URLs that have an answer. *)
Carried(n) == /\ "/" \notin Range(n.user) \cup Range(n.pass) /\ ":" \notin Range(n.user)
              /\ n.user # << >> /\ n.pass # << >>
              /\ Len(n.user) < NameMax /\ Len(n.pass) < NameMax

WellFormed(x) ==
  /\ x.scheme \in {"ftp", "http"} /\ x.path # << >>
  /\ x.name = NoName \/ Carried(x.name)
  /\ Len(x.host) < ServerMax /\ \A i \in DOMAIN x.port : IsDigit(x.port[i])
  /\ Last(x.path) # " " /\ (x.scheme = "ftp" => Last(x.path) # "/")

Back(p, x) ==
  /\ p.server = x.host /\ p.file = x.path /\ p.protocol = x.scheme
  /\ p.port = IF x.port = << >> THEN GetDefaultPort(x.scheme) ELSE Atoi(x.port)

(* Every part of a well-formed URL comes back, also '@' and ':' in a       *)
(* password, '@' in a path, and whatever the object was used for before.   *)
PartsBack ==
  (calls > 0 /\ WellFormed(input)) =>
     /\ ok /\ Back(parser, input)
     /\ <<parser.user, parser.pass>> =
          IF input.name = NoName THEN <<Anonymous, DefPass>>
          ELSE <<input.name.user, input.name.pass>>

(* The raw URL, which makes the referer, is the same URL without name and  *)
(* password, and a fixed point.                                            *)
RawHasNoUser ==
  ok => LET again == Parse(parser.raw, Fresh)
        IN /\ again.ok /\ again.parser.user = Anonymous
           /\ again.parser.raw = parser.raw /\ again.parser.server = parser.server
           /\ again.parser.port = parser.port /\ again.parser.file = parser.file

(* A name and a password put into a URL replace those it had, are found    *)
(* again, and change nothing else.                                         *)
RebuildBack ==
  ok => \A n \in {m \in Names : Carried(m)} :
          LET again == Parse(RebuildUrl(Trim(Join(input)), n), Fresh).parser
          IN /\ <<again.user, again.pass>> = <<n.user, n.pass>>
             /\ again.server = parser.server /\ again.port = parser.port
             /\ again.file = parser.file /\ again.raw = parser.raw

(* Escaping twice is escaping once, and the server decodes what the user   *)
(* typed; a letter behind '%' that is no hexadecimal digit is left out.    *)
PrecodeOnce ==
  (ok /\ parser.protocol = "http") =>
     /\ Precode(parser.esc) = parser.esc
     /\ "z" \notin Range(parser.file) => UnEscape(parser.esc) = UnEscape(parser.file)

(* mgurlparser.cpp 498: "max port is 65535". *)
PortFits == ok => parser.port <= 65535

(* mgurlparser.cpp 218: "only file name without path". *)
NameHasNoPath == ok => "/" \notin Range(GetFileName(parser.file))
=============================================================================
