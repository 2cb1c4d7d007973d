----------------------------- MODULE MCHelpers ------------------------------
(***************************************************************************)
(* The helpers that keep their own state: the parser of URLs, the list     *)
(* behind a pattern and the control of the speed.  The variable helper     *)
(* chooses one of their specifications; the variables of the others keep   *)
(* one value.                                                              *)
(***************************************************************************)
EXTENDS Integers, Sequences

VARIABLES
  helper,
  input,                                             \* UrlParser, Batch
  parser, ok, calls,                                 \* UrlParser
  wide, m_List,                                      \* Batch
  now, gSpeedMode, modes, m_list, wake, limited      \* SpeedCtrl

(* URLs whose parts meet every test of the parser, with small limits. *)
MCSchemes == [ftp |-> <<"f", "t", "p", ":", "/", "/">>,
              http |-> <<"h", "t", "t", "p", ":", "/", "/">>,
              other |-> <<"m", "m", "s", ":", "/", "/">>]

Name(u, p) == [user |-> u, pass |-> p]
NoName == Name(<< >>, << >>)
MCNames == {Name(<<"u">>, <<"p">>), Name(<<"u", "@">>, <<":", "p">>),
            Name(<<"u">>, <<"@", "p">>), Name(<<"u">>, <<"p", "/">>),
            Name(<<"u", "v", "w">>, <<"p">>), Name(<<"u">>, << >>)}

Hosts == {<<"h">>, <<"h", "h", "h">>}
Ports == {<< >>, <<"8", "1">>, <<"8", "z">>}
Paths == {<< >>, <<"/">>, <<"/", "d", "/">>, <<"/", "a", "@", "b">>,
          <<"/", "%", "4", "1">>, <<"/", "a", " ", "b">>,
          <<"/", "%", "%", "2", "0">>, <<"/", "d", "/", "%", "z", "1">>,
          <<"/", "%", "0", "0", "f">>, <<"/", "f", " ">>,
          <<"/", "~", "f">>, <<"/", "%", "7", "E">>}

URLs(schemes, names, hosts, ports, paths) ==
  [scheme : schemes, name : names, host : hosts, port : ports, path : paths]

Known == {"ftp", "http"}
MCUrls ==
  URLs(Known, MCNames \cup {NoName}, {<<"h">>}, {<< >>}, Paths)
    \cup URLs(Known, {NoName, Name(<<"u">>, <<"@", "p">>)}, Hosts, Ports, {<<"/", "f">>})
    \cup URLs({"other"}, {NoName}, {<<"h">>}, {<< >>}, {<<"/", "f">>})

Parser == INSTANCE UrlParser WITH
            Inputs <- MCUrls, Schemes <- MCSchemes, Names <- MCNames,
            NameMax <- 3, ServerMax <- 3, MaxCalls <- 2

(* Texts with and without the marks of a pattern. *)
Mark(c) == {<< >>, <<c>>}
Sides == {<< >>, <<"0">>, <<"2">>, <<"0", "9">>, <<"1", "1">>, <<" ", "3">>,
          <<"1", "0", "2">>, <<"0", "0", "1", "2">>}
Texts == [head : {<< >>, <<"x">>}, open : Mark("["), left : Sides,
          dash : Mark("-"), right : Sides, close : Mark("]"),
          tail : {<< >>, <<"x">>, <<"-", "y">>}]

Batch == INSTANCE Batch WITH Inputs <- Texts, Builds <- BOOLEAN

(* Two ants, a mode that is switched on or off, and time that makes the    *)
(* int overflow; and two ants, or one with pieces of two lengths, that the *)
(* mode keeps back.                                                        *)
Sleepers == INSTANCE SpeedCtrl WITH
              Ants <- {1, 2}, Lens <- {1}, Costs <- {0, 3}, Window <- 3,
              Half <- 16, Idles <- {2, 16}, MaxTime <- 18, MaxModes <- 1
Two == INSTANCE SpeedCtrl WITH
         Ants <- {1, 2}, Lens <- {2}, Costs <- {1}, Window <- 3,
         Half <- 64, Idles <- {1}, MaxTime <- 10, MaxModes <- 0
One == INSTANCE SpeedCtrl WITH
         Ants <- {1}, Lens <- {1, 2}, Costs <- {2}, Window <- 3,
         Half <- 64, Idles <- {1}, MaxTime <- 12, MaxModes <- 0

ASSUME HelpersAssumption ==
  /\ Parser!UrlParserAssumption /\ Batch!BatchAssumption
  /\ Sleepers!SpeedCtrlAssumption /\ Two!SpeedCtrlAssumption
  /\ One!SpeedCtrlAssumption

ofParser == <<parser, ok, calls>>
ofBatch == <<wide, m_List>>
ofSpeed == <<now, gSpeedMode, modes, m_list, wake, limited>>
vars == <<helper, input, ofParser, ofBatch, ofSpeed>>

NoParser == parser = << >> /\ ok = FALSE /\ calls = 0
NoBatch == wide = FALSE /\ m_List = << >>
NoSpeed == /\ now = 0 /\ gSpeedMode = 0 /\ modes = 0 /\ m_list = << >>
           /\ wake = << >> /\ limited = << >>

MCInit ==
  \/ helper = "parser" /\ Parser!Init /\ NoBatch /\ NoSpeed
  \/ helper = "batch" /\ Batch!Init /\ NoParser /\ NoSpeed
  \/ /\ input = << >> /\ NoParser /\ NoBatch
     /\ \/ helper = "sleepers" /\ Sleepers!Init
        \/ helper = "two" /\ Two!Init
        \/ helper = "one" /\ One!Init

MCNext ==
  /\ UNCHANGED helper
  /\ \/ helper = "parser" /\ Parser!Next /\ UNCHANGED <<ofBatch, ofSpeed>>
     \/ helper = "batch" /\ Batch!Next /\ UNCHANGED <<ofParser, ofSpeed>>
     \/ /\ UNCHANGED <<input, ofParser, ofBatch>>
        /\ \/ helper = "sleepers" /\ Sleepers!Next
           \/ helper = "two" /\ Two!Next
           \/ helper = "one" /\ One!Next

MCSpec == MCInit /\ [][MCNext]_vars
-----------------------------------------------------------------------------
(* CUrlParser: the parts of a URL come back, its raw form has no name and  *)
(* is the same URL, a name and a password can be put into it, and what is  *)
(* escaped is not escaped again.                                           *)
UrlsParsed ==
  helper = "parser" => /\ Parser!PartsBack /\ Parser!RawHasNoUser
                       /\ Parser!RebuildBack /\ Parser!PrecodeOnce

(* CBatch: a pattern is expanded, and what is none is kept.                *)
PatternsOnly == helper = "batch" => Batch!PatternExpanded /\ Batch!PlainKept

(* CSpeedCtrl: the mode is kept over any time, and no ant sleeps longer    *)
(* than its bytes take.                                                    *)
RateKept ==
  (helper = "two" => Two!RateKept) /\ (helper = "one" => One!RateKept)
SpeedKept == /\ []RateKept
             /\ [][helper = "sleepers" => Sleepers!ShareSlept]_vars
=============================================================================
