------------------------------ MODULE SpeedCtrl -----------------------------
(***************************************************************************)
(* CSpeedCtrl, which all ants of all tasks share: DataIn notes a piece and *)
(* tells its ant how long to sleep, so that the bytes of the last hundred  *)
(* pieces were not received faster than the mode allows.                   *)
(*                                                                         *)
(* Time is counted in units of a byte at the fastest mode.  DataIn holds   *)
(* m_mutex all along, so it is an action; the ant then sleeps outside.     *)
(***************************************************************************)
EXTENDS Integers, Sequences, FiniteSets, FiniteSetsExt

CONSTANTS
  Ants,      \* the threads that fetch
  Lens,      \* lengths of pieces
  Costs,     \* time a byte takes in each mode; 0 is _SPEED_UNLIMIT
  Window,    \* 100: length of m_list
  Half,      \* an int goes from -Half to Half - 1
  Idles,     \* how time may pass
  MaxTime,   \* bound of the clock
  MaxModes   \* bound of changes of the mode

SpeedCtrlAssumption ==
  /\ Lens \subseteq Nat \ {0} /\ Costs \subseteq Nat /\ Idles \subseteq Nat \ {0}
  /\ {Window, Half} \subseteq Nat \ {0, 1} /\ {MaxTime, MaxModes} \subseteq Nat

VARIABLES
  now,         \* gettimeofday
  gSpeedMode,  \* as the cost of a byte
  modes,       \* changes of it
  m_list,      \* samples: bytes received until then, and the time
  wake,        \* when each ant has slept enough
  limited      \* samples since the mode was set

vars == <<now, gSpeedMode, modes, m_list, wake, limited>>

ToInt(x) == ((x + Half) % (2 * Half)) - Half

Init ==
  /\ now = 0 /\ gSpeedMode \in Costs /\ modes = 0
  /\ m_list = <<[bytes |-> 0, tti |-> 0]>>
  /\ wake = [a \in Ants |-> 0] /\ limited = << >>

ShortenedMutant(list) == list
Shortened(list) == IF Len(list) > Window THEN Tail(list) ELSE list

(* What DataIn returns for a list: the time its bytes take, less the time  *)
(* they took.                                                              *)
SleepMutant(list) ==
  LET put == gSpeedMode * (list[Len(list)].bytes - list[1].bytes)
  IN IF put > list[Len(list)].tti - list[1].tti THEN 1 ELSE 0
SleepAllMutant(list) ==
  LET tt == ToInt(list[Len(list)].tti - list[1].tti)
      proputime == ToInt(gSpeedMode * ToInt(list[Len(list)].bytes))
  IN IF proputime > tt THEN ToInt(proputime - tt) ELSE 0
Sleep(list) ==
  LET tt == ToInt(list[Len(list)].tti - list[1].tti)
      proputime == ToInt(gSpeedMode * ToInt(list[Len(list)].bytes - list[1].bytes))
  IN IF proputime > tt THEN ToInt(proputime - tt) ELSE 0

DataIn(a) ==
  /\ wake[a] <= now
  /\ \E len \in Lens :
       LET np == [bytes |-> m_list[Len(m_list)].bytes + len, tti |-> now]
           list == Shortened(Append(m_list, np))
           us == Sleep(list)
       IN IF gSpeedMode = 0 THEN UNCHANGED <<m_list, wake, limited>>
          ELSE /\ m_list' = list
               /\ wake' = [wake EXCEPT ![a] = now + (IF us > 0 THEN us ELSE 0)]
               /\ limited' = Append(limited, np)
  /\ UNCHANGED <<now, gSpeedMode, modes>>

(* OnConfig and the tray menu.                                             *)
SetMode ==
  /\ modes < MaxModes /\ modes' = modes + 1
  /\ gSpeedMode' \in Costs \ {gSpeedMode}
  /\ limited' = << >> /\ UNCHANGED <<now, m_list, wake>>

Pass ==
  /\ \E i \in Idles : now + i <= MaxTime /\ now' = now + i
  /\ UNCHANGED <<gSpeedMode, modes, m_list, wake, limited>>

Next == (\E a \in Ants : DataIn(a)) \/ SetMode \/ Pass

Spec == Init /\ [][Next]_vars
-----------------------------------------------------------------------------
MaxLen == Max(Lens)

(* Between any two pieces under one mode no more arrives than the mode     *)
(* allows for the time between them, but for a burst (a window of pieces,  *)
(* for which idle time was saved, and one piece of each ant) and what is   *)
(* never counted: as the first piece of a window is left out, W - 1 pieces *)
(* are timed where W - 1 and one of each ant arrive.                       *)
Burst == (Window - 1 + Cardinality(Ants)) * MaxLen
RateKept ==
  \A i, j \in DOMAIN limited :
    i < j => gSpeedMode * (Window - 1) * (limited[j].bytes - limited[i].bytes - Burst)
               <= (Window - 1 + Cardinality(Ants)) * (limited[j].tti - limited[i].tti)

(* An ant sleeps no longer than the bytes of the window take, as long as   *)
(* an int holds the microseconds from its first piece; after more than 35  *)
(* minutes in between it may be sent to sleep for as long.                 *)
Span == m_list[Len(m_list)].tti - m_list[1].tti
WindowBytes == m_list[Len(m_list)].bytes - m_list[1].bytes
ShareSlept ==
  \A a \in Ants : (wake'[a] # wake[a] /\ Span' < Half)
                      => wake'[a] - now <= gSpeedMode * WindowBytes'
SleepsItsShare == [][ShareSlept]_vars
=============================================================================
