------------------------ MODULE SingleInstanceProofs ------------------------
(***************************************************************************)
(* Proofs about the lock and the FIFO, for any number of starts of the     *)
(* program, whatever dies, ends or gets the number of a dead one.          *)
(***************************************************************************)
EXTENDS SingleInstance, TLAPS

(* An end of a FIFO that is open has a FIFO.                               *)
Ends == \A p \in Procs :
  /\ ear[p].stage \in {"wait", "read", "close"} => ear[p].at \in Procs
  /\ pc[p] \in {"opening", "write", "close"} => out[p] \in Procs

(* The later ones hand over and end.                                       *)
Olds == \A p \in Procs : p \in m_old => pc[p] \in Sending \cup {"gone"}

(* From its own lock on, the program and what is about to become or was    *)
(* the program has its number in the lock.                                 *)
Holds(p) == p \notin m_old /\ pc[p] \in Sending \cup {"pipe", "main", "quit"}
Locked == \A p \in Procs : Holds(p) => lock = p

(* While one start replaces the lock no other does, and nothing is up.     *)
OneStart == \A p, q \in Procs : pc[p] \in Starting /\ pc[q] \in Starting => p = q
Vacant ==
  \A p, q \in Procs : pc[p] \in {"unlock", "unpipe", "create"} => ~Holds(q)

Turns == Olds /\ Locked /\ OneStart /\ Vacant
IInv == TypeOK /\ Ends /\ Turns
-----------------------------------------------------------------------------
LEMMA InitIInv == Init => IInv
  BY SingleInstanceAssumption
  DEF Init, IInv, Turns, TypeOK, Ends, Olds, Holds, Locked, OneStart, Vacant, Deaf,
       Starting, Sending

(* What a FIFO holds after some of its ends were closed are arguments.     *)
LEMMA KeptType ==
  ASSUME TypeOK, NEW r \in [Procs -> SUBSET Procs], NEW w \in [Procs -> SUBSET Procs]
  PROVE  Kept(r, w) \in [Procs -> Seq(Procs)]
  BY DEF TypeOK, Kept

LEMMA EndTypes ==
  ASSUME TypeOK, NEW p \in Procs, End(p)
  PROVE  /\ ear' = [ear EXCEPT ![p] = Deaf]
         /\ data' \in [Procs -> Seq(Procs)]
<1>1. [k \in Procs |-> Readers(k) \ {p}] \in [Procs -> SUBSET Procs]
  BY DEF Readers
<1>2. [k \in Procs |-> Writers(k) \ {p}] \in [Procs -> SUBSET Procs]
  BY DEF Writers
<1> QED
  BY <1>1, <1>2, KeptType DEF End

(* A process goes its way alone.                                           *)
Only(p, next) == pc'[p] = next /\ \A q \in Procs \ {p} : pc'[q] = pc[q]
LEMMA GoOnly ==
  ASSUME TypeOK, NEW p \in Procs, NEW next, Go(p, next)
  PROVE  Only(p, next)
  BY DEF TypeOK, Go, Only
-----------------------------------------------------------------------------
(* A start of the program, up to its lock.                                 *)
LEMMA CheckIInv ==
  ASSUME pace # "any", IInv, NEW p \in Procs, Start(p) \/ Check(p)
  PROVE  IInv'
<1> USE SingleInstanceAssumption DEF IInv
<1>1. CASE Start(p)
  <2>1. TypeOK'
    BY <1>1 DEF Start, Go, TypeOK, Sending
  <2>2. Ends'
    BY <1>1 DEF Start, Go, TypeOK, Ends, Sending
  <2>3. Only(p, "check")
    BY <1>1, GoOnly DEF Start
  <2>4. Turns'
    BY <1>1, <2>3 DEF Start, Only, CalmStart, Olds, Holds, Locked, OneStart, Vacant,
       Turns, Starting, Sending
  <2> QED
    BY <2>1, <2>2, <2>3, <2>4
<1>2. CASE FindNone(p)
  <2>1. TypeOK'
    BY <1>2 DEF FindNone, Go, TypeOK, Sending
  <2>2. Ends'
    BY <1>2 DEF FindNone, Go, TypeOK, Ends, Sending
  <2>3. Only(p, "create")
    BY <1>2, GoOnly DEF FindNone
  <2>4. Turns'
    BY <1>2, <2>3 DEF FindNone, Only, Olds, Holds, Locked, OneStart, Vacant, Turns,
       Starting, Sending
  <2> QED
    BY <2>1, <2>2, <2>3, <2>4
<1>3. CASE FindDead(p)
  <2>1. TypeOK'
    BY <1>3 DEF FindDead, Go, TypeOK, Sending
  <2>2. Ends'
    BY <1>3 DEF FindDead, Go, TypeOK, Ends, Sending
  <2>3. Only(p, "unlock")
    BY <1>3, GoOnly DEF FindDead
  <2>4. \A q \in Procs : ~Holds(q)
    BY <1>3 DEF FindDead, Exists, Holds, Turns, Locked, Sending
  <2>5. Turns'
    BY <1>3, <2>3, <2>4 DEF FindDead, Only, Olds, Holds, Locked, OneStart, Vacant, Turns,
       Starting, Sending
  <2> QED
    BY <2>1, <2>2, <2>3, <2>4, <2>5
<1>4. CASE FindOld(p)
  <2>1. TypeOK'
    BY <1>4 DEF FindOld, Go, TypeOK, Sending
  <2>2. Ends'
    BY <1>4 DEF FindOld, Go, TypeOK, Ends, Sending
  <2>3. Only(p, IF p \in WithArgs THEN "open" ELSE "gone")
    BY <1>4, GoOnly DEF FindOld
  <2>4. Turns'
    BY <1>4, <2>3 DEF FindOld, Only, Olds, Holds, Locked, OneStart, Vacant, Turns,
       Starting, Sending
  <2> QED
    BY <2>1, <2>2, <2>3, <2>4
<1> QED
  BY <1>1, <1>2, <1>3, <1>4 DEF Check

(* The files of a dead program, of oneself, and new ones.                  *)
LEMMA FilesIInv ==
  ASSUME IInv, NEW p \in Procs, Files(p)
  PROVE  IInv'
<1> USE SingleInstanceAssumption DEF IInv
<1>1. CASE Unlock(p)
  <2>1. TypeOK'
    BY <1>1 DEF Unlock, Go, TypeOK, Sending
  <2>2. Ends'
    BY <1>1 DEF Unlock, Go, TypeOK, Ends, Sending
  <2>3. \/ pc[p] = "unlock" /\ Only(p, "unpipe")
        \/ pc[p] = "quit" /\ Only(p, "quitpipe")
    <3>1. CASE pc[p] = "unlock" /\ Go(p, "unpipe")
      <4>1. Only(p, "unpipe")
        BY <3>1, GoOnly
      <4> QED
        BY <3>1, <4>1
    <3>2. CASE pc[p] = "quit" /\ Go(p, "quitpipe")
      BY <3>2, GoOnly
    <3> QED
      BY <1>1, <3>1, <3>2 DEF Unlock
  <2>4. Turns'
    BY <1>1, <2>3 DEF Unlock, Only, Olds, Holds, Locked, OneStart, Vacant, Turns,
       Starting, Sending
  <2> QED
    BY <2>1, <2>2, <2>3, <2>4
<1>2. CASE UnpipeDead(p)
  <2>1. TypeOK'
    BY <1>2 DEF UnpipeDead, Go, TypeOK, Sending
  <2>2. Ends'
    BY <1>2 DEF UnpipeDead, Go, TypeOK, Ends, Sending
  <2>3. Only(p, "create")
    BY <1>2, GoOnly DEF UnpipeDead
  <2>4. Turns'
    BY <1>2, <2>3 DEF UnpipeDead, Only, Olds, Holds, Locked, OneStart, Vacant, Turns,
       Starting, Sending
  <2> QED
    BY <2>1, <2>2, <2>3, <2>4
<1>3. CASE UnpipeOwn(p)
  <2>1. TypeOK'
    BY <1>3, EndTypes DEF UnpipeOwn, End, Go, TypeOK, Sending, Deaf
  <2>2. Ends'
    BY <1>3, EndTypes DEF UnpipeOwn, End, Go, TypeOK, Ends, Sending, Deaf
  <2>3. Only(p, "gone")
    BY <1>3, GoOnly DEF UnpipeOwn, End
  <2>4. Turns'
    BY <1>3, <2>3 DEF UnpipeOwn, Only, Olds, Holds, Locked, OneStart, Vacant, Turns,
       Starting, Sending
  <2> QED
    BY <2>1, <2>2, <2>3, <2>4
<1>4. CASE WriteLock(p)
  <2>1. TypeOK'
    BY <1>4 DEF WriteLock, Go, TypeOK, Sending
  <2>2. Ends'
    BY <1>4 DEF WriteLock, Go, TypeOK, Ends, Sending
  <2>3. Only(p, "pipe")
    BY <1>4, GoOnly DEF WriteLock
  <2>4. Turns'
    BY <1>4, <2>3 DEF WriteLock, Only, Olds, Holds, Locked, OneStart, Vacant, Turns,
       Starting, Sending
  <2> QED
    BY <2>1, <2>2, <2>3, <2>4
<1>5. CASE MakePipe(p)
  <2>1. TypeOK'
    BY <1>5 DEF MakePipe, Go, TypeOK, Sending
  <2>2. Ends'
    BY <1>5 DEF MakePipe, Go, TypeOK, Ends, Sending
  <2>3. Only(p, IF p \in WithArgs THEN "open" ELSE "main")
    BY <1>5, GoOnly DEF MakePipe
  <2>4. Turns'
    BY <1>5, <2>3 DEF MakePipe, Only, Olds, Holds, Locked, OneStart, Vacant, Turns,
       Starting, Sending
  <2> QED
    BY <2>1, <2>2, <2>3, <2>4
<1> QED
  BY <1>1, <1>2, <1>3, <1>4, <1>5 DEF Files

(* Handing over arguments.                                                 *)
LEMMA HandOverIInv ==
  ASSUME IInv, NEW p \in Procs, HandOver(p)
  PROVE  IInv'
<1> USE SingleInstanceAssumption DEF IInv
<1>1. CASE OpenWrite(p)
  <2>1. /\ ear' = [q \in Procs |-> ear'[q]]
        /\ \A q \in Procs : ear'[q] \in {ear[q], [ear[q] EXCEPT !.stage = "read"]}
        /\ \A q \in Procs : ear'[q] # ear[q] => ear[q].stage = "wait"
    <3>1. CASE pipe = None
      BY <1>1, <3>1 DEF OpenWrite, TypeOK
    <3>2. CASE pipe # None
      <4> DEFINE e(q) == IF q \in Readers(pipe) /\ ear[q].stage = "wait"
                         THEN [ear[q] EXCEPT !.stage = "read"] ELSE ear[q]
      <4>1. ear' = [q \in Procs |-> e(q)]
        BY <1>1, <3>2 DEF OpenWrite
      <4> QED
        BY <4>1
    <3> QED
      BY <3>1, <3>2
  <2>2. \A q \in Procs : /\ ear'[q] \in [stage : {"off", "open", "wait", "read", "close"},
                                         at : Procs \cup {None}]
                         /\ ear'[q].at = ear[q].at
    BY <2>1 DEF TypeOK
  <2>3. TypeOK'
    <3>1. ear' \in [Procs -> [stage : {"off", "open", "wait", "read", "close"},
                              at : Procs \cup {None}]]
      BY <2>1, <2>2
    <3>2. pc' = [pc EXCEPT ![p] = pc'[p]] /\ pc'[p] \in {"gone", "main", "opening", "write"}
      BY <1>1 DEF OpenWrite, Go, After, TypeOK
    <3>3. out' \in [Procs -> Procs \cup {None}]
      BY <1>1 DEF OpenWrite, TypeOK
    <3>4. pc' \in [Procs -> {"off", "check", "unlock", "unpipe", "create", "pipe", "main",
                             "quit", "quitpipe", "gone"} \cup Sending]
      BY <3>2 DEF TypeOK, Sending
    <3> QED
      BY <1>1, <3>1, <3>3, <3>4 DEF OpenWrite, TypeOK
  <2>4. Ends'
    <3>1. \A q \in Procs : ear'[q].stage \in {"wait", "read", "close"} => ear'[q].at \in Procs
      BY <2>1, <2>2 DEF Ends
    <3>2. \A q \in Procs : q # p => pc'[q] = pc[q] /\ out'[q] = out[q]
      BY <1>1 DEF OpenWrite, Go, TypeOK
    <3>3. pc'[p] \in {"opening", "write", "close"} => out'[p] \in Procs
      BY <1>1 DEF OpenWrite, Go, After, TypeOK
    <3> QED
      BY <3>1, <3>2, <3>3 DEF Ends
  <2>5. \/ Only(p, After(p)) \/ Only(p, "opening") \/ Only(p, "write")
    BY <1>1, GoOnly DEF OpenWrite
  <2>6. Turns'
    BY <1>1, <2>5 DEF OpenWrite, Only, After, Olds, Holds, Locked, OneStart, Vacant,
       Turns, Starting, Sending
  <2> QED
    BY <2>3, <2>4, <2>6
<1>2. CASE WriteArgs(p)
  <2>1. out[p] \in Procs
    BY <1>2 DEF WriteArgs, Ends
  <2>2. Append(data[out[p]], p) \in Seq(Procs)
    BY <1>2, <2>1 DEF WriteArgs, TypeOK
  <2>3. TypeOK'
    BY <1>2, <2>1, <2>2 DEF WriteArgs, Go, TypeOK, Sending
  <2>4. Ends'
    BY <1>2, <2>1 DEF WriteArgs, Go, TypeOK, Ends, Sending
  <2>5. Only(p, "close")
    BY <1>2, GoOnly DEF WriteArgs
  <2>6. Turns'
    BY <1>2, <2>5 DEF WriteArgs, Only, Olds, Holds, Locked, OneStart, Vacant, Turns,
       Starting, Sending
  <2> QED
    BY <2>1, <2>2, <2>3, <2>4, <2>5, <2>6
<1>3. CASE WriteBroken(p)
  <2>1. TypeOK'
    BY <1>3, EndTypes DEF WriteBroken, End, Go, TypeOK, Sending, Deaf
  <2>2. Ends'
    BY <1>3, EndTypes DEF WriteBroken, End, Go, TypeOK, Ends, Sending, Deaf
  <2>3. Only(p, "gone")
    BY <1>3, GoOnly DEF WriteBroken, End
  <2>4. Turns'
    BY <1>3, <2>3 DEF WriteBroken, Only, Olds, Holds, Locked, OneStart, Vacant, Turns,
       Starting, Sending
  <2> QED
    BY <2>1, <2>2, <2>3, <2>4
<1>4. CASE CloseWrite(p)
  <2>1. [k \in Procs |-> Readers(k)] \in [Procs -> SUBSET Procs]
    BY <1>4 DEF CloseWrite, Readers
  <2>2. [k \in Procs |-> Writers(k) \ {p}] \in [Procs -> SUBSET Procs]
    BY <1>4 DEF CloseWrite, Writers
  <2>3. data' \in [Procs -> Seq(Procs)]
    BY <1>4, <2>1, <2>2, KeptType DEF CloseWrite
  <2>4. TypeOK'
    BY <1>4, <2>3 DEF CloseWrite, Go, After, TypeOK, Sending
  <2>5. Ends'
    BY <1>4 DEF CloseWrite, Go, After, TypeOK, Ends, Sending
  <2>6. Only(p, After(p))
    BY <1>4, GoOnly DEF CloseWrite
  <2>7. Turns'
    BY <1>4, <2>6 DEF CloseWrite, Only, After, Olds, Holds, Locked, OneStart, Vacant,
       Turns, Starting, Sending
  <2> QED
    BY <2>1, <2>2, <2>3, <2>4, <2>5, <2>6, <2>7
<1> QED
  BY <1>1, <1>2, <1>3, <1>4 DEF HandOver

(* The listener.                                                           *)
LEMMA ListenIInv ==
  ASSUME IInv, NEW p \in Procs, Listen(p)
  PROVE  IInv'
<1> USE SingleInstanceAssumption DEF IInv
<1>1. CASE ListenOpen(p)
  <2>1. TypeOK'
    BY <1>1 DEF ListenOpen, TypeOK, Sending
  <2>2. Ends'
    BY <1>1 DEF ListenOpen, TypeOK, Ends, Writers, Sending
  <2>3. \A q \in Procs : pc'[q] = pc[q] \/ {pc[q], pc'[q]} = {"opening", "write"}
    BY <1>1 DEF ListenOpen
  <2>4. Turns'
    BY <1>1, <2>3 DEF ListenOpen, Olds, Holds, Locked, OneStart, Vacant, Turns, Starting,
       Sending
  <2> QED
    BY <2>1, <2>2, <2>3, <2>4
<1>2. CASE ListenNull(p)
  <2>1. TypeOK'
    BY <1>2, EndTypes DEF ListenNull, End, Go, TypeOK, Sending, Deaf
  <2>2. Ends'
    BY <1>2, EndTypes DEF ListenNull, End, Go, TypeOK, Ends, Sending, Deaf
  <2>3. Only(p, "gone")
    BY <1>2, GoOnly DEF ListenNull, End
  <2>4. Turns'
    BY <1>2, <2>3 DEF ListenNull, Only, Olds, Holds, Locked, OneStart, Vacant, Turns,
       Starting, Sending
  <2> QED
    BY <2>1, <2>2, <2>3, <2>4
<1>3. CASE ListenRead(p)
  <2>1. ear[p].at \in Procs
    BY <1>3 DEF ListenRead, Ends
  <2>2. data[ear[p].at] # << >> => Head(data[ear[p].at]) \in Procs
    BY <1>3, <2>1 DEF ListenRead, TypeOK
  <2>3. TypeOK'
    <3>1. heard' \subseteq Procs
      BY <1>3, <2>1, <2>2 DEF ListenRead, Used, TypeOK
    <3>2. data' = [data EXCEPT ![ear[p].at] = << >>]
      BY <1>3 DEF ListenRead
    <3>3. << >> \in Seq(Procs)
      OBVIOUS
    <3>4. data' \in [Procs -> Seq(Procs)]
      BY <3>2, <3>3 DEF TypeOK
    <3>5. ear' = [ear EXCEPT ![p].stage = "close"]
      BY <1>3 DEF ListenRead
    <3>6. ear' \in [Procs -> [stage : {"off", "open", "wait", "read", "close"},
                              at : Procs \cup {None}]]
      BY <3>5 DEF TypeOK
    <3> QED
      BY <1>3, <3>1, <3>4, <3>6 DEF ListenRead, TypeOK
  <2>4. Ends'
    <3>1. \A q \in Procs : ear'[q].at = ear[q].at /\ (q # p => ear'[q] = ear[q])
      BY <1>3 DEF ListenRead, TypeOK
    <3> QED
      BY <1>3, <2>1, <3>1 DEF ListenRead, Ends
  <2>5. Turns'
    BY <1>3 DEF ListenRead, Olds, Holds, Locked, OneStart, Vacant, Turns, Starting,
       Sending
  <2> QED
    BY <2>1, <2>2, <2>3, <2>4, <2>5
<1>4. CASE ListenClose(p)
  <2>1. [k \in Procs |-> Readers(k) \ {p}] \in [Procs -> SUBSET Procs]
    BY <1>4 DEF ListenClose, Readers
  <2>2. [k \in Procs |-> Writers(k)] \in [Procs -> SUBSET Procs]
    BY <1>4 DEF ListenClose, Writers
  <2>3. data' \in [Procs -> Seq(Procs)]
    BY <1>4, <2>1, <2>2, KeptType DEF ListenClose
  <2>4. TypeOK'
    BY <1>4, <2>3 DEF ListenClose, Again, TypeOK
  <2>5. Ends'
    BY <1>4 DEF ListenClose, Again, TypeOK, Ends
  <2>6. Turns'
    BY <1>4 DEF ListenClose, Olds, Holds, Locked, OneStart, Vacant, Turns, Starting,
       Sending
  <2> QED
    BY <2>1, <2>2, <2>3, <2>4, <2>5, <2>6
<1> QED
  BY <1>1, <1>2, <1>3, <1>4 DEF Listen

(* The user, deaths, and other programs.                                   *)
LEMMA OutsideIInv ==
  ASSUME IInv, NEW p \in Procs, Exit(p) \/ Kill(p) \/ Reuse(p)
  PROVE  IInv'
<1> USE SingleInstanceAssumption DEF IInv
<1>1. CASE Exit(p)
  <2>1. TypeOK'
    BY <1>1 DEF Exit, Go, TypeOK, Sending
  <2>2. Ends'
    BY <1>1 DEF Exit, Go, TypeOK, Ends, Sending
  <2>3. Only(p, "quit")
    BY <1>1, GoOnly DEF Exit
  <2>4. Turns'
    BY <1>1, <2>3 DEF Exit, Only, Olds, Holds, Locked, OneStart, Vacant, Turns, Starting,
       Sending
  <2> QED
    BY <2>1, <2>2, <2>3, <2>4
<1>2. CASE Kill(p)
  <2>1. TypeOK'
    BY <1>2, EndTypes DEF Kill, End, Go, TypeOK, Sending, Deaf
  <2>2. Ends'
    BY <1>2, EndTypes DEF Kill, End, Go, TypeOK, Ends, Sending, Deaf
  <2>3. Only(p, "gone")
    BY <1>2, GoOnly DEF Kill, End
  <2>4. Turns'
    BY <1>2, <2>3 DEF Kill, Only, Olds, Holds, Locked, OneStart, Vacant, Turns, Starting,
       Sending
  <2> QED
    BY <2>1, <2>2, <2>3, <2>4
<1>3. CASE Reuse(p)
  <2>1. TypeOK'
    BY <1>3 DEF Reuse, TypeOK
  <2>2. Ends'
    BY <1>3 DEF Reuse, Ends
  <2>3. Turns'
    BY <1>3 DEF Reuse, Olds, Holds, Locked, OneStart, Vacant, Turns, Starting, Sending
  <2> QED
    BY <2>1, <2>2, <2>3
<1> QED
  BY <1>1, <1>2, <1>3

LEMMA NextIInv ==
  ASSUME "any" \notin Paces, IInv, pace \in Paces, [Next]_vars
  PROVE  IInv' /\ pace' = pace
<1>1. CASE Next
  <2>1. pace' = pace /\ pace # "any"
    BY <1>1 DEF Next
  <2>2. PICK p \in Procs :
          \/ Start(p) \/ Check(p) \/ Files(p) \/ HandOver(p) \/ Listen(p)
          \/ Exit(p) \/ Kill(p) \/ Reuse(p)
    BY <1>1 DEF Next
  <2> QED
    BY <2>1, <2>2, CheckIInv, FilesIInv, HandOverIInv, ListenIInv, OutsideIInv
<1>2. CASE UNCHANGED vars
  BY <1>2 DEF vars, IInv, Turns, TypeOK, Ends, Olds, Holds, Locked, OneStart, Vacant
<1> QED
  BY <1>1, <1>2
-----------------------------------------------------------------------------
(* All variables keep their types when no two starts read the lock at once *)
(* (singlecheck.cpp 38-108, listenpipe.cpp 40-79).                         *)
THEOREM TypeCorrect ==
  ASSUME "any" \notin Paces
  PROVE  Spec => []TypeOK
<1>1. Init => IInv /\ pace \in Paces
  BY InitIInv DEF Init
<1>2. (IInv /\ pace \in Paces) /\ [Next]_vars => (IInv /\ pace \in Paces)'
  BY NextIInv
<1>3. IInv => TypeOK
  BY DEF IInv
<1> QED
  BY <1>1, <1>2, <1>3, PTL DEF Spec

(* When no two starts read the lock at once, two processes are never the   *)
(* program, for every number of starts, deaths and reused numbers          *)
(* (singlecheck.cpp 38-108).                                               *)
THEOREM SingleProgram ==
  ASSUME "any" \notin Paces
  PROVE  Spec => []OneProgram
<1>1. Init => IInv /\ pace \in Paces
  BY InitIInv DEF Init
<1>2. (IInv /\ pace \in Paces) /\ [Next]_vars => (IInv /\ pace \in Paces)'
  BY NextIInv
<1>3. IInv => OneProgram
  BY DEF IInv, Turns, Locked, Holds, Up, OneProgram
<1> QED
  BY <1>1, <1>2, <1>3, PTL DEF Spec
-----------------------------------------------------------------------------
(* Starts and ends in turns.                                               *)
InTurns == pace \in {"turns", "waits"}

(* Who listens is the program, or is about to end.                         *)
Owned == \A p \in Procs : ear[p].stage # "off" =>
  p \notin m_old /\ pc[p] \in Sending \cup {"main"} \cup Ending

(* It has a FIFO, and has it open except before its next open.             *)
Tuned == \A p \in Procs : ear[p].stage # "off" =>
  pipe # None /\ (ear[p].stage # "open" => ear[p].at = pipe)

(* Who ends does so alone.                                                 *)
Alone == \A p, q \in Procs : pc[p] \in Ending /\ p # q => pc[q] \in {"off", "gone"}

EarInv == Owned /\ Tuned /\ Alone

(* Starting and ending move a process on and leave the FIFO alone.         *)
LEMMA StartEars ==
  ASSUME InTurns, IInv, EarInv, NEW p \in Procs, Start(p) \/ Check(p) \/ Exit(p)
  PROVE  EarInv'
<1> USE DEF EarInv, IInv, Turns
<1>1. UNCHANGED <<ear, pipe>>
  BY DEF Start, Check, FindNone, FindDead, FindOld, Exit
<1>2. CASE Start(p)
  <2>1. Only(p, "check") /\ pc[p] = "off" /\ UNCHANGED m_old
        /\ \A q \in Procs : pc[q] \notin Ending
    BY <1>2, GoOnly DEF Start, CalmStart, InTurns
  <2> QED
    BY <1>1, <2>1 DEF Only, Owned, Tuned, Alone, Sending, Ending
<1>3. CASE Check(p)
  <2>1. /\ pc[p] = "check" /\ m_old \subseteq m_old' /\ m_old' \subseteq m_old \cup {p}
        /\ \/ Only(p, "create") \/ Only(p, "unlock") \/ Only(p, "open") \/ Only(p, "gone")
    BY <1>3, GoOnly DEF Check, FindNone, FindDead, FindOld
  <2>2. ear[p].stage = "off" /\ \A q \in Procs : pc[q] \notin Ending
    BY <2>1 DEF Owned, Alone, Sending, Ending
  <2> QED
    BY <1>1, <2>1, <2>2 DEF Only, Owned, Tuned, Alone, Sending, Ending
<1>4. CASE Exit(p)
  <2>1. Only(p, "quit") /\ pc[p] = "main" /\ UNCHANGED m_old
        /\ \A q \in Procs : pc[q] \notin Starting \cup Ending \cup Sending
    BY <1>4, GoOnly DEF Exit, CalmEnd, InTurns
  <2>2. \A q \in Procs : q # p => pc[q] # "main"
    BY <2>1 DEF Olds, Locked, Holds, Sending
  <2>3. \A q \in Procs : q # p => pc[q] \in {"off", "gone"}
    BY <2>1, <2>2 DEF TypeOK, Starting, Ending
  <2> QED
    BY <1>1, <2>1, <2>3 DEF Only, Owned, Tuned, Alone, Sending, Ending
<1> QED
  BY <1>2, <1>3, <1>4

(* A FIFO is removed only when nobody listens, and made by who will.       *)
LEMMA FilesEars ==
  ASSUME IInv, EarInv, NEW p \in Procs, Files(p)
  PROVE  EarInv'
<1> USE DEF EarInv, IInv, Turns
<1>1. CASE Unlock(p) \/ WriteLock(p)
  <2>1. /\ UNCHANGED <<ear, pipe, m_old>>
        /\ \/ pc[p] \in {"unlock", "create"} /\ (Only(p, "unpipe") \/ Only(p, "pipe"))
           \/ pc[p] = "quit" /\ Only(p, "quitpipe")
    BY <1>1, GoOnly DEF Unlock, WriteLock
  <2> QED
    BY <2>1 DEF Only, Owned, Tuned, Alone, Sending, Ending
<1>2. CASE UnpipeDead(p)
  <2>1. UNCHANGED <<ear, m_old>> /\ pc[p] = "unpipe" /\ Only(p, "create")
    BY <1>2, GoOnly DEF UnpipeDead
  <2>2. \A q \in Procs : ear[q].stage = "off"
    BY <2>1 DEF Owned, Alone, Vacant, Holds, Sending, Ending
  <2>3. \A q \in Procs : pc[q] \notin Ending
    BY <2>1 DEF Alone, Ending
  <2> QED
    BY <2>1, <2>2, <2>3 DEF Only, Owned, Tuned, Alone, Sending, Ending
<1>3. CASE UnpipeOwn(p)
  <2>1. ear' = [ear EXCEPT ![p] = Deaf] /\ UNCHANGED m_old
        /\ pc[p] = "quitpipe" /\ Only(p, "gone")
    BY <1>3, GoOnly, EndTypes DEF UnpipeOwn, End
  <2>2. \A q \in Procs : ear'[q].stage = "off"
    BY <2>1 DEF Owned, Alone, Sending, Ending, TypeOK, Deaf
  <2> QED
    BY <2>1, <2>2 DEF Only, Owned, Tuned, Alone, Sending, Ending
<1>4. CASE MakePipe(p)
  <2>1. /\ ear' = [ear EXCEPT ![p].stage = "open"] /\ UNCHANGED m_old
        /\ pc[p] = "pipe" /\ (Only(p, "open") \/ Only(p, "main"))
        /\ pipe' = IF pipe = None THEN p ELSE pipe
    BY <1>4, GoOnly DEF MakePipe
  <2>2. pipe' # None /\ (pipe # None => pipe' = pipe)
    BY <2>1, SingleInstanceAssumption
  <2>3. p \notin m_old /\ ear[p].stage = "off" /\ \A q \in Procs : pc[q] \notin Ending
    BY <2>1 DEF Olds, Owned, Alone, Sending, Ending
  <2>4. /\ \A q \in Procs : q # p => ear'[q] = ear[q]
        /\ ear'[p].stage = "open"
    BY <2>1 DEF TypeOK
  <2> QED
    BY <2>1, <2>2, <2>3, <2>4 DEF Only, Owned, Tuned, Alone, Sending, Ending
<1> QED
  BY <1>1, <1>2, <1>3, <1>4 DEF Files

(* A process that dies stops listening.                                    *)
LEMMA DeadEars ==
  ASSUME IInv, EarInv, NEW p \in Procs,
         ListenNull(p) \/ WriteBroken(p) \/ Kill(p)
  PROVE  EarInv'
<1> USE DEF EarInv, IInv, Turns
<1>1. ear' = [ear EXCEPT ![p] = Deaf] /\ UNCHANGED <<pipe, m_old>> /\ Only(p, "gone")
  BY GoOnly, EndTypes DEF ListenNull, WriteBroken, Kill, End
<1>2. ear'[p].stage = "off" /\ \A q \in Procs : q # p => ear'[q] = ear[q]
  BY <1>1 DEF TypeOK, Deaf
<1> QED
  BY <1>1, <1>2 DEF Only, Owned, Tuned, Alone, Sending, Ending

(* Handing over wakes a listener; a program goes on, a later one ends.     *)
LEMMA HandOverEars ==
  ASSUME IInv, EarInv, NEW p \in Procs, OpenWrite(p) \/ WriteArgs(p) \/ CloseWrite(p)
  PROVE  EarInv'
<1> USE DEF EarInv, IInv, Turns
<1>1. /\ UNCHANGED <<pipe, m_old>> /\ pc[p] \in Sending
      /\ \/ Only(p, After(p)) \/ Only(p, "opening") \/ Only(p, "write") \/ Only(p, "close")
  BY GoOnly DEF OpenWrite, WriteArgs, CloseWrite, Sending
<1>2. \A q \in Procs :
        ear'[q] # ear[q] => /\ ear[q].stage = "wait"
                            /\ ear'[q] = [ear[q] EXCEPT !.stage = "read"]
  <2>1. CASE OpenWrite(p) /\ pipe # None
    BY <2>1 DEF OpenWrite
  <2>2. CASE UNCHANGED ear
    BY <2>2
  <2> QED
    BY <2>1, <2>2 DEF OpenWrite, WriteArgs, CloseWrite
<1>3. \A q \in Procs : /\ ear'[q].stage # "off" => ear[q].stage # "off"
                       /\ ear'[q].stage = "open" <=> ear[q].stage = "open"
                       /\ ear'[q].at = ear[q].at
  BY <1>2 DEF TypeOK
<1>4. \A q \in Procs : pc[q] \in Ending => q = p
  BY <1>1 DEF Alone, Sending
<1>5. /\ \A q \in Procs : q # p => pc'[q] = pc[q]
      /\ pc'[p] \in Sending \cup {"main", "gone"}
      /\ p \notin m_old => pc'[p] # "gone"
  BY <1>1 DEF Only, After, Sending
<1>6. Owned'
  BY <1>1, <1>3, <1>5 DEF Owned
<1>7. Tuned'
  BY <1>1, <1>3 DEF Tuned
<1>8. Alone'
  BY <1>4, <1>5 DEF Alone, Sending, Ending
<1> QED
  BY <1>6, <1>7, <1>8

(* The listener opens the FIFO of the path.                                *)
LEMMA ListenEars ==
  ASSUME IInv, EarInv, NEW p \in Procs, ListenOpen(p) \/ ListenRead(p) \/ ListenClose(p)
  PROVE  EarInv'
<1> USE DEF EarInv, IInv, Turns
<1>1. /\ UNCHANGED <<pipe, m_old>> /\ ear[p].stage # "off"
      /\ \A q \in Procs : q # p => ear'[q] = ear[q]
      /\ ear'[p].stage # "off"
      /\ (ear'[p].stage = "open" \/ ear'[p].at = pipe)
  <2>1. CASE ListenOpen(p)
    BY <2>1 DEF ListenOpen, TypeOK
  <2>2. CASE ListenRead(p)
    BY <2>2 DEF ListenRead, TypeOK, Tuned
  <2>3. CASE ListenClose(p)
    BY <2>3 DEF ListenClose, TypeOK, Again
  <2> QED
    BY <2>1, <2>2, <2>3
<1>2. \A q \in Procs : pc'[q] = pc[q] \/ {pc[q], pc'[q]} = {"opening", "write"}
  BY DEF ListenOpen, ListenRead, ListenClose
<1> QED
  BY <1>1, <1>2 DEF Owned, Tuned, Alone, Sending, Ending

LEMMA NextEars ==
  ASSUME InTurns, IInv, EarInv, [Next]_vars
  PROVE  EarInv'
<1>1. CASE UNCHANGED vars
  BY <1>1 DEF vars, EarInv, Owned, Tuned, Alone
<1>2. CASE Next
  <2>1. PICK p \in Procs :
          \/ Start(p) \/ Check(p) \/ Files(p) \/ HandOver(p) \/ Listen(p)
          \/ Exit(p) \/ Kill(p) \/ Reuse(p)
    BY <1>2 DEF Next
  <2>2. CASE Reuse(p)
    BY <2>2 DEF Reuse, EarInv, Owned, Tuned, Alone
  <2> QED
    BY <2>1, <2>2, StartEars, FilesEars, DeadEars, HandOverEars, ListenEars
       DEF HandOver, Listen
<1> QED
  BY <1>1, <1>2

(* When starts and ends are in turns, the program listens to the FIFO that *)
(* a later one writes to, and its listener never meets a missing one       *)
(* (listenpipe.cpp 52: the result of fopen is not tested).                 *)
THEOREM ListenerIsThere ==
  ASSUME "any" \notin Paces
  PROVE  Spec => []ListensInTurns
<1> DEFINE TInv == IInv /\ pace \in Paces /\ (InTurns => EarInv)
<1>1. Init => TInv
  BY InitIInv DEF Init, EarInv, Owned, Tuned, Alone, Deaf, Ending
<1>2. TInv /\ [Next]_vars => TInv'
  BY NextIInv, NextEars DEF InTurns
<1>3. TInv => ListensInTurns
  <2> SUFFICES ASSUME TInv, InTurns, NEW p \in Procs
               PROVE  /\ Readers(p) # {} => pipe = p
                      /\ ear[p].stage = "open" => pipe # None
    BY DEF ListensInTurns, InTurns
  <2> QED
    BY DEF EarInv, Tuned, Readers
<1> QED
  BY <1>1, <1>2, <1>3, PTL DEF Spec
=============================================================================
