--------------------------- MODULE SingleInstance ---------------------------
(***************************************************************************)
(* CSingleCheck, the part of MgApp::OnInit around it, and CListenPipe: the *)
(* first program leaves its number in a lock file and listens to a FIFO; a *)
(* later one finds the number of a living process, writes its arguments    *)
(* into the FIFO and ends.                                                 *)
(*                                                                         *)
(* An action is a call that other processes can see.  The lock is written  *)
(* at once: one found empty names no process and is taken for the lock of  *)
(* a dead one.  A FIFO is named by the process that made it, since its     *)
(* path may come to name another one while the old one is still open.  An  *)
(* open of one end waits for an open of the other.                         *)
(***************************************************************************)
EXTENDS Sequences

CONSTANTS
  Procs,     \* starts of the program, each one with its process number
  WithArgs,  \* those that are given arguments
  Killed,    \* those that may die while they run
  Reused,    \* those whose number another program may get afterwards
  Paces      \* how the user may start and end programs: see CalmStart

None == "none"

ASSUME SingleInstanceAssumption ==
  /\ WithArgs \subseteq Procs /\ Killed \subseteq Procs /\ Reused \subseteq Procs
  /\ Paces \subseteq {"any", "starts", "turns", "waits"} /\ None \notin Procs

VARIABLES
  pc,      \* where each process is
  m_old,   \* those that found an older one
  lock,    \* the number in single.lock
  pipe,    \* the FIFO its path names
  out,     \* the FIFO each process writes to
  ear,     \* the listener of each process and its FIFO
  data,    \* what each FIFO holds: whose arguments
  heard,   \* whose arguments became an event of a program
  reused,  \* numbers that belong to another program now
  pace     \* how the user does start and end programs

vars == <<pc, m_old, lock, pipe, out, ear, data, heard, reused, pace>>

Sending == {"open", "opening", "write", "close"}
Up(p) == p \notin m_old /\ pc[p] \in Sending \cup {"main"}   \* it is the program
Exists(q) == q \in reused \/ pc[q] \notin {"off", "gone"}    \* /proc/q

Readers(k) == {p \in Procs : ear[p].at = k /\ ear[p].stage \in {"wait", "read", "close"}}
Writers(k) == {p \in Procs : out[p] = k /\ pc[p] \in {"opening", "write", "close"}}

Go(p, next) == pc[p] # next /\ pc' = [pc EXCEPT ![p] = next]
Deaf == [stage |-> "off", at |-> None]

(* The lock is looked at by one start after the other; in turns: and no    *)
(* program ends during that or while arguments are handed over.  When the  *)
(* user waits, the listener has also come back to its open.                *)
Starting == {"check", "unlock", "unpipe", "create", "pipe"}
Ending == {"quit", "quitpipe"}
Waited == \A q \in Procs : pc[q] \notin Sending /\ ear[q].stage \in {"off", "wait"}
CalmStart ==
  /\ pace # "any" => \A q \in Procs : pc[q] \notin Starting
  /\ pace \in {"turns", "waits"} => \A q \in Procs : pc[q] \notin Ending
  /\ pace = "waits" => Waited
CalmEnd ==
  /\ pace \in {"turns", "waits"} =>
       \A q \in Procs : pc[q] \notin Starting \cup Ending \cup Sending
  /\ pace = "waits" => Waited

Init ==
  /\ pc = [p \in Procs |-> "off"] /\ m_old = {} /\ lock = None /\ pipe = None
  /\ out = [p \in Procs |-> None] /\ ear = [p \in Procs |-> Deaf]
  /\ data = [p \in Procs |-> << >>] /\ heard = {} /\ reused = {}
  /\ pace \in Paces
-----------------------------------------------------------------------------
(* CSingleCheck: the lock is read, and its process looked up in /proc.     *)
Start(p) ==
  /\ pc[p] = "off" /\ p \notin reused /\ CalmStart /\ Go(p, "check")
  /\ UNCHANGED <<m_old, lock, pipe, out, ear, data, heard, reused>>

FindNone(p) ==
  /\ pc[p] = "check" /\ lock = None /\ Go(p, "create")
  /\ UNCHANGED <<m_old, lock, pipe, out, ear, data, heard, reused>>

FindDead(p) ==
  /\ pc[p] = "check" /\ lock # None /\ ~Exists(lock) /\ Go(p, "unlock")
  /\ UNCHANGED <<m_old, lock, pipe, out, ear, data, heard, reused>>

FindOld(p) ==
  /\ pc[p] = "check" /\ lock # None /\ Exists(lock)
  /\ m_old' = m_old \cup {p} /\ Go(p, IF p \in WithArgs THEN "open" ELSE "gone")
  /\ UNCHANGED <<lock, pipe, out, ear, data, heard, reused>>

(* Clean, of a dead program's files and of one's own (OnExit).             *)
Unlock(p) ==
  /\ lock' = None
  /\ \/ pc[p] = "unlock" /\ Go(p, "unpipe")
     \/ pc[p] = "quit" /\ Go(p, "quitpipe")
  /\ UNCHANGED <<m_old, pipe, out, ear, data, heard, reused>>

(* A process that ends closes its ends of the FIFOs, and a FIFO without    *)
(* any forgets what it holds.                                              *)
Kept(readers, writers) ==
  [k \in Procs |-> IF readers[k] \cup writers[k] = {} THEN << >> ELSE data[k]]
End(p) ==
  /\ Go(p, "gone") /\ ear' = [ear EXCEPT ![p] = Deaf]
  /\ data' = Kept([k \in Procs |-> Readers(k) \ {p}], [k \in Procs |-> Writers(k) \ {p}])

UnpipeDead(p) ==
  /\ pc[p] = "unpipe" /\ pipe' = None /\ Go(p, "create")
  /\ UNCHANGED <<m_old, lock, out, ear, data, heard, reused>>
UnpipeOwn(p) ==
  /\ pc[p] = "quitpipe" /\ pipe' = None /\ End(p)
  /\ UNCHANGED <<m_old, lock, out, heard, reused>>

WriteLock(p) ==
  /\ pc[p] = "create" /\ lock' = p /\ Go(p, "pipe")
  /\ UNCHANGED <<m_old, pipe, out, ear, data, heard, reused>>

(* MakePipe fails when there is one, which is used then; the main window   *)
(* starts the listener.                                                    *)
MakePipe(p) ==
  /\ pc[p] = "pipe"
  /\ pipe' = IF pipe = None THEN p ELSE pipe
  /\ ear' = [ear EXCEPT ![p].stage = "open"]
  /\ Go(p, IF p \in WithArgs THEN "open" ELSE "main")
  /\ UNCHANGED <<m_old, lock, out, data, heard, reused>>
-----------------------------------------------------------------------------
(* OnInit with arguments, in the first program too.  Without a FIFO open,  *)
(* write and close fail, unnoticed.                                        *)
AfterMutant(p) == IF p \in m_old THEN "quit" ELSE "main"
After(p) == IF p \in m_old THEN "gone" ELSE "main"

OpenWrite(p) ==
  /\ pc[p] = "open"
  /\ IF pipe = None THEN Go(p, After(p)) /\ UNCHANGED <<out, ear>>
     ELSE /\ out' = [out EXCEPT ![p] = pipe]
          /\ Go(p, IF Readers(pipe) = {} THEN "opening" ELSE "write")
          /\ ear' = [q \in Procs |-> IF q \in Readers(pipe) /\ ear[q].stage = "wait"
                                     THEN [ear[q] EXCEPT !.stage = "read"] ELSE ear[q]]
  /\ UNCHANGED <<m_old, lock, pipe, data, heard, reused>>

WriteArgs(p) ==
  /\ pc[p] = "write" /\ Readers(out[p]) # {} /\ Go(p, "close")
  /\ data' = [data EXCEPT ![out[p]] = Append(@, p)]
  /\ UNCHANGED <<m_old, lock, pipe, out, ear, heard, reused>>

(* Nobody reads any more: SIGPIPE, which nothing catches.                  *)
WriteBroken(p) ==
  /\ pc[p] = "write" /\ Readers(out[p]) = {} /\ End(p)
  /\ UNCHANGED <<m_old, lock, pipe, out, heard, reused>>

CloseWrite(p) ==
  /\ pc[p] = "close" /\ Go(p, After(p))
  /\ data' = Kept([k \in Procs |-> Readers(k)], [k \in Procs |-> Writers(k) \ {p}])
  /\ UNCHANGED <<m_old, lock, pipe, out, ear, heard, reused>>
-----------------------------------------------------------------------------
(* CListenPipe::Entry.  fopen, which ends the wait of whoever is opening;  *)
(* its result is not tested, so a missing FIFO ends the program.           *)
ListenOpen(p) ==
  /\ ear[p].stage = "open" /\ pipe # None
  /\ ear' = [ear EXCEPT ![p] =
       [stage |-> IF Writers(pipe) = {} THEN "wait" ELSE "read", at |-> pipe]]
  /\ pc' = [q \in Procs |-> IF q \in Writers(pipe) /\ pc[q] = "opening" THEN "write" ELSE pc[q]]
  /\ UNCHANGED <<m_old, lock, pipe, out, data, heard, reused>>

ListenNull(p) ==
  /\ ear[p].stage = "open" /\ pipe = None /\ End(p)
  /\ UNCHANGED <<m_old, lock, pipe, out, heard, reused>>

(* fscanf reads to the end of the file, so after the last writer; of what  *)
(* several wrote only the first is used, as a zero byte follows it.        *)
UsedMutant(s) == {s}
Used(s) == IF s = << >> THEN {} ELSE {Head(s)}

ListenRead(p) ==
  LET k == ear[p].at IN
  /\ ear[p].stage = "read" /\ Writers(k) = {}
  /\ ear' = [ear EXCEPT ![p].stage = "close"]
  /\ heard' = heard \cup Used(data[k])
  /\ data' = [data EXCEPT ![k] = << >>]
  /\ UNCHANGED <<pc, m_old, lock, pipe, out, reused>>

AgainMutant == "off"
Again == "open"

ListenClose(p) ==
  /\ ear[p].stage = "close" /\ ear' = [ear EXCEPT ![p] = [stage |-> Again, at |-> None]]
  /\ data' = Kept([k \in Procs |-> Readers(k) \ {p}], [k \in Procs |-> Writers(k)])
  /\ UNCHANGED <<pc, m_old, lock, pipe, out, heard, reused>>
-----------------------------------------------------------------------------
(* The user ends the program, or it dies with its files left; its number   *)
(* is given to another program.                                            *)
Exit(p) ==
  /\ pc[p] = "main" /\ CalmEnd /\ Go(p, "quit")
  /\ UNCHANGED <<m_old, lock, pipe, out, ear, data, heard, reused>>

Kill(p) ==
  /\ p \in Killed /\ Up(p) /\ End(p)
  /\ UNCHANGED <<m_old, lock, pipe, out, heard, reused>>

Reuse(p) ==
  /\ p \in Reused \ reused /\ pc[p] = "gone" /\ reused' = reused \cup {p}
  /\ UNCHANGED <<pc, m_old, lock, pipe, out, ear, data, heard>>

Check(p) == FindNone(p) \/ FindDead(p) \/ FindOld(p)
Files(p) == Unlock(p) \/ UnpipeDead(p) \/ UnpipeOwn(p) \/ WriteLock(p) \/ MakePipe(p)
HandOver(p) == OpenWrite(p) \/ WriteArgs(p) \/ WriteBroken(p) \/ CloseWrite(p)
Listen(p) == ListenOpen(p) \/ ListenNull(p) \/ ListenRead(p) \/ ListenClose(p)

Next ==
  /\ \E p \in Procs :
       \/ Start(p) \/ Check(p) \/ Files(p) \/ HandOver(p) \/ Listen(p)
       \/ Exit(p) \/ Kill(p) \/ Reuse(p)
  /\ UNCHANGED pace

Spec == Init /\ [][Next]_vars

(* The system runs each process and its listener.                          *)
Process(p) == UNCHANGED pace /\ (Check(p) \/ Files(p) \/ HandOver(p))
Listener(p) == UNCHANGED pace /\ Listen(p)
FairSpec == Spec /\ \A p \in Procs : WF_vars(Process(p)) /\ WF_vars(Listener(p))
-----------------------------------------------------------------------------
TypeOK ==
  /\ pc \in [Procs -> {"off", "check", "unlock", "unpipe", "create", "pipe", "main",
                       "quit", "quitpipe", "gone"} \cup Sending]
  /\ m_old \subseteq Procs /\ heard \subseteq Procs /\ reused \subseteq Procs
  /\ lock \in Procs \cup {None} /\ pipe \in Procs \cup {None}
  /\ out \in [Procs -> Procs \cup {None}]
  /\ ear \in [Procs -> [stage : {"off", "open", "wait", "read", "close"},
                        at : Procs \cup {None}]]
  /\ data \in [Procs -> Seq(Procs)]

(* mgapp.cpp 79: "single check".  Two processes are never the program at   *)
(* once when no two starts overlap, whatever died or ends meanwhile.       *)
OneProgram == \A p, q \in Procs : Up(p) /\ Up(q) => p = q

(* singlecheck.cpp 101, of the process whose number is in the lock: "prog  *)
(* exists".                                                                *)
OldRuns == [][\A p \in Procs : FindOld(p) => lock \in Procs /\ Up(lock)]_vars

(* The program listens to the FIFO a later one writes to, and never meets  *)
(* a missing one, when starts and ends are in turns.                       *)
ListensInTurns ==
  pace \in {"turns", "waits"} =>
    \A p \in Procs : /\ Readers(p) # {} => pipe = p
                     /\ ear[p].stage = "open" => pipe # None

(* Who hands over its arguments is not left waiting for a listener, unless *)
(* no program is there any more: one started with arguments may die of a   *)
(* broken pipe when its listener closes between its own open and write.    *)
HandOverEnds ==
  \A p \in Procs :
    pc[p] = "open" ~> pc[p] \in {"main", "gone"} \/ \A q \in Procs : ~Up(q)

(* When the user waits for the program between two starts, all arguments   *)
(* reach it.                                                               *)
ArgsHeard == \A p \in Procs : pc[p] = "open" ~> p \in heard
=============================================================================
