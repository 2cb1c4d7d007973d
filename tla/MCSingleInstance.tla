-------------------------- MODULE MCSingleInstance --------------------------
(***************************************************************************)
(* SingleInstance at four paces.  The constants of the configuration are   *)
(* those of "turns", where programs die and numbers are reused, and of     *)
(* "starts", which lets ends and hand-overs overlap with starts.  At the   *)
(* fair paces, "turns" and "waits", nothing dies, and the system runs      *)
(* every process and its listener.                                         *)
(***************************************************************************)
EXTENDS SingleInstance

CONSTANTS Plain \* those without arguments at the fair paces

VARIABLE fair
mcvars == <<vars, fair>>

Fair == INSTANCE SingleInstance WITH
          WithArgs <- Procs \ Plain, Killed <- {}, Reused <- {}, Paces <- {"turns", "waits"}

MCInit == \/ fair = FALSE /\ Init
          \/ fair = TRUE /\ Fair!Init
MCNext == /\ \/ ~fair /\ Next
             \/ fair /\ Fair!Next
          /\ UNCHANGED fair

MCProcess(p) == fair /\ UNCHANGED fair /\ Fair!Process(p)
MCListener(p) == fair /\ UNCHANGED fair /\ Fair!Listener(p)

MCSpec == /\ MCInit /\ [][MCNext]_mcvars
          /\ \A p \in Procs : WF_mcvars(MCProcess(p)) /\ WF_mcvars(MCListener(p))
-----------------------------------------------------------------------------
(* Who hands over its arguments is not left waiting: HandOverEnds.         *)
HandOversEnd ==
  \A p \in Procs : (fair /\ pace = "turns" /\ pc[p] = "open")
                     ~> (pc[p] \in {"main", "gone"} \/ \A q \in Procs : ~Up(q))

(* When the user waits, all arguments reach the program: ArgsHeard.        *)
WaitedArgsHeard ==
  \A p \in Procs : (pace = "waits" /\ pc[p] = "open") ~> p \in heard

(* Both, of whoever hands over.                                            *)
HandOvers == HandOversEnd /\ WaitedArgsHeard
=============================================================================
