----------------------------- MODULE SingleTask -----------------------------
(***************************************************************************)
(* CMgSingleTask: the threads of one task and the way they end.            *)
(*                                                                         *)
(* An init thread asks the server about the file and starts the working    *)
(* threads (CProAnts, "ants").  The last ant to quit reports the end of    *)
(* the task to the main window.  The user interface thread adds and        *)
(* removes ants (ThreadUp, ThreadDown) and destroys the task; to remove an *)
(* ant it cancels the thread (asynchronously) and joins it.                *)
(*                                                                         *)
(* m_AntsMutex guards the counters; m_IndexMutex and m_UListMutex, of the  *)
(* file manager, guard the index and the list of URLs.  The file manager   *)
(* itself (modules FileManager and UrlList) is reduced to a number of      *)
(* pieces - GetTask hands one out, FileData stores it, ThreadQuit puts     *)
(* back what the ant did not store - and to the mirrors it knows.  The     *)
(* user interface thread enters mirrors while the init thread makes,       *)
(* deletes and fills the file manager; no lock protects that.              *)
(***************************************************************************)
EXTENDS Integers, FiniteSets

CONSTANTS
  MaxAnts,    \* ants a task has room for (10 in the code)
  StartAnts,  \* m_nAnts of a new task, from the user's settings
  Pieces,     \* pieces of the file
  MaxUps,     \* bound: clicks on "add a thread"
  MaxDowns,   \* bound: clicks on "remove a thread"
  MaxMirrors, \* bound: mirrors of the task
  MaxReports  \* bound: how often ants report on a URL or try again (m_nRetry)

ASSUME SingleTaskAssumption ==
  /\ MaxAnts \in Nat /\ StartAnts \in 1 .. MaxAnts
  /\ Pieces \in Nat /\ MaxUps \in Nat /\ MaxDowns \in Nat
  /\ MaxMirrors \in Nat /\ MaxReports \in Nat

VARIABLES
  init,       \* the init thread: "info", "check", "mirrors", "start", "done",
              \* "failed" or "killed"
  nAnts,      \* m_nAnts
  nRunning,   \* m_nRunningAnts
  pAnts,      \* the ants whose object exists: m_pAnts[i - 1] # NULL
  pc,         \* where each ant is
  cancelled,  \* ants with a pthread_cancel pending
  antsMutex,  \* TRUE while the UI thread holds m_AntsMutex across steps
  indexMutex, \* the ant that holds m_IndexMutex across steps, Free or Dead
  listMutex,  \* the ant that holds m_UListMutex across steps, Free or Dead
  pushed,     \* how many URLs m_sMirrorUrl has
  given,      \* those of them that are in m_UrlList
  torn,       \* m_sMirrorUrl grew while the init thread iterated over it
  ui,         \* what the UI thread is doing with this task
  stop,       \* m_bStop of the file manager
  todo,       \* pieces no ant is fetching
  holding,    \* ants that fetch a piece
  status,     \* m_nStatus: "running", "finish" or "error"
  posted,     \* task-finish events sent to the main window
  failed,     \* ants that gave up on their servers
  reports,    \* reports and new attempts so far
  ups, downs

work == <<todo, holding>>
counters == <<nAnts, nRunning, pAnts>>
report == <<status, posted>>
clicks == <<ups, downs>>
mutexes == <<antsMutex, indexMutex, listMutex>>
mirrors == <<pushed, given, torn>>
net == <<failed, reports>>
vars == <<init, counters, pc, cancelled, mutexes, mirrors, ui, stop, work,
          report, net, clicks>>

Ants == 1 .. MaxAnts
Free == 0
Dead == 0 - 1  \* of a mutex: its owner was killed

(* An ant in one of these places can be cancelled: WorkThread asks for     *)
(* asynchronous cancellation and turns it off only around FileData and in  *)
(* ThreadQuit.                                                             *)
Cancellable == {"work", "asks", "gettask", "lists", "inlist"}
Alive == Cancellable \cup {"write", "compare", "quitFM", "quitTask"}
Live == {t \in Ants : pc[t] \in Alive}

(* m_pFM is there. *)
HasFM == init \in {"check", "mirrors", "start", "done"}

(* CMgFileManager::IsTaskFinish. *)
IsTaskFinish == todo = 0 /\ holding = {}

(* CMgFileManager::ThreadQuit, of an ant that quits or of one that was     *)
(* cancelled.                                                              *)
Release(t) ==
  /\ holding' = holding \ {t}
  /\ todo' = IF t \in holding THEN todo + 1 ELSE todo
-----------------------------------------------------------------------------
Init ==
  /\ init = "info"
  /\ nAnts = StartAnts /\ nRunning = 0 /\ pAnts = {}
  /\ pc = [t \in Ants |-> "none"]
  /\ cancelled = {}
  /\ antsMutex = FALSE /\ indexMutex = Free /\ listMutex = Free
  /\ pushed \in 0 .. MaxMirrors /\ given = {} /\ torn = FALSE
  /\ ui = "idle" /\ stop = FALSE
  /\ todo = Pieces /\ holding = {}
  /\ status = "running" /\ posted = 0
  /\ failed = {} /\ reports = 0
  /\ ups = 0 /\ downs = 0

(* It takes m_QuitMutex, which the destructor holds while ui = "quit". *)
FinishTask(result) ==
  /\ ui # "quit"
  /\ status' = result
  /\ posted' = posted + 1
-----------------------------------------------------------------------------
(* The init thread. *)

(* GetInfo fails. *)
InfoFails ==
  /\ init = "info"
  /\ init' = "failed"
  /\ FinishTask("error")
  /\ UNCHANGED <<counters, pc, cancelled, mutexes, mirrors, ui, stop, work,
                 net, clicks>>

(* The file is known, and m_pFM created.  A server that cannot resume, or  *)
(* did not tell the length, gets one ant.  That assignment takes no lock,  *)
(* and a ThreadUp that has read m_nAnts may overwrite it.                  *)
InfoDone(single) ==
  /\ init = "info"
  /\ init' = "check"
  /\ \/ /\ nAnts' = IF single THEN 1 ELSE nAnts
        /\ UNCHANGED ui
     \/ /\ single /\ ui = "up" /\ nAnts < MaxAnts
        /\ nAnts' = nAnts + 1
        /\ ui' = "idle"
  /\ UNCHANGED <<nRunning, pAnts, pc, cancelled, mutexes, mirrors, stop, work,
                 report, net, clicks>>

(* CheckFile fails, and m_pFM is deleted, ... *)
CheckFails ==
  /\ init = "check"
  /\ init' = "failed"
  /\ FinishTask("error")
  /\ UNCHANGED <<counters, pc, cancelled, mutexes, mirrors, ui, stop, work,
                 net, clicks>>

(* ... or the init thread goes through m_sMirrorUrl, ... *)
CheckDone ==
  /\ init = "check"
  /\ init' = "mirrors"
  /\ UNCHANGED <<counters, pc, cancelled, mutexes, mirrors, ui, stop, work,
                 report, net, clicks>>

(* ... and has given every mirror to m_pFM: if the list did not grow under *)
(* its iterator, which then is worth nothing.                              *)
GiveMirrors ==
  /\ init = "mirrors"
  /\ init' = "start"
  /\ \E found \in SUBSET (1 .. pushed) :
       /\ torn \/ found = 1 .. pushed
       /\ given' = given \cup found
  /\ UNCHANGED <<counters, pc, cancelled, mutexes, pushed, torn, ui, stop,
                 work, report, net, clicks>>

InitAntsMutant ==
  /\ init = "start" /\ ~antsMutex
  /\ init' = "done"
  /\ pAnts' = 1 .. nAnts
  /\ nRunning' = StartAnts
  /\ pc' = [t \in Ants |-> IF t \in pAnts' THEN "work" ELSE "none"]
  /\ UNCHANGED <<nAnts, cancelled, mutexes, mirrors, ui, stop, work, report,
                 net, clicks>>

(* The ants are started under m_AntsMutex, with cancellation off. *)
InitAnts ==
  /\ init = "start" /\ ~antsMutex
  /\ init' = "done"
  /\ pAnts' = 1 .. nAnts
  /\ nRunning' = nAnts
  /\ pc' = [t \in Ants |-> IF t \in pAnts' THEN "work" ELSE "none"]
  /\ UNCHANGED <<nAnts, cancelled, mutexes, mirrors, ui, stop, work, report,
                 net, clicks>>
-----------------------------------------------------------------------------
(* An ant. *)

At(t, place) == pc' = [pc EXCEPT ![t] = place]

(* GetTask: nothing for a stopped task; else it takes m_IndexMutex, ... *)
GetTask(t) ==
  /\ pc[t] = "work" /\ t \notin holding
  /\ At(t, IF stop THEN "quitFM" ELSE "asks")
  /\ UNCHANGED <<init, counters, cancelled, mutexes, mirrors, ui, stop, work,
                 report, net, clicks>>

(* (also after an attempt that failed, when the ant still has a piece), ... *)
TryAgain(t) ==
  /\ pc[t] = "work" /\ t \in holding /\ reports < MaxReports
  /\ At(t, IF stop THEN "quitFM" ELSE "asks")
  /\ reports' = reports + 1
  /\ UNCHANGED <<init, counters, cancelled, mutexes, mirrors, ui, stop, work,
                 report, failed, clicks>>

GetTaskEnter(t) ==
  /\ pc[t] = "asks" /\ indexMutex = Free
  /\ indexMutex' = t
  /\ At(t, "gettask")
  /\ UNCHANGED <<init, counters, cancelled, antsMutex, listMutex, mirrors, ui,
                 stop, work, report, net, clicks>>

(* ... leaves with a piece, and then chooses a URL, or without any. *)
GetTaskLeave(t) ==
  /\ pc[t] = "gettask"
  /\ indexMutex' = Free
  /\ \/ t \in holding /\ UNCHANGED work /\ At(t, "lists")
     \/ /\ t \notin holding /\ todo > 0
        /\ todo' = todo - 1 /\ holding' = holding \cup {t}
        /\ At(t, "lists")
     \/ t \notin holding /\ todo = 0 /\ UNCHANGED work /\ At(t, "quitFM")
  /\ UNCHANGED <<init, counters, cancelled, antsMutex, listMutex, mirrors, ui,
                 stop, report, net, clicks>>

(* ReportUrl and ReportRedirect, too, work on the list of URLs, ... *)
Report(t) ==
  /\ pc[t] = "work" /\ t \in holding /\ reports < MaxReports
  /\ At(t, "lists")
  /\ reports' = reports + 1
  /\ UNCHANGED <<init, counters, cancelled, mutexes, mirrors, ui, stop, work,
                 report, failed, clicks>>

(* ... with m_UListMutex. *)
ListEnter(t) ==
  /\ pc[t] = "lists" /\ listMutex = Free
  /\ listMutex' = t
  /\ At(t, "inlist")
  /\ UNCHANGED <<init, counters, cancelled, antsMutex, indexMutex, mirrors,
                 ui, stop, work, report, net, clicks>>

ListLeave(t) ==
  /\ pc[t] = "inlist"
  /\ listMutex' = Free
  /\ At(t, "work")
  /\ UNCHANGED <<init, counters, cancelled, antsMutex, indexMutex, mirrors,
                 ui, stop, work, report, net, clicks>>

(* The piece has arrived: cancellation is turned off, ... *)
Received(t) ==
  /\ pc[t] = "work" /\ t \in holding
  /\ At(t, "write")
  /\ UNCHANGED <<init, counters, cancelled, mutexes, mirrors, ui, stop, work,
                 report, net, clicks>>

(* ... FileData stores it with m_IndexMutex, and cancellation is turned on *)
(* again.  Every 10 MB, if there is more than one URL, it looks for an     *)
(* unused one first, and waits for m_UListMutex with the index locked.     *)
FileData(t) ==
  /\ pc[t] = "write" /\ indexMutex = Free
  /\ holding' = holding \ {t}
  /\ \/ At(t, "work") /\ UNCHANGED indexMutex
     \/ given # {} /\ At(t, "compare") /\ indexMutex' = t
  /\ UNCHANGED <<init, counters, cancelled, antsMutex, listMutex, mirrors, ui,
                 stop, todo, report, net, clicks>>

Compare(t) ==
  /\ pc[t] = "compare" /\ listMutex = Free
  /\ indexMutex' = Free
  /\ At(t, "work")
  /\ UNCHANGED <<init, counters, cancelled, antsMutex, listMutex, mirrors, ui,
                 stop, work, report, net, clicks>>

(* The retries of the ant are used up. *)
GivesUp(t) ==
  /\ pc[t] = "work" /\ t \in holding
  /\ failed' = failed \cup {t} /\ UNCHANGED reports
  /\ At(t, "quitFM")
  /\ UNCHANGED <<init, counters, cancelled, mutexes, mirrors, ui, stop, work,
                 report, clicks>>

(* CProAnts::ThreadQuit: first the file manager's, then the task's. *)
QuitFileManager(t) ==
  /\ pc[t] = "quitFM" /\ indexMutex = Free
  /\ Release(t)
  /\ At(t, "quitTask")
  /\ UNCHANGED <<init, counters, cancelled, mutexes, mirrors, ui, stop,
                 report, net, clicks>>

LastMutant(running) == running < 0
LastMutant2(running) == running <= 1
Last(running) == running <= 0

ThreadQuit(t) ==
  /\ pc[t] = "quitTask" /\ ~antsMutex
  /\ nRunning' = nRunning - 1
  /\ IF Last(nRunning')
     THEN FinishTask(IF IsTaskFinish THEN "finish" ELSE "error")
     ELSE UNCHANGED report
  /\ At(t, "exited")
  /\ UNCHANGED <<init, nAnts, pAnts, cancelled, mutexes, mirrors, ui, stop,
                 work, net, clicks>>

(* The cancellation is acted upon.  A mutex the ant holds stays locked. *)
Orphaned(mutex, t) == IF mutex = t THEN Dead ELSE mutex

Killed(t) ==
  /\ t \in cancelled /\ pc[t] \in Cancellable
  /\ At(t, "exited")
  /\ indexMutex' = Orphaned(indexMutex, t)
  /\ listMutex' = Orphaned(listMutex, t)
  /\ UNCHANGED <<init, counters, cancelled, antsMutex, mirrors, ui, stop,
                 work, report, net, clicks>>
-----------------------------------------------------------------------------
(* The UI thread: each click is checked without the lock first. *)

(* m_nRunningAnts is 0 until the ants run, so no ant can be removed before *)
(* (the branch of ThreadDown for that case is never taken).                *)
ClickDown ==
  /\ ui = "idle" /\ downs < MaxDowns
  /\ nAnts > 1 /\ nRunning > 1
  /\ ui' = "down" /\ downs' = downs + 1
  /\ UNCHANGED <<init, counters, pc, cancelled, mutexes, mirrors, stop, work,
                 report, net, ups>>

(* The last ant is cancelled, and joined with m_AntsMutex held, ... *)
DownCancel ==
  /\ ui = "down" /\ ~antsMutex /\ nAnts \in pAnts
  /\ antsMutex' = TRUE
  /\ cancelled' = cancelled \cup {nAnts}
  /\ ui' = "join"
  /\ UNCHANGED <<init, counters, pc, indexMutex, listMutex, mirrors, stop,
                 work, report, net, clicks>>

DownJoin ==
  /\ ui = "join" /\ pc[nAnts] = "exited"
  /\ pAnts' = pAnts \ {nAnts}
  /\ At(nAnts, "none")
  /\ cancelled' = cancelled \ {nAnts}
  /\ ui' = "release"
  /\ UNCHANGED <<init, nAnts, nRunning, mutexes, mirrors, stop, work, report,
                 net, clicks>>

(* ... and its segment and its place are given back. *)
DownReleaseMutant ==
  /\ ui = "release" /\ indexMutex = Free
  /\ Release(nAnts)
  /\ nRunning' = nRunning - 1
  /\ nAnts' = nAnts - 1
  /\ ui' = "idle"
  /\ UNCHANGED <<init, pAnts, pc, cancelled, mutexes, mirrors, stop, report,
                 net, clicks>>

DownReleaseMutant2 ==
  /\ ui = "release" /\ indexMutex = Free
  /\ Release(nAnts)
  /\ nAnts' = nAnts - 1
  /\ antsMutex' = FALSE
  /\ ui' = "idle"
  /\ UNCHANGED <<init, nRunning, pAnts, pc, cancelled, indexMutex, listMutex,
                 mirrors, stop, report, net, clicks>>

DownRelease ==
  /\ ui = "release" /\ indexMutex = Free
  /\ Release(nAnts)
  /\ nRunning' = nRunning - 1
  /\ nAnts' = nAnts - 1
  /\ antsMutex' = FALSE
  /\ ui' = "idle"
  /\ UNCHANGED <<init, pAnts, pc, cancelled, indexMutex, listMutex, mirrors,
                 stop, report, net, clicks>>

RoomMutant == nRunning < MaxAnts
Room == nAnts < MaxAnts /\ nRunning < MaxAnts

ClickUp ==
  /\ ui = "idle" /\ ups < MaxUps
  /\ Room
  /\ ui' = "up" /\ ups' = ups + 1
  /\ UNCHANGED <<init, counters, pc, cancelled, mutexes, mirrors, stop, work,
                 report, net, downs>>

(* Before the ants run only their number changes. *)
UpEarly ==
  /\ ui = "up" /\ ~antsMutex /\ init # "done"
  /\ nAnts' = nAnts + 1
  /\ ui' = "idle"
  /\ UNCHANGED <<init, nRunning, pAnts, pc, cancelled, mutexes, mirrors, stop,
                 work, report, net, clicks>>

UpStart ==
  /\ ui = "up" /\ ~antsMutex /\ init = "done" /\ nAnts + 1 \notin pAnts
  /\ pAnts' = pAnts \cup {nAnts + 1}
  /\ At(nAnts + 1, "work")
  /\ nAnts' = nAnts + 1
  /\ nRunning' = nRunning + 1
  /\ ui' = "idle"
  /\ UNCHANGED <<init, cancelled, mutexes, mirrors, stop, work, report, net,
                 clicks>>

(* The destructor: the init thread is cancelled and joined under           *)
(* m_QuitMutex (it cannot be cancelled while it starts the ants), ...      *)
Destroy ==
  /\ ui = "idle"
  /\ ui' = "quit"
  /\ UNCHANGED <<init, counters, pc, cancelled, mutexes, mirrors, stop, work,
                 report, net, clicks>>

InitJoinableMutant == TRUE
InitJoinable == init # "start"

DestroyInit ==
  /\ ui = "quit" /\ InitJoinable
  /\ init' = IF init \in {"info", "check", "mirrors"} THEN "killed" ELSE init
  /\ stop' = HasFM
  /\ ui' = "reap"
  /\ UNCHANGED <<counters, pc, cancelled, mutexes, mirrors, work, report, net,
                 clicks>>

(* ... then the ants, one after the other. *)
FirstAnt(t) == t \in pAnts /\ \A u \in pAnts : t <= u

ReapCancel ==
  /\ ui = "reap"
  /\ \E t \in pAnts : FirstAnt(t) /\ cancelled' = cancelled \cup {t}
  /\ UNCHANGED <<init, counters, pc, mutexes, mirrors, ui, stop, work, report,
                 net, clicks>>

ReapJoin ==
  /\ ui = "reap"
  /\ \E t \in cancelled : /\ FirstAnt(t) /\ pc[t] = "exited"
                          /\ pAnts' = pAnts \ {t}
  /\ UNCHANGED <<init, nAnts, nRunning, pc, cancelled, mutexes, mirrors, ui,
                 stop, work, report, net, clicks>>

Destroyed ==
  /\ ui = "reap" /\ pAnts = {}
  /\ ui' = "gone"
  /\ UNCHANGED <<init, counters, pc, cancelled, mutexes, mirrors, stop, work,
                 report, net, clicks>>

(* Mirrors entered for the task.  First m_sMirrorUrl grows, ... *)
ClickMirror ==
  /\ ui = "idle" /\ pushed < MaxMirrors
  /\ ui' = "pushed"
  /\ pushed' = pushed + 1
  /\ torn' = (torn \/ init = "mirrors")
  /\ UNCHANGED <<init, counters, pc, cancelled, mutexes, given, stop, work,
                 report, net, clicks>>

(* ... then m_pFM is tested, ... *)
TestFMMutant ==
  /\ ui = "pushed"
  /\ ui' = IF init = "done" THEN "mirror" ELSE "idle"
  /\ UNCHANGED <<init, counters, pc, cancelled, mutexes, mirrors, stop, work,
                 report, net, clicks>>

TestFM ==
  /\ ui = "pushed"
  /\ ui' = IF HasFM THEN "mirror" ELSE "idle"
  /\ UNCHANGED <<init, counters, pc, cancelled, mutexes, mirrors, stop, work,
                 report, net, clicks>>

(* ... and used.  (When it was deleted in between, what happens is not     *)
(* defined; here the call just returns.)                                   *)
AddMirrorUrl ==
  /\ ui = "mirror" /\ (HasFM => listMutex = Free)
  /\ ui' = "idle"
  /\ given' = IF HasFM THEN given \cup {pushed} ELSE given
  /\ UNCHANGED <<init, counters, pc, cancelled, mutexes, pushed, torn, stop,
                 work, report, net, clicks>>
-----------------------------------------------------------------------------
CheckStep == CheckFails \/ CheckDone \/ GiveMirrors \/ InitAnts

InitStep == InfoFails \/ CheckStep \/ \E single \in BOOLEAN : InfoDone(single)

AntStep(t) ==
  \/ GetTask(t) \/ GetTaskEnter(t) \/ GetTaskLeave(t)
  \/ ListEnter(t) \/ ListLeave(t) \/ FileData(t) \/ Compare(t)
  \/ QuitFileManager(t) \/ ThreadQuit(t) \/ Killed(t)

(* What depends on a server. *)
NetStep(t) == TryAgain(t) \/ Report(t) \/ Received(t) \/ GivesUp(t)

Handler ==
  \/ TestFM \/ AddMirrorUrl
  \/ DownCancel \/ DownJoin \/ DownRelease \/ UpEarly \/ UpStart
  \/ DestroyInit \/ ReapCancel \/ ReapJoin \/ Destroyed

Next ==
  \/ InitStep
  \/ \E t \in Ants : AntStep(t) \/ NetStep(t)
  \/ ClickDown \/ ClickUp \/ ClickMirror \/ Destroy \/ Handler

Spec == Init /\ [][Next]_vars

(* Every thread is scheduled; what the user does and what a server does is *)
(* left open.  (No mutex is taken again and again for ever, as retries are *)
(* counted, so weak fairness is enough to get it.)                         *)
Fairness ==
  /\ WF_vars(CheckStep) /\ WF_vars(Handler)
  /\ \A t \in Ants : WF_vars(AntStep(t))

FairSpec == Spec /\ Fairness
-----------------------------------------------------------------------------
(* Properties. *)

TypeOK ==
  /\ init \in {"info", "check", "mirrors", "start", "done", "failed", "killed"}
  /\ nAnts \in 0 .. MaxAnts /\ nRunning \in Int
  /\ pAnts \subseteq Ants /\ cancelled \subseteq Ants
  /\ pc \in [Ants -> Alive \cup {"none", "exited"}]
  /\ antsMutex \in BOOLEAN
  /\ {indexMutex, listMutex} \subseteq Ants \cup {Free, Dead}
  /\ pushed \in 0 .. MaxMirrors /\ given \subseteq 1 .. pushed /\ torn \in BOOLEAN
  /\ ui \in {"idle", "down", "join", "release", "up", "pushed", "mirror", "quit",
             "reap", "gone"}
  /\ stop \in BOOLEAN
  /\ todo \in 0 .. Pieces /\ holding \subseteq Ants
  /\ status \in {"running", "finish", "error"} /\ posted \in Nat
  /\ failed \subseteq Ants /\ reports \in 0 .. MaxReports
  /\ ups \in 0 .. MaxUps /\ downs \in 0 .. MaxDowns

(* The task is at work and no handler of it is half done. *)
Settled == init = "done" /\ ui \in {"idle", "up", "down"}

(* m_nRunningAnts is the number of threads that run: what ThreadQuit takes *)
(* for the last ant is the last ant.  The comment in ThreadDown promises   *)
(* that an ant that has quit already is merely cleared away.               *)
RunningCounted == Settled => nRunning = Cardinality(Live)

(* Never too many: a task whose threads are all gone is not waited for.    *)
NeverOvercounted == Settled => nRunning <= Cardinality(Live)

(* As long as no ant was removed the count is exact, whatever the init     *)
(* thread and the clicks of the user do at the same time.                  *)
CountedUntilDown == downs = 0 => RunningCounted

(* As long as no ant was removed: when the ants have all quit, in whatever *)
(* order with the clicks of the user and the init thread, the main window  *)
(* has been told, and it is told only then.  It is told again only when an *)
(* ant that was added later has quit, too.  (Once an ant was removed       *)
(* nothing is promised: see RunningCounted.)                               *)
Reported ==
  Settled /\ downs = 0 =>
    IF Live = {} THEN posted \in 1 .. ups + 1 ELSE posted <= ups

(* An ant that finds nothing to fetch quits before the others have stored  *)
(* their pieces; still the task is only reported as failed when a server   *)
(* failed it, after it was told to stop, or after an ant was taken away.   *)
ErrorHasCause ==
  status = "error" => stop \/ failed # {} \/ init = "failed" \/ downs > 0

(* A destroyed task leaves no thread behind that would touch its memory,   *)
(* also when it was destroyed while the init thread started the ants.      *)
ThreadsDieWithTask ==
  ui = "gone" => Live = {} /\ init \in {"done", "failed", "killed"}

(* Every mirror gets into the list of URLs, whether it was entered before  *)
(* the file manager was made, while the init thread checked the file, or   *)
(* while the ants ran: unless m_sMirrorUrl grew under the iterator of the  *)
(* init thread.                                                            *)
MirrorsGiven == Settled /\ ~torn => given = 1 .. pushed

(* The ways a click, or the destructor, can hang: an ant was killed with   *)
(* the index or the list of URLs locked (in FileData, with cancellation    *)
(* off and the index locked, other ants then wait for that list), or it    *)
(* waits to report that it quit (with cancellation off) for the            *)
(* m_AntsMutex of the thread that joins it.                                *)
MutexLost == indexMutex = Dead
ListLost == listMutex = Dead
Embraced == ui = "join" /\ pc[nAnts] = "quitTask"

(* Apart from these three every click returns, and every task that is      *)
(* destroyed is gone at last.                                              *)
ClicksReturn ==
  ui # "idle" ~> ui \in {"idle", "gone"} \/ MutexLost \/ ListLost \/ Embraced
=============================================================================
