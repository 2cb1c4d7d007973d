----------------------------- MODULE Databases ------------------------------
(***************************************************************************)
(* The three files MainFrame keeps in the temporary directory: task.db     *)
(* (m_AllTaskList), proxy.db (m_AllProxyList) and config.db (of which only *)
(* gSavePathHistory is kept here), how OnClose and the menu save them, and *)
(* how the constructor reads them back.                                    *)
(*                                                                         *)
(* A save truncates the only copy, writes a header whose datalen is 0, the *)
(* records and a tail, and then the header again with the real datalen;    *)
(* nothing but the first fwrite is tested.  stdio hands the data to the    *)
(* system in pieces, so that after a crash any number of records may be in *)
(* the file, and on a full disk fewer records than the header announces.   *)
(*                                                                         *)
(* The handlers that change the status of a task are those of TaskTable;   *)
(* here they are Run, Leave and Erase.                                     *)
(***************************************************************************)
EXTENDS Integers, Sequences, FiniteSets, SequencesExt

CONSTANTS
  DBs,         \* the files that are looked at: a bound on the runs
  ProxyNames,  \* names of proxies
  Paths,       \* directories files are saved in
  HistorySize, \* 10 in the code
  Fields,      \* the optional fields of a task that are distinguished
  MaxTasks,    \* bound: tasks in the table
  MaxStarts    \* bound: starts of the program

(* The version of task.db that introduced a field. *)
Since == [nRetry |-> 3, sMD5 |-> 2, sMirrorURL |-> 4, sRefer |-> 5]

ASSUME DatabasesAssumption ==
  /\ DBs \subseteq {"task", "proxy", "config"}
  /\ HistorySize \in Nat \ {0} /\ MaxTasks \in Nat /\ MaxStarts \in Nat
  /\ Fields \subseteq DOMAIN Since

VARIABLES
  window,   \* where the main window is: down, shown, hidden, asking, saving, closing
  tasks,    \* m_AllTaskList; via says whether a task has an object, and how it connects
  proxies,  \* m_AllProxyList, the names
  history,  \* gSavePathHistory
  files,    \* the three files
  queue,    \* files the running handler has still to save, ...
  fp,       \* ... and whether the first of them is open
  goal,     \* what the last save of each file was meant to store
  cut,      \* files whose last save did not store it
  starts,   \* starts of the program
  excused,  \* a task list was saved, by the menu or a forced end, while tasks ran
  removed   \* names of proxies that were removed or lost

mem == <<tasks, proxies, history>>
disk == <<files, queue, fp, goal, cut>>
ghosts == <<starts, excused, removed>>
vars == <<window, mem, disk, ghosts>>

Direct == "direct"   \* sSockProxy is empty
None == "none"       \* no object

ASSUME NamesAssumption == {Direct, None} \cap ProxyNames = {}

Statuses == {"waiting", "running", "pause"}

Task(st, p, f, v) == [status |-> st, proxy |-> p, fields |-> f, via |-> v]
Saved(list) == [i \in DOMAIN list |-> [list[i] EXCEPT !.via = None]]

InMemory == [task |-> Saved(tasks), proxy |-> proxies, config |-> history]

(* What a file looks like: its header ("none" when even that is missing),  *)
(* its version, the number of records the header announces (0 as long as   *)
(* datalen is 0), and the records behind it.                               *)
File(h, v, n, r) == [head |-> h, ver |-> v, count |-> n, records |-> r]
Absent == File("none", 0, 0, << >>)

(* fh.ver. *)
VersionMutant(db) == [task |-> 4, proxy |-> 1, config |-> 3][db]
Version(db) == [task |-> 5, proxy |-> 1, config |-> 3][db]

Readable(db) == [task |-> 0 .. 5, proxy |-> {1}, config |-> 1 .. 3][db]

(* A record of task.db, read back: a field its version did not have yet    *)
(* gets its default.                                                       *)
Upgrade(r, v) == [r EXCEPT !.fields = {f \in @ : Since[f] <= v}]

(* What the constructor reads: the list, or the empty one when the header  *)
(* is missing, unknown or a draft, or data are missing.                    *)
EnoughMutant(f) == TRUE
Enough(f) == Len(f.records) >= f.count

Accepted(db) ==
  /\ db \in DBs
  /\ files[db].head = "final" /\ files[db].ver \in Readable(db) /\ Enough(files[db])

ReadTaskDB ==
  IF Accepted("task")
  THEN [i \in DOMAIN files["task"].records |->
          Upgrade(files["task"].records[i], files["task"].ver)]
  ELSE << >>
ReadProxyDB == IF Accepted("proxy") THEN files["proxy"].records ELSE << >>
ReadConfig == IF Accepted("config") THEN files["config"].records ELSE << >>

(* The files of an earlier version of the program, or of a later one, and  *)
(* those of the first start.                                               *)
Earlier ==
  {File("final", v, 1, <<Task("pause", Direct, {f \in Fields : Since[f] <= v}, None)>>)
     : v \in 1 .. 6}

Init ==
  /\ window = "down"
  /\ tasks = << >> /\ proxies = << >> /\ history = << >>
  /\ \E f \in Earlier \cup {Absent} :
       /\ files = [db \in DBs |-> IF db = "task" THEN f ELSE Absent]
       /\ goal = [db \in DBs |-> IF db = "task" THEN f.records ELSE << >>]
       /\ cut = IF f.ver > 5 THEN {"task"} \cap DBs ELSE {}
  /\ queue = << >> /\ fp = FALSE /\ starts = 0 /\ excused = FALSE /\ removed = {}

(* The constructor. *)
Start ==
  /\ window = "down" /\ window' = "shown"
  /\ starts < MaxStarts /\ starts' = starts + 1
  /\ tasks' = ReadTaskDB /\ proxies' = ReadProxyDB /\ history' = ReadConfig
  /\ removed' = removed \cup
       ({tasks'[i].proxy : i \in DOMAIN tasks'} \ (Range(proxies') \cup {Direct}))
  /\ UNCHANGED <<disk, excused>>
-----------------------------------------------------------------------------
(* RecordSavePath: a known path changes places with the first one. *)
TrimmedMutant(h) == IF Len(h) > HistorySize + 1 THEN Front(h) ELSE h
Trimmed(h) == IF Len(h) > HistorySize THEN Front(h) ELSE h

RecordedMutant(h, p) == Trimmed(<<p>> \o h)
Recorded(h, p) ==
  IF p \in Range(h)
  THEN LET i == CHOOSE j \in DOMAIN h : h[j] = p
       IN [h EXCEPT ![i] = h[1], ![1] = p]
  ELSE Trimmed(<<p>> \o h)

Idle == window \in {"shown", "hidden"}   \* a handler may run

(* DoNewTask, with a proxy picked from the list by its name. *)
NewTask(st, p, f, path) ==
  /\ Idle /\ Len(tasks) < MaxTasks
  /\ tasks' = Append(tasks, Task(st, p, f, None))
  /\ history' = Recorded(history, path)
  /\ UNCHANGED <<window, proxies, disk, ghosts>>

(* GetProxyByName, and what CTaskManager::AddTask makes of its answer: a   *)
(* task whose proxy is not found connects directly.                        *)
GetProxyByNameMutant(p) == Len(proxies) > 0 /\ proxies[1] = p
GetProxyByName(p) == p \in Range(proxies)

Route(p) == IF p # Direct /\ GetProxyByName(p) THEN p ELSE Direct

(* ScheduleTask starts a waiting task, also while the question is shown.   *)
(* The thread of its object is made (when the system refuses it, AddTask   *)
(* lists no object: module TaskTable).                                     *)
Run(i) ==
  /\ Idle \/ window = "asking"
  /\ tasks[i].status = "waiting"
  /\ tasks' = [tasks EXCEPT ![i].status = "running", ![i].via = Route(tasks[i].proxy)]
  /\ UNCHANGED <<window, proxies, history, disk, ghosts>>

(* A task is stopped, ends, or is started by the user. *)
Leave(i, st) ==
  /\ Idle \/ (window = "asking" /\ tasks[i].status = "running" /\ st = "pause")
  /\ \/ tasks[i].status = "running" /\ st = "pause"
     \/ tasks[i].status = "pause" /\ st = "waiting"
  /\ tasks' = [tasks EXCEPT ![i].status = st, ![i].via = None]
  /\ UNCHANGED <<window, proxies, history, disk, ghosts>>

Erase(i) ==
  /\ Idle
  /\ tasks' = RemoveAt(tasks, i)
  /\ UNCHANGED <<window, proxies, history, disk, ghosts>>

(* MainFrame::AddProxy (false for a name that is there) and RemoveProxy. *)
KnownProxyMutant(n) == Len(proxies) > 0 /\ proxies[1] = n
KnownProxy(n) == \E i \in DOMAIN proxies : proxies[i] = n

AddProxy(n) ==
  /\ Idle /\ ~KnownProxy(n)
  /\ proxies' = Append(proxies, n)
  /\ UNCHANGED <<window, tasks, history, disk, ghosts>>

RemoveProxy(n) ==
  /\ Idle /\ KnownProxy(n)
  /\ proxies' = RemoveFirst(proxies, n)
  /\ removed' = removed \cup {n}
  /\ UNCHANGED <<window, tasks, history, disk, starts, excused>>
-----------------------------------------------------------------------------
Objects(list) == {i \in DOMAIN list : list[i].via # None}

(* OnSaveTask, OnSaveProxy, OnSaveConfig: OpenDB starts the save. *)
OnSave(db) ==
  /\ window = "shown" /\ window' = "saving" /\ queue' = <<db>>
  /\ excused' = (excused \/ (db = "task" /\ Objects(tasks) # {}))
  /\ UNCHANGED <<mem, files, fp, goal, cut, starts, removed>>

(* OnClose: a visible window is only hidden; with tasks running the user   *)
(* is asked; a close that cannot be refused goes on without stopping them. *)
Only(db) == IF db \in DBs THEN <<db>> ELSE << >>
All == Only("task") \o Only("proxy") \o Only("config")

HideOrShow ==
  /\ Idle /\ window' = IF window = "shown" THEN "hidden" ELSE "shown"
  /\ UNCHANGED <<mem, disk, ghosts>>

OnClose ==
  /\ window = "hidden"
  /\ IF Objects(tasks) = {}
     THEN window' = "closing" /\ queue' = All
     ELSE window' = "asking" /\ queue' = queue
  /\ UNCHANGED <<mem, files, fp, goal, cut, ghosts>>

SayNo ==
  /\ window = "asking" /\ window' = "hidden"
  /\ UNCHANGED <<mem, disk, ghosts>>

(* StopAllTask: every object is removed, running and waiting tasks pause. *)
StopAllTaskMutant ==
  [i \in DOMAIN tasks |->
     [tasks[i] EXCEPT !.status = IF @ = "waiting" THEN "pause" ELSE @, !.via = None]]
StopAllTask ==
  [i \in DOMAIN tasks |->
     [tasks[i] EXCEPT !.status = IF @ \in {"waiting", "running"} THEN "pause" ELSE @,
                      !.via = None]]

SayYes ==
  /\ window = "asking" /\ window' = "closing"
  /\ tasks' = StopAllTask
  /\ queue' = All
  /\ UNCHANGED <<proxies, history, files, fp, goal, cut, ghosts>>

ForcedClose ==
  /\ Idle /\ window' = "closing" /\ queue' = All
  /\ excused' = (excused \/ Objects(tasks) # {})
  /\ UNCHANGED <<mem, files, fp, goal, cut, starts, removed>>
-----------------------------------------------------------------------------
Saving == queue # << >> /\ window \in {"saving", "closing"}
Current == Head(queue)
Whole == InMemory[Current]

(* The end of a save: the handler goes on to the next file, and ends. *)
NextDB ==
  /\ queue' = Tail(queue) /\ fp' = FALSE
  /\ window' = IF queue' = << >> /\ window = "saving" THEN "shown" ELSE window

(* fopen "wb" fails, or truncates the file. *)
OpenDB ==
  /\ Saving /\ ~fp /\ fp' = TRUE
  /\ files' = [files EXCEPT ![Current] = File("empty", 0, 0, << >>)]
  /\ goal' = [goal EXCEPT ![Current] = Whole]
  /\ cut' = cut \cup {Current}
  /\ UNCHANGED <<window, mem, queue, ghosts>>

CannotOpen ==
  /\ Saving /\ ~fp
  /\ NextDB
  /\ UNCHANGED <<mem, files, goal, cut, ghosts>>

(* stdio hands the first header and some more records to the system. *)
Flush(n) ==
  /\ Saving /\ fp
  /\ n \in Len(files[Current].records) .. Len(Whole)
  /\ files' = [files EXCEPT ![Current] =
                 File("draft", Version(Current), Len(Whole), SubSeq(Whole, 1, n))]
  /\ UNCHANGED <<window, mem, queue, fp, goal, cut, ghosts>>

(* The header is written again.  On a full disk the records that did not   *)
(* fit are missing, and a file that did not get its first block stays      *)
(* empty; the result is true all the same.                                 *)
FinishDB ==
  /\ Saving /\ fp
  /\ files' = [files EXCEPT ![Current].head = IF @ = "draft" THEN "final" ELSE "none"]
  /\ cut' = IF files[Current].head = "draft" /\ files[Current].records = Whole
            THEN cut \ {Current} ELSE cut
  /\ NextDB
  /\ UNCHANGED <<mem, goal, ghosts>>

(* Destroy, or the death of the program at any time. *)
Gone ==
  /\ window' = "down" /\ queue' = << >> /\ fp' = FALSE
  /\ tasks' = << >> /\ proxies' = << >> /\ history' = << >>
  /\ files' = [db \in DBs |-> IF files[db].head = "empty" THEN Absent ELSE files[db]]
  /\ UNCHANGED <<goal, cut, ghosts>>

Destroy == window = "closing" /\ queue = << >> /\ Gone
Crash == window # "down" /\ Gone

Next ==
  \/ Start \/ HideOrShow \/ OnClose \/ SayNo \/ SayYes \/ ForcedClose
  \/ \E st \in {"waiting", "pause"}, p \in {Direct} \cup Range(proxies),
        f \in SUBSET Fields, path \in Paths : NewTask(st, p, f, path)
  \/ \E i \in DOMAIN tasks :
       Run(i) \/ Erase(i) \/ \E st \in Statuses : Leave(i, st)
  \/ \E n \in ProxyNames : AddProxy(n) \/ RemoveProxy(n)
  \/ \E db \in DBs : OnSave(db)
  \/ OpenDB \/ CannotOpen \/ FinishDB \/ \E n \in 0 .. MaxTasks : Flush(n)
  \/ Destroy \/ Crash

Spec == Init /\ [][Next]_vars
-----------------------------------------------------------------------------
Reads == window = "down" /\ window' = "shown"
Result(db) == [task |-> tasks', proxy |-> proxies', config |-> history'][db]

(* Every variable keeps its type; the history fits its ten places. *)
TypeOK ==
  /\ window \in {"down", "shown", "hidden", "asking", "saving", "closing"}
  /\ \A i \in DOMAIN tasks :
       /\ tasks[i].status \in Statuses /\ tasks[i].fields \subseteq Fields
       /\ tasks[i].proxy \in ProxyNames \cup {Direct}
       /\ tasks[i].via \in ProxyNames \cup {Direct, None}
  /\ Range(proxies) \subseteq ProxyNames /\ Range(history) \subseteq Paths
  /\ Len(history) <= HistorySize
  /\ cut \subseteq DBs /\ removed \subseteq ProxyNames

(* Whatever was interrupted, and however full the disk was: the            *)
(* constructor finds as many records as the last save was to store, or     *)
(* none, and never a part of them.                                         *)
AllOrNothing ==
  [][Reads => \A db \in DOMAIN files : Len(Result(db)) \in {0, Len(goal[db])}]_vars

(* A save that was not interrupted is read back with every field, and so   *)
(* are the files of earlier versions.                                      *)
SavedIsRead ==
  [][Reads => \A db \in DOMAIN files \ cut : Result(db) = goal[db]]_vars

(* What is read at a start is what was saved, or nothing.                  *)
ReadBack == AllOrNothing /\ SavedIsRead

(* No directory and no proxy is listed twice, whatever was done, saved and *)
(* read back: proxies are found and removed by their first name only.      *)
ListedOnce == IsInjective(proxies) /\ IsInjective(history)

(* The lists are of their types, without doubles.                          *)
ListsRight == TypeOK /\ ListedOnce

(* A task that is shown as running has an object, unless the list was      *)
(* saved while tasks ran, by the menu or by an end that could not be       *)
(* refused; no later start would give it one, since it does not wait.      *)
RunningHasObject ==
  excused \/ \A i \in DOMAIN tasks : tasks[i].status = "running" => tasks[i].via # None

(* A task that was to use a proxy connects directly only if the proxy was  *)
(* removed, or lost with its file.                                         *)
DirectHasReason ==
  \A i \in DOMAIN tasks :
    (tasks[i].via = Direct /\ tasks[i].proxy # Direct) => tasks[i].proxy \in removed
=============================================================================
