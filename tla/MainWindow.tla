----------------------------- MODULE MainWindow -----------------------------
(***************************************************************************)
(* MainFrame with its list of tasks, its buttons and the two dialogs: the  *)
(* one for a new task and the one for the properties of a task.            *)
(*                                                                         *)
(* The list shows the tasks of one type.  UpdateTaskList fills it anew and *)
(* selects a row; the selected row decides which buttons are enabled and   *)
(* which task they mean.  While a dialog is shown the window takes no      *)
(* clicks, but the events of the float window, the clipboard, the command  *)
(* line and the tasks are handled: they run inside ShowModal, and what     *)
(* OnProperty does after it meets the table they left.                     *)
(*                                                                         *)
(* A text is an address in parts: site, user and file, a directory when    *)
(* the file is "dir".  Starting and ending of tasks is module TaskTable's; *)
(* here each is one step that does not fail.  What the thread of a task    *)
(* makes of a mirror it is told of is module SingleTask's.                 *)
(***************************************************************************)
EXTENDS Integers, Sequences, FiniteSets, SequencesExt, Functions

CONSTANTS
  Texts,    \* what is dropped, copied, typed or sent by a command line
  Ftp,      \* the sites reached by ftp
  Batches,  \* the files behind a pattern: what CBatch makes of it
  Room,     \* mirrors a dialog has room for: 100 and 80 in the code
  Limit,    \* gRunTaskNum
  MaxTasks, \* bound: tasks ever entered
  Types     \* types of lists that the user looks at

NoSite == "none"
Blank == [site |-> NoSite, user |-> "none", file |-> "blank"]
None == -1      \* no selected task
Closed == [url |-> Blank]  \* no dialog

ASSUME MainWindowAssumption ==
  /\ Room \in Nat \ {0} /\ Limit \in Nat /\ MaxTasks \in Nat
  /\ Texts \subseteq [site : STRING, user : STRING, file : STRING]

VARIABLES
  table,    \* m_AllTaskList
  lastID,   \* m_nTaskID
  ants,     \* for every id the mirrors its object was told of, or NoObject
  show,     \* m_nCurrentShowType
  selected, \* m_nCurrentSelectTaskID
  bar,      \* the status that the buttons were last set for
  newDlg,   \* m_NewTaskDlg
  propDlg,  \* m_PropertyDlg
  wrote,    \* elements of the array of mirrors that the last OK wrote
  crashed   \* a null pointer was used

dialogs == <<newDlg, propDlg, wrote, crashed>>
vars == <<table, lastID, ants, show, selected, bar, dialogs>>

Tasks == 1 .. MaxTasks
NoObject == {[Blank EXCEPT !.site = "no object"]}
Ids(rows) == {rows[i].id : i \in DOMAIN rows}
Row(rows, t) == CHOOSE i \in DOMAIN rows : rows[i].id = t
StatusOf(rows, t) == IF t \in Ids(rows) THEN rows[Row(rows, t)].status ELSE "none"
With(rows, t, st) ==
  IF t \in Ids(rows) THEN [rows EXCEPT ![Row(rows, t)].status = st] ELSE rows
-----------------------------------------------------------------------------
(* Addresses: SetUrl, a mirror that SetUrl refuses (IsValidMirror), the    *)
(* address without its user, and the name of its file.                     *)
IsDir(u) == u.file = "dir"
SetUrl(u) == u.site # NoSite /\ ~(u.site \in Ftp /\ IsDir(u))
IsValidMirror(u) == u.site \in Ftp /\ IsDir(u)
Raw(u) == [u EXCEPT !.user = "none"]
FileName(u) == IF IsDir(u) THEN "index.html" ELSE u.file

CBatch(f) == IF f \in DOMAIN Batches THEN Batches[f] ELSE <<f>>
Get(files, i) == IF i \in DOMAIN files THEN files[i] ELSE "none"

(* The constructors of both dialogs take the user out of an ftp address,   *)
(* and out of an http address too, but there it is not kept.               *)
Opened(u) ==
  IF ~SetUrl(u) THEN [url |-> u, user |-> "none", name |-> "none"]
  ELSE [url |-> Raw(u), name |-> FileName(u),
        user |-> IF u.site \notin Ftp THEN "none"
                 ELSE IF u.user = "none" THEN "anonymous" ELSE u.user]

(* GetUrl.  The comparison with the default compares two addresses of      *)
(* memory, so a user that is there is always put in.                       *)
GetUrl(d) ==
  IF d.user # "none" /\ d.url.site # NoSite THEN [d.url EXCEPT !.user = d.user] ELSE d.url

(* AddMirrorUrl, and GetMirrorUrl: the array it fills has Room elements; a *)
(* blank line is passed over and leaves its element empty.                 *)
AddMirrorUrl(d, u) ==
  IF Len(d.mirrors) > Room THEN d ELSE [d EXCEPT !.mirrors = Append(@, u)]
Written(d) == Len(d.mirrors)
Upto(mirrors, n) == SubSeq(mirrors, 1, IF Len(mirrors) > n THEN n ELSE Len(mirrors))
GetMirrorUrl(d) == Upto(d.mirrors, Room)

(* A directory gets the selected name of a file at its end. *)
NamedMutant(mirrors, files, i) ==
  [j \in DOMAIN mirrors |->
     IF IsDir(mirrors[j]) THEN [mirrors[j] EXCEPT !.file = Get(files, 1)] ELSE mirrors[j]]
Named(mirrors, files, i) ==
  [j \in DOMAIN mirrors |->
     IF IsDir(mirrors[j]) THEN [mirrors[j] EXCEPT !.file = Get(files, i)] ELSE mirrors[j]]
-----------------------------------------------------------------------------
(* UpdateTaskList: running tasks are inserted at the head of the list, the *)
(* others appended; the selected task is selected again, or else the first *)
(* row.  The selection of a row sets the buttons (OnSelectTask).  At the   *)
(* root of the tree no task is listed and nothing is selected anew.        *)
Listed(rows, type) ==
  LET ofType == SelectSeq(rows, LAMBDA r : r.status = type \/
                            (type = "running" /\ r.status = "waiting"))
      ids(seq) == [i \in DOMAIN seq |-> seq[i].id]
  IN ids(Reverse(SelectSeq(ofType, LAMBDA r : r.status = "running"))
          \o SelectSeq(ofType, LAMBDA r : r.status # "running"))

SelectTaskMutant(list, t) == t
SelectTaskMutant2(list, t) == IF list = << >> THEN None ELSE Last(list)
SelectTask(list, t) ==
  IF t \in Range(list) THEN t ELSE IF list = << >> THEN None ELSE Head(list)

ButtonsMutant(rows, t, old) == IF t = selected THEN old ELSE StatusOf(rows, t)
Buttons(rows, t, old) == IF t = None THEN old ELSE StatusOf(rows, t)

UpdateTaskList(rows, was, type) ==
  /\ table' = rows
  /\ selected' = IF type = "root" THEN was ELSE SelectTask(Listed(rows, type), was)
  /\ bar' = IF type = "root" THEN bar ELSE Buttons(rows, selected', bar)

(* The same, and UpdateToolBar behind it. *)
UpdateAll(rows, was, type) ==
  /\ table' = rows
  /\ selected' = IF type = "root" THEN was ELSE SelectTask(Listed(rows, type), was)
  /\ bar' = IF selected' = None \/ selected' \in Ids(rows)
            THEN StatusOf(rows, selected') ELSE bar

(* ScheduleTask, without the UpdateTaskList it ends with: the table and    *)
(* the objects it leaves.                                                  *)
Objects(objs) == {t \in Tasks : objs[t] # NoObject}
Started(rows, objs) ==
  LET can == {i \in DOMAIN rows : rows[i].status = "waiting" /\ objs[rows[i].id] = NoObject}
  IN {i \in can : Cardinality(Objects(objs)) + Cardinality({j \in can : j < i}) < Limit}
Rows(rows, objs) ==
  [i \in DOMAIN rows |->
     IF i \in Started(rows, objs) THEN [rows[i] EXCEPT !.status = "running"] ELSE rows[i]]
Objs(rows, objs) ==
  [t \in Tasks |-> IF \E i \in Started(rows, objs) : rows[i].id = t
                   THEN Range(rows[Row(rows, t)].mirrors) ELSE objs[t]]

ScheduleTask(rows, objs) ==
  /\ ants' = Objs(rows, objs)
  /\ UpdateTaskList(Rows(rows, objs), selected, show)
-----------------------------------------------------------------------------
Init ==
  /\ table = << >> /\ lastID = 0 /\ ants = [t \in Tasks |-> NoObject]
  /\ show = "root" /\ selected = None /\ bar = "none"
  /\ newDlg = Closed /\ propDlg = Closed /\ wrote = 0 /\ crashed = FALSE

Clicks == newDlg = Closed /\ propDlg = Closed /\ ~crashed

OnSelectType(type) ==
  /\ Clicks /\ show' = type
  /\ UpdateTaskList(table, selected, type)
  /\ UNCHANGED <<lastID, ants, dialogs>>

OnSelectTask(t) ==
  /\ Clicks /\ show # "root" /\ t \in Range(Listed(table, show))
  /\ selected' = t /\ bar' = StatusOf(table, t)
  /\ UNCHANGED <<table, lastID, ants, show, dialogs>>

OnStartTask ==
  /\ Clicks /\ bar \in {"pause", "wrong", "delete"} /\ selected \in Ids(table)
  /\ LET rows == With(table, selected, "waiting")
     IN /\ ants' = Objs(rows, ants)
        /\ UpdateAll(Rows(rows, ants), selected, show)
  /\ UNCHANGED <<lastID, show, dialogs>>

(* StopTask. *)
Stopped(t) == IF StatusOf(table, t) = "running" THEN [ants EXCEPT ![t] = NoObject] ELSE ants
Paused(t) ==
  IF StatusOf(table, t) \in {"running", "waiting"} THEN With(table, t, "pause") ELSE table

OnStopTask ==
  /\ Clicks /\ bar \in {"running", "waiting"}
  /\ LET rows == Paused(selected)
         objs == Stopped(selected)
     IN /\ ants' = Objs(rows, objs)
        /\ UpdateAll(Rows(rows, objs), selected, show)
  /\ UNCHANGED <<lastID, show, dialogs>>

OnCancelTask ==
  /\ Clicks /\ bar # "none" /\ selected \in Ids(table)
  /\ IF StatusOf(table, selected) = "delete"
     THEN /\ UpdateAll(SelectSeq(table, LAMBDA r : r.id # selected), None, show)
          /\ UNCHANGED ants
     ELSE /\ UpdateAll(With(table, selected, "delete"), selected, show)
          /\ ants' = Stopped(selected)
  /\ UNCHANGED <<lastID, show, dialogs>>

OnReloadFile ==
  /\ Clicks /\ bar \in {"pause", "wrong", "finish"} /\ selected \in Ids(table)
  /\ StatusOf(table, selected) \notin {"running", "delete"}
  /\ ScheduleTask(With(table, selected, "waiting"), ants)
  /\ UNCHANGED <<lastID, show, dialogs>>

(* OnTaskFinish; MoveFile may give the file another name. *)
OnTaskFinish(t, end, name) ==
  /\ StatusOf(table, t) = "running" /\ ~crashed
  /\ ScheduleTask([With(table, t, end) EXCEPT ![Row(table, t)].name =
                     IF end = "finish" THEN name ELSE @],
                  [ants EXCEPT ![t] = NoObject])
  /\ UNCHANGED <<lastID, show, dialogs>>
-----------------------------------------------------------------------------
(* DoNewTask: opens the dialog, or gives it a mirror. *)
DoNewTask(u) ==
  IF newDlg = Closed
  THEN newDlg' = IF SetUrl(u) THEN Opened(u) @@ [mirrors |-> << >>] ELSE Closed
  ELSE newDlg' = IF SetUrl(u) \/ IsValidMirror(u) THEN AddMirrorUrl(newDlg, u) ELSE newDlg

OnNewTask ==
  /\ Clicks /\ newDlg' = Opened(Blank) @@ [mirrors |-> << >>]
  /\ UNCHANGED <<table, lastID, ants, show, selected, bar, propDlg, wrote, crashed>>

(* OnUrlNotice: a text is dropped on the float window (OnDropURL) or was   *)
(* found in the clipboard.  A dialog takes any text for a mirror.          *)
IsUrlExist(u) == \E i \in DOMAIN table : table[i].url = u

OnUrlNotice(u, dropped) ==
  /\ ~crashed
  /\ IF newDlg = Closed /\ propDlg = Closed
     THEN /\ dropped => SetUrl(u) /\ ~IsUrlExist(u)
          /\ DoNewTask(u) /\ UNCHANGED propDlg
     ELSE /\ newDlg' = IF newDlg = Closed THEN Closed ELSE AddMirrorUrl(newDlg, u)
          /\ propDlg' = IF propDlg = Closed THEN Closed ELSE AddMirrorUrl(propDlg, u)
  /\ UNCHANGED <<table, lastID, ants, show, selected, bar, wrote, crashed>>

OnCmdNotice(u) ==
  /\ ~crashed /\ u # Blank /\ DoNewTask(u)
  /\ UNCHANGED <<table, lastID, ants, show, selected, bar, propDlg, wrote, crashed>>

(* OK in the dialog of a new task.  The user may have typed another        *)
(* address, which sets the name (OnUrlText), or another name.  A pattern   *)
(* makes several tasks (AddBatchTask), each with its name and mirrors.     *)
GetNewTaskIDMutant(i) == lastID + 1
GetNewTaskID(i) == lastID + i

NewRow(d, i, run, name, mirrors) ==
  LET url == [GetUrl(d) EXCEPT !.file = Get(CBatch(@), i)]
      given == Get(CBatch(name), i)
  IN [id |-> GetNewTaskID(i), status |-> IF run THEN "waiting" ELSE "pause", url |-> url,
      name |-> IF given = "none" THEN FileName(url) ELSE given,
      mirrors |-> Named(mirrors, CBatch(FileName(d.url)), i)]

OkNew(u, run, name) ==
  LET d == IF u = newDlg.url THEN newDlg ELSE [newDlg EXCEPT !.url = u, !.name = FileName(u)]
      n == Len(CBatch(GetUrl(d).file))
      new == [i \in 1 .. n |->
                NewRow(d, i, run, IF name = "own" THEN d.name ELSE name, GetMirrorUrl(d))]
  IN /\ newDlg # Closed /\ ~crashed /\ lastID + n <= MaxTasks
     /\ newDlg' = Closed
     /\ IF SetUrl(GetUrl(d))
        THEN /\ ScheduleTask(table \o new, ants)
             /\ lastID' = lastID + n /\ wrote' = Written(d)
        ELSE UNCHANGED <<table, lastID, ants, selected, bar, wrote>>
     /\ UNCHANGED <<show, propDlg, crashed>>

CancelNew ==
  /\ newDlg # Closed /\ newDlg' = Closed
  /\ UNCHANGED <<table, lastID, ants, show, selected, bar, propDlg, wrote, crashed>>
-----------------------------------------------------------------------------
(* OnProperty: the dialog is filled from the selected task, its fields are *)
(* locked while the task runs.  The name comes from the address, and the   *)
(* step that selects a file name is 0 until the user turns the spin.       *)
OnProperty ==
  /\ Clicks /\ bar # "none" /\ selected \in Ids(table)
  /\ LET task == table[Row(table, selected)]
     IN propDlg' = Opened(task.url) @@
          [mirrors |-> Upto(task.mirrors, Room + 1), step |-> 0, task |-> selected,
           locked |-> task.status = "running"]
  /\ UNCHANGED <<table, lastID, ants, show, selected, bar, newDlg, wrote, crashed>>

Top == propDlg # Closed /\ newDlg = Closed /\ ~crashed

OnFileSpin ==
  /\ Top /\ propDlg.step = 0 /\ propDlg' = [propDlg EXCEPT !.step = 1]
  /\ UNCHANGED <<table, lastID, ants, show, selected, bar, newDlg, wrote, crashed>>

(* Blank lines are passed over and leave their elements empty. *)
PropMirrors(d) ==
  IF d.step = 0 THEN GetMirrorUrl(d) ELSE Named(GetMirrorUrl(d), <<FileName(d.url)>>, 1)

(* AddTaskMirrorUrl: the object, if there is one, is told; what follows in *)
(* its thread is AddMirrorUrl of module SingleTask.                        *)
ToldMutant(task, mirrors) == ants
Told(task, mirrors) ==
  IF task.status = "running" /\ ants[task.id] # NoObject
  THEN [ants EXCEPT ![task.id] = @ \cup Range(mirrors)] ELSE ants

(* OK, for the task that is selected now: not always the one that the      *)
(* dialog was filled from, when that one has left the list.                *)
OkProperty(u) ==
  LET d == [propDlg EXCEPT !.url = u]
      i == Row(table, selected)
      mirrors == PropMirrors(d)
  IN /\ Top /\ propDlg' = Closed
     /\ u = propDlg.url \/ ~propDlg.locked
     /\ wrote' = Written(d)
     /\ IF selected \in Ids(table)
        THEN /\ table' = [table EXCEPT ![i].url = GetUrl(d), ![i].name = d.name,
                                       ![i].mirrors = mirrors]
             /\ ants' = Told(table[i], mirrors)
             /\ UNCHANGED crashed
        ELSE crashed' = TRUE /\ UNCHANGED <<table, ants>>
     /\ UNCHANGED <<lastID, show, selected, bar, newDlg>>

CancelProperty ==
  /\ Top /\ propDlg' = Closed
  /\ UNCHANGED <<table, lastID, ants, show, selected, bar, newDlg, wrote, crashed>>

Next ==
  \/ \E type \in Types : OnSelectType(type)
  \/ \E t \in Tasks :
       \/ OnSelectTask(t)
       \/ \E name \in {"moved"} \cup {table[i].name : i \in DOMAIN table},
             end \in {"finish", "wrong"} : OnTaskFinish(t, end, name)
  \/ OnStartTask \/ OnStopTask \/ OnCancelTask \/ OnReloadFile
  \/ OnNewTask \/ CancelNew \/ OnProperty \/ OnFileSpin \/ CancelProperty
  \/ \E u \in Texts :
       OnCmdNotice(u) \/ \E dropped \in BOOLEAN : OnUrlNotice(u, dropped)
  \/ \E u \in Texts \cup {newDlg.url}, run \in BOOLEAN, name \in {"own", "renamed"} :
       OkNew(u, run, name)
  \/ \E u \in Texts \cup {propDlg.url} : OkProperty(u)

Spec == Init /\ [][Next]_vars
-----------------------------------------------------------------------------
(* Properties. *)

TypeOK ==
  /\ lastID \in 0 .. MaxTasks /\ Ids(table) \subseteq 1 .. lastID
  /\ Cardinality(Ids(table)) = Len(table)
  /\ \A i \in DOMAIN table : table[i].status \in
       {"waiting", "running", "pause", "wrong", "finish", "delete"}
  /\ selected \in Tasks \cup {None} /\ crashed \in BOOLEAN

(* While a list is shown the selected task is one of its rows, and the     *)
(* buttons mean what they say, whatever ended, came or was deleted, before *)
(* or while a dialog was shown.                                            *)
SelectionShown ==
  show # "root" =>
    selected = IF selected \in Range(Listed(table, show)) THEN selected
               ELSE IF Listed(table, show) = << >> THEN None ELSE 0

ButtonsTrue ==
  (show # "root" /\ selected # None) => bar = StatusOf(table, selected)

(* What the user sees is what a handler will mean.                         *)
SelectionTrue == TypeOK /\ SelectionShown /\ ButtonsTrue

(* The object of a running task was told of every mirror in its            *)
(* properties, if it was there at the start or came later.                 *)
MirrorsReachObject ==
  \A i \in DOMAIN table :
    table[i].status = "running" /\ ants[table[i].id] # NoObject =>
      Range(table[i].mirrors) \subseteq ants[table[i].id]

(* What is entered in the dialog of the properties is for the task it was  *)
(* filled from, as long as that task is in the list that is shown: only    *)
(* when it ended or was moved out of the list does OK mean another one.    *)
SameTask ==
  propDlg # Closed /\ (show = "root" \/ propDlg.task \in Range(Listed(table, show))) =>
    selected = propDlg.task

(* A directory among the mirrors of new tasks gets the file of each.       *)
NewMirrorsNamed ==
  [][\A i \in DOMAIN table' \ DOMAIN table : \A m \in Range(table'[i].mirrors) :
       (\E u \in Texts : u.site = m.site /\ IsDir(u)) => m.file = FileName(table'[i].url)]_vars

(* Mirrors are told to the object of the task they were entered for, while *)
(* it is in the list; those of new tasks have the names of their files.    *)
MirrorsRight == [](MirrorsReachObject /\ SameTask) /\ NewMirrorsNamed

(* mainframe.cpp 4637: "if running ,only mirror list can change." *)
RunningKept ==
  [][\A i \in DOMAIN table \cap DOMAIN table' :
       (table[i].id = table'[i].id /\ table[i].status = "running"
          /\ table'[i].status = "running") => table'[i].url = table[i].url]_vars

(* mainframe.cpp 4636: "if finish , no change." *)
FinishKept ==
  [][\A i \in DOMAIN table \cap DOMAIN table' :
       (table[i].id = table'[i].id /\ table[i].status = "finish"
          /\ table'[i].status = "finish") => table'[i].name = table[i].name]_vars

(* mainframe.cpp 4622: "if ( GetCurrentTask() == NULL ) return ;" *)
CurrentExists == ~crashed

(* propertydlg.cpp 839: the address is not built anew when user and        *)
(* password are the default ones.                                          *)
DefaultNotAdded == \A i \in DOMAIN table : table[i].url.user # "anonymous"

(* propertydlg.cpp 896: "put the selected file name at the end of url."    *)
MirrorsNamed ==
  \A i \in DOMAIN table : \A m \in Range(table[i].mirrors) : ~IsDir(m)

(* mgnewtaskdlg.cpp 872: "too many murl". *)
MirrorsFit == wrote <= Room
=============================================================================
