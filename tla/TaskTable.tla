----------------------------- MODULE TaskTable ------------------------------
(***************************************************************************)
(* MainFrame and CTaskManager: the table of tasks, and the task objects    *)
(* (CMgSingleTask) that run some of them.                                  *)
(*                                                                         *)
(* All handlers run in the user interface thread, one at a time; a handler *)
(* is an action, with the ScheduleTask it ends with.  The threads of a     *)
(* task (module SingleTask) report its end by setting the status of the    *)
(* object and posting an event that carries the id of the task, and the    *)
(* handler of the event looks the object up again: an event may be late,   *)
(* and find another object, or none, under its id.                         *)
(*                                                                         *)
(* A button is enabled for the tasks UpdateToolBar enables it for.  The    *)
(* selection and the buttons follow the lists of tasks; at the root of the *)
(* tree no list is shown, UpdateTaskList returns early, and the buttons of *)
(* the selected task stay as they were, whatever becomes of its status.    *)
(* While a dialog is shown the main window takes no clicks, and the tray   *)
(* menu is closed (DlgShow), except that OnReloadFile does not close it.   *)
(* A task whose thread could not be created is shown as running all the    *)
(* same, without an object.                                                *)
(***************************************************************************)
EXTENDS Integers, Sequences, FiniteSets, SequencesExt

CONSTANTS
  MaxTasks,   \* bound: tasks ever entered
  Limits,     \* values of gRunTaskNum
  Refused,    \* bound: tasks whose thread the system may refuse to create
  MaxReloads, \* bound: how often a file is fetched anew
  MaxEvents   \* bound: events of one task in the queue

ASSUME TaskTableAssumption ==
  /\ MaxTasks \in Nat /\ MaxReloads \in Nat /\ MaxEvents \in Nat
  /\ Limits \subseteq Nat /\ Limits # {} /\ Refused \subseteq 1 .. MaxTasks

VARIABLES
  lastID,  \* m_nTaskID
  order,   \* m_AllTaskList: the ids, in the order of the table, ...
  status,  \* ... and nStatus of every id ("none" when it is not there)
  objects, \* m_TaskList: the objects of every id, older ones first
  stuck,   \* tasks shown as running whose thread was refused
  requeued, \* tasks made to wait while an object ran them, which still does
  events,  \* task-finish events in the queue, for every id
  limit,   \* gRunTaskNum
  root,    \* the selected task while the root of the tree is shown, or NoTask
  bar,     \* the status its buttons were last set for, or "none"
  asked,   \* the task whose reload the user is asked about, or NoTask
  dangling, \* m_AllTaskList was reallocated while the user was asked
  reloads  \* confirmed reloads

table == <<order, status, objects, stuck, requeued>>
view == <<root, bar>>
reload == <<asked, dangling, reloads>>
vars == <<lastID, table, events, limit, view, reload>>

Tasks == 1 .. MaxTasks
NoTask == 0

(* An object: m_nStatus, and whether its thread has set the status but not *)
(* yet posted the event.                                                   *)
NewObject == [status |-> "running", due |-> FALSE]

(* GetTaskStatus, of the object GetTaskObj finds. *)
GetTaskStatus(t) == IF objects[t] = << >> THEN "none" ELSE Head(objects[t]).status

(* GetTaskNumber. *)
Slots(objs) == UNION {{t} \X DOMAIN objs[t] : t \in Tasks}
TaskNumber(objs) == Cardinality(Slots(objs))

(* AddTask: an object whose thread cannot be created is not listed. *)
AddTask(objs, t, fails) ==
  IF t \in fails THEN objs ELSE [objs EXCEPT ![t] = Append(@, NewObject)]

(* RemoveTask deletes the object GetTaskObj finds.  Its threads are joined *)
(* first: one that was about to post its event does so, unless it was      *)
(* cancelled before (late).                                                *)
RemoveTask(objs, t) ==
  IF objs[t] = << >> THEN objs ELSE [objs EXCEPT ![t] = Tail(@)]

Posted(t, late) == IF late /\ objects[t] # << >> /\ Head(objects[t]).due
                   THEN 1 ELSE 0
-----------------------------------------------------------------------------
(* What a handler makes of the table; for the tasks in again it queues a   *)
(* task, whatever object it has.                                           *)
SetTable(rows, st, objs, still) ==
  order' = rows /\ status' = st /\ objects' = objs /\ stuck' = still

Stuck(st) == {t \in stuck : st[t] = "running"}

Requeue(again) ==
  requeued' = {t \in requeued \cup again : objects[t] # << >> /\ objects'[t] # << >>}

(* ScheduleTask: the waiting tasks without an object are started in the    *)
(* order of the table, as far as the limit allows.  A task whose thread is *)
(* refused (fails) is set to running too, and takes no slot.               *)
Candidates(rows, st, objs) ==
  {i \in DOMAIN rows : st[rows[i]] = "waiting" /\ objs[rows[i]] = << >>}

FreeSlotMutant(n) == n <= limit
FreeSlot(n) == n < limit

Chosen(rows, st, objs, fails) ==
  LET can == Candidates(rows, st, objs)
      Started(k) == {j \in can : j < k /\ rows[j] \notin fails}
  IN {rows[i] : i \in {k \in can :
        FreeSlot(TaskNumber(objs) + Cardinality(Started(k)))}}

ScheduleTask(rows, st, objs) ==
  \E fails \in SUBSET {t \in Refused : st[t] = "waiting"} :
    LET go == Chosen(rows, st, objs, fails)
    IN SetTable(rows,
         [t \in Tasks |-> IF t \in go THEN "running" ELSE st[t]],
         [t \in Tasks |-> IF t \in go \ fails THEN <<NewObject>> ELSE objs[t]],
         Stuck(st) \cup (go \cap fails))

(* A handler that does not schedule. *)
NoSchedule(rows, st, objs) == SetTable(rows, st, objs, Stuck(st))

(* GetTask: where the row of a task is. *)
Row(t) == CHOOSE i \in DOMAIN order : order[i] = t
-----------------------------------------------------------------------------
Init ==
  /\ lastID = 0 /\ order = << >> /\ status = [t \in Tasks |-> "none"]
  /\ objects = [t \in Tasks |-> << >>] /\ stuck = {} /\ requeued = {}
  /\ events = [t \in Tasks |-> 0] /\ limit \in Limits
  /\ root = NoTask /\ bar = "none"
  /\ asked = NoTask /\ dangling = FALSE /\ reloads = 0

(* The selected task, and the status its buttons are set for. *)
Selected(t) == asked = NoTask /\ status[t] # "none" /\ root \in {NoTask, t}
Enabled(t, statuses) == (IF root = NoTask THEN status[t] ELSE bar) \in statuses

(* UpdateToolBar, at the end of a handler. *)
UpdateToolBar ==
  /\ root' = root
  /\ bar' = IF root = NoTask THEN "none" ELSE status'[root]

(* OnTreeSelect: from a list to the root of the tree, and back. *)
ViewRoot(t) ==
  /\ Selected(t) /\ root = NoTask
  /\ root' = t /\ bar' = status[t]
  /\ UNCHANGED <<lastID, table, events, limit, reload>>

LeaveRoot ==
  /\ asked = NoTask /\ root # NoTask
  /\ root' = NoTask /\ bar' = "none"
  /\ UNCHANGED <<lastID, table, events, limit, reload>>

(* DoNewTask, AddNewTask, AddBatchTask; also from another program or the   *)
(* clipboard while the user is asked about a reload, when the new row may  *)
(* move the table (moves).                                                 *)
NewTask(run, moves) ==
  LET t == lastID + 1
  IN /\ t \in Tasks /\ (moves => asked # NoTask)
     /\ lastID' = t
     /\ ScheduleTask(Append(order, t),
                     [status EXCEPT ![t] = IF run THEN "waiting" ELSE "pause"],
                     objects)
     /\ Requeue({})
     /\ dangling' = (dangling \/ moves)
     /\ UNCHANGED <<events, limit, view, asked, reloads>>

(* OnStartTask does not look at the status. *)
OnStartTask(t) ==
  /\ Selected(t) /\ Enabled(t, {"pause", "wrong", "delete"})
  /\ ScheduleTask(order, [status EXCEPT ![t] = "waiting"], objects)
  /\ Requeue({t}) /\ UpdateToolBar
  /\ UNCHANGED <<lastID, events, limit, reload>>

(* StopTask removes the object of a running task, and of no other. *)
StoppedMutant(t) == objects
Stopped(t) == IF status[t] = "running" THEN RemoveTask(objects, t) ELSE objects

StopEvents(t, late) ==
  events' = [events EXCEPT ![t] =
               @ + (IF status[t] = "running" THEN Posted(t, late) ELSE 0)]

Paused(t) == IF status[t] \in {"running", "waiting"} THEN "pause" ELSE status[t]

OnStopTaskMutant(t, late) ==
  /\ Selected(t) /\ Enabled(t, {"running", "waiting"})
  /\ NoSchedule(order, [status EXCEPT ![t] = Paused(t)], Stopped(t))
  /\ StopEvents(t, late)
  /\ Requeue({}) /\ UpdateToolBar
  /\ UNCHANGED <<lastID, limit, reload>>

OnStopTask(t, late) ==
  /\ Selected(t) /\ Enabled(t, {"running", "waiting"})
  /\ ScheduleTask(order, [status EXCEPT ![t] = Paused(t)], Stopped(t))
  /\ StopEvents(t, late)
  /\ Requeue({}) /\ UpdateToolBar
  /\ UNCHANGED <<lastID, limit, reload>>

(* OnCancelTask, enabled for every status: first to the deleted tasks,     *)
(* without a ScheduleTask; the second time out of the table.               *)
OnCancelTask(t, late) ==
  /\ Selected(t) /\ status[t] # "delete"
  /\ NoSchedule(order, [status EXCEPT ![t] = "delete"], Stopped(t))
  /\ StopEvents(t, late)
  /\ Requeue({}) /\ UpdateToolBar
  /\ UNCHANGED <<lastID, limit, reload>>

(* Nothing is selected then, and no button enabled until a list is shown. *)
DeleteTask(t) ==
  /\ Selected(t) /\ status[t] = "delete"
  /\ NoSchedule(RemoveAt(order, Row(t)), [status EXCEPT ![t] = "none"], objects)
  /\ Requeue({}) /\ root' = NoTask /\ bar' = "none"
  /\ UNCHANGED <<lastID, events, limit, reload>>

(* The list on the screen: the running tasks inserted at its head, the     *)
(* waiting ones behind.  Row i of the table is shown directly above row j. *)
Shown(s) == {i \in DOMAIN order : status[order[i]] = s}

Above(i, j) ==
  LET up == Shown("running")
      low == Shown("waiting")
  IN \/ {i, j} \subseteq up /\ i > j /\ \A k \in up : k >= i \/ k <= j
     \/ {i, j} \subseteq low /\ i < j /\ \A k \in low : k <= i \/ k >= j
     \/ /\ i \in up /\ \A k \in up : i <= k
        /\ j \in low /\ \A k \in low : j <= k

(* OnMoveDown of the upper of two neighbours, or OnMoveUp of the lower:    *)
(* their rows change places, and a waiting task that of a running one.     *)
OnMove(i, j, late, fails) ==
  LET up == order[i]
      low == order[j]
      rows == [order EXCEPT ![i] = low, ![j] = up]
  IN /\ asked = NoTask /\ root = NoTask /\ Above(i, j)
     /\ IF status[up] = "running" /\ status[low] = "waiting"
        THEN /\ SetTable(rows,
                  [status EXCEPT ![up] = "waiting", ![low] = "running"],
                  AddTask(RemoveTask(objects, up), low, fails),
                  (stuck \ {up, low}) \cup fails)
             /\ events' = [events EXCEPT ![up] = @ + Posted(up, late)]
        ELSE NoSchedule(rows, status, objects) /\ UNCHANGED events
     /\ Requeue({})
     /\ UNCHANGED <<lastID, limit, view, reload>>

(* OnReloadFile, also from the menu of a list, which does not disable it:  *)
(* it asks, and acts on the answer.  The task may have changed in between, *)
(* and its row may have moved: then the answer is written beside the table.*)
AskReload(t) ==
  /\ Selected(t) /\ status[t] \notin {"running", "delete"}
  /\ root = NoTask \/ Enabled(t, {"pause", "wrong", "finish"})
  /\ reloads < MaxReloads
  /\ asked' = t
  /\ UNCHANGED <<lastID, table, events, limit, view, dangling, reloads>>

OnReloadFile(yes) ==
  /\ asked # NoTask /\ asked' = NoTask /\ dangling' = FALSE
  /\ IF yes
     THEN /\ reloads' = reloads + 1
          /\ IF dangling
             THEN ScheduleTask(order, status, objects) /\ Requeue({})
             ELSE /\ ScheduleTask(order, [status EXCEPT ![asked] = "waiting"], objects)
                  /\ Requeue({asked})
     ELSE UNCHANGED <<table, reloads>>
  /\ UNCHANGED <<lastID, events, limit, view>>

(* The tray menu. *)
StartAllTask ==
  /\ \E t \in Tasks : status[t] = "pause"
  /\ ScheduleTask(order,
       [t \in Tasks |-> IF status[t] = "pause" THEN "waiting" ELSE status[t]],
       objects)
  /\ Requeue({})
  /\ UNCHANGED <<lastID, events, limit, view, reload>>

(* Nothing is left waiting, so the ScheduleTask of StopAllTask starts none. *)
StopAllTask(lates) ==
  /\ NoSchedule(order,
       [t \in Tasks |-> IF status[t] \in {"running", "waiting"} THEN "pause"
                        ELSE status[t]],
       [t \in Tasks |-> << >>])
  /\ events' = [t \in Tasks |-> events[t] +
                  (IF t \in lates
                   THEN Cardinality({i \in DOMAIN objects[t] : objects[t][i].due})
                   ELSE 0)]
  /\ Requeue({})
  /\ UNCHANGED <<lastID, limit, view, reload>>

OnConfig(n) ==
  /\ asked = NoTask
  /\ limit' = n
  /\ UNCHANGED <<lastID, table, events, view, reload>>
-----------------------------------------------------------------------------
SetResultMutant(t, i, end) ==
  /\ i \in DOMAIN objects[t] /\ ~objects[t][i].due /\ events[t] < MaxEvents
  /\ objects' = [objects EXCEPT ![t][i] = [status |-> end, due |-> end = "finish"]]
  /\ UNCHANGED <<lastID, order, status, stuck, requeued, events, limit, view, reload>>

(* FinishTask in a thread of an object: the status, then the event. *)
SetResult(t, i, end) ==
  /\ i \in DOMAIN objects[t] /\ ~objects[t][i].due /\ events[t] < MaxEvents
  /\ objects' = [objects EXCEPT ![t][i] = [status |-> end, due |-> TRUE]]
  /\ UNCHANGED <<lastID, order, status, stuck, requeued, events, limit, view, reload>>

PostEvent(t, i) ==
  /\ i \in DOMAIN objects[t] /\ objects[t][i].due
  /\ objects' = [objects EXCEPT ![t][i].due = FALSE]
  /\ events' = [events EXCEPT ![t] = @ + 1]
  /\ UNCHANGED <<lastID, order, status, stuck, requeued, limit, view, reload>>

(* How the table shows the end of an object. *)
End(t) == IF GetTaskStatus(t) = "finish" THEN "finish" ELSE "wrong"

(* OnTaskFinish: when the object it finds has ended, the task has. *)
OnTaskFinish(t, late) ==
  LET ended == t \in ToSet(order) /\ GetTaskStatus(t) \in {"finish", "error"}
  IN /\ events[t] > 0
     /\ events' = [events EXCEPT ![t] =
                     @ - 1 + (IF ended THEN Posted(t, late) ELSE 0)]
     /\ IF ended
        THEN /\ ScheduleTask(order, [status EXCEPT ![t] = End(t)],
                             RemoveTask(objects, t))
             /\ Requeue({})
        ELSE UNCHANGED table
     /\ UNCHANGED <<lastID, limit, view, reload>>

Next ==
  \/ \E run, moves \in BOOLEAN : NewTask(run, moves)
  \/ LeaveRoot
  \/ \E t \in Tasks :
       \/ ViewRoot(t) \/ OnStartTask(t) \/ DeleteTask(t) \/ AskReload(t)
       \/ \E late \in BOOLEAN :
            OnStopTask(t, late) \/ OnCancelTask(t, late) \/ OnTaskFinish(t, late)
       \/ \E i \in DOMAIN objects[t] :
            PostEvent(t, i) \/ \E end \in {"finish", "error"} : SetResult(t, i, end)
  \/ \E i, j \in DOMAIN order, late \in BOOLEAN :
       \E fails \in SUBSET (Refused \cap {order[j]}) : OnMove(i, j, late, fails)
  \/ \E yes \in BOOLEAN : OnReloadFile(yes)
  \/ StartAllTask \/ \E lates \in SUBSET Tasks : StopAllTask(lates)
  \/ \E n \in Limits : OnConfig(n)

Spec == Init /\ [][Next]_vars
-----------------------------------------------------------------------------
(* Properties. *)

Statuses == {"none", "pause", "waiting", "running", "wrong", "finish", "delete"}
Object == [status : {"running", "finish", "error"}, due : BOOLEAN]

TypeOK ==
  /\ lastID \in 0 .. MaxTasks
  /\ order \in Seq(Tasks)
  /\ status \in [Tasks -> Statuses]
  /\ objects \in [Tasks -> Seq(Object)]
  /\ stuck \subseteq Tasks /\ requeued \subseteq Tasks
  /\ events \in [Tasks -> Nat]
  /\ limit \in Limits
  /\ root \in Tasks \cup {NoTask} /\ bar \in Statuses
  /\ asked \in Tasks \cup {NoTask} /\ dangling \in BOOLEAN
  /\ reloads \in 0 .. MaxReloads

(* Whatever the user clicks and however late the events are, a task is     *)
(* shown as running if and only if one object runs it: no download goes on *)
(* behind a task that is stopped or deleted, and no two write one part     *)
(* file.  There are two ways around this: Start at the root of the tree,   *)
(* or a reload confirmed after the tray menu has started the task, makes a *)
(* task wait while its object runs on (it is right again when that object  *)
(* is gone); and a task whose thread was refused is shown as running       *)
(* without an object.                                                      *)
OneObjectEach ==
  \A t \in Tasks \ requeued :
    Len(objects[t]) = IF status[t] = "running" /\ t \notin stuck THEN 1 ELSE 0

(* An object that has ended is still to be reported: no event is swallowed *)
(* by the handler of an event of an object that was removed before (but    *)
(* one of two objects of a task that was queued again may be).             *)
EndReported ==
  \A t \in Tasks \ requeued : \A i \in DOMAIN objects[t] :
    objects[t][i].status # "running" => objects[t][i].due \/ events[t] > 0

(* No step starts a task beyond the limit (which the user may lower while  *)
(* more tasks are running), except that a task whose thread was refused,   *)
(* moved down, leaves a place where no object ran.                         *)
LimitKept ==
  [][TaskNumber(objects') > TaskNumber(objects) =>
       \/ TaskNumber(objects') <= limit
       \/ order' # order /\ \E t \in stuck : status'[t] = "waiting"]_vars

(* A free slot is given to a waiting task in the step that frees it, or    *)
(* that brings the task; only deleting a task and raising the limit leave  *)
(* it idle.  (So does a move up whose thread is refused, and one of a task *)
(* that was queued again and still has its object.)                        *)
Idle == /\ TaskNumber(objects) < limit
        /\ \E t \in Tasks : status[t] = "waiting" /\ objects[t] = << >>
SlotsFilled ==
  [][~Idle /\ Idle' =>
       \/ limit # limit'
       \/ \E t \in Tasks : status[t] # "delete" /\ status'[t] = "delete"
       \/ order' # order /\ ~(stuck' \subseteq stuck)
       \/ \E t \in requeued : Len(objects'[t]) > 1]_vars
=============================================================================
