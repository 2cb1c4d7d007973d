-------------------------- MODULE TaskTableProofs ---------------------------
(***************************************************************************)
(* Proofs about the table of tasks, for any number of tasks, limits of     *)
(* running tasks, number of reloads and length of the event queue.         *)
(*   IInv       a task is shown as running iff exactly one object runs it, *)
(*              but for those queued again with their object, and those    *)
(*              whose thread was refused;                                  *)
(*   Rows       a task has one row in the table, or none and no status;    *)
(*   Reporting  an object that has ended is still to be reported;          *)
(* and, from what every step does to the number of objects: no task is     *)
(* started beyond the limit, and none waits beside an idle slot.           *)
(***************************************************************************)
EXTENDS TaskTable, SequenceTheorems, FiniteSetTheorems, WellFoundedInduction, TLAPS

(* What a handler may find: functions of the right type, ... *)
Typed ==
  /\ lastID \in Nat
  /\ status \in [Tasks -> Statuses]
  /\ objects \in [Tasks -> Seq(Object)]

(* ... no row under an id not yet given (NewTask would overwrite it), and  *)
(* no answer awaited for one; ...                                          *)
IdsInTurn ==
  /\ \A t \in Tasks : t > lastID => status[t] = "none"
  /\ asked # NoTask => asked <= lastID
  /\ requeued \subseteq 1 .. lastID
  /\ asked \in Tasks \cup {NoTask}

(* ... an object, or a refused thread (lost), for every running task; and  *)
(* the ghosts say what they are meant to.                                  *)
Fed(st, objs, lost) ==
  \A t \in Tasks : st[t] = "running" /\ t \notin lost => objs[t] # << >>

Ghosts ==
  /\ stuck \subseteq Tasks /\ \A t \in stuck : status[t] = "running"
  /\ requeued \subseteq Tasks /\ \A t \in requeued : objects[t] # << >>

(* OneObjectEach, but for some tasks. *)
Exact(st, objs, lost, but) ==
  \A t \in Tasks \ but :
    Len(objs[t]) = IF st[t] = "running" /\ t \notin lost THEN 1 ELSE 0

IInv ==
  /\ Typed /\ IdsInTurn /\ Ghosts
  /\ Fed(status, objects, stuck) /\ OneObjectEach

(* The tasks a handler that queues those of again leaves with an object. *)
Excused(again) == requeued \cup {t \in again : objects[t] # << >>}

(* RemoveTask takes one object away, if there is one. *)
LEMMA Removing ==
  ASSUME NEW objs \in [Tasks -> Seq(Object)], NEW t \in Tasks
  PROVE  /\ RemoveTask(objs, t) \in [Tasks -> Seq(Object)]
         /\ \A u \in Tasks \ {t} : RemoveTask(objs, t)[u] = objs[u]
         /\ Len(objs[t]) \in Nat
         /\ Len(objs[t]) \in {0, 1} => Len(RemoveTask(objs, t)[t]) = 0
<1>1. objs[t] \in Seq(Object) /\ Len(objs[t]) \in Nat
  OBVIOUS
<1>2. CASE objs[t] = << >>
  BY <1>1, <1>2 DEF RemoveTask
<1>3. CASE objs[t] # << >>
  <2>1. Tail(objs[t]) \in Seq(Object) /\ Len(Tail(objs[t])) = Len(objs[t]) - 1
    BY <1>1, <1>3, HeadTailProperties
  <2>2. Len(objs[t]) # 0
    BY <1>1, <1>3, EmptySeq
  <2> QED
    BY <1>1, <1>3, <2>1, <2>2 DEF RemoveTask
<1> QED
  BY <1>2, <1>3

(* An empty sequence is the one of length 0. *)
LEMMA NoObject ==
  ASSUME NEW o \in Seq(Object)
  PROVE  /\ Len(o) = 0 <=> o = << >>
         /\ o = << >> => DOMAIN o = {}
         /\ DOMAIN o = 1 .. Len(o) /\ Len(o) \in Nat
  BY EmptySeq

(* What ScheduleTask, or no schedule, makes of statuses st and objects     *)
(* objs that agree: they agree still.                                      *)
LEMMA Scheduling ==
  ASSUME NEW rows, NEW st \in [Tasks -> Statuses],
         NEW objs \in [Tasks -> Seq(Object)], NEW but, stuck \subseteq Tasks,
         ScheduleTask(rows, st, objs) \/ NoSchedule(rows, st, objs),
         Fed(st, objs, stuck), Exact(st, objs, stuck, but)
  PROVE  /\ status' \in [Tasks -> Statuses]
         /\ objects' \in [Tasks -> Seq(Object)]
         /\ stuck' \subseteq Tasks /\ \A t \in stuck' : status'[t] = "running"
         /\ \A t \in Tasks : status'[t] = "none" <=> st[t] = "none"
         /\ Fed(status', objects', stuck') /\ Exact(status', objects', stuck', but)
<1>1. CASE ScheduleTask(rows, st, objs)
  <2>1. PICK fails \in SUBSET {t \in Refused : st[t] = "waiting"} :
          LET go == Chosen(rows, st, objs, fails)
          IN SetTable(rows,
               [t \in Tasks |-> IF t \in go THEN "running" ELSE st[t]],
               [t \in Tasks |-> IF t \in go \ fails THEN <<NewObject>> ELSE objs[t]],
               Stuck(st) \cup (go \cap fails))
    BY <1>1 DEF ScheduleTask
  <2> DEFINE go == Chosen(rows, st, objs, fails)
  <2>2. /\ status' = [t \in Tasks |-> IF t \in go THEN "running" ELSE st[t]]
        /\ objects' = [t \in Tasks |-> IF t \in go \ fails THEN <<NewObject>> ELSE objs[t]]
        /\ stuck' = Stuck(st) \cup (go \cap fails)
    BY <2>1 DEF SetTable
  <2>3. \A t \in go : st[t] = "waiting" /\ objs[t] = << >>
    BY DEF Chosen, Candidates
  <2>4. /\ <<NewObject>> \in Seq(Object) /\ Len(<<NewObject>>) = 1
        /\ <<NewObject>> # << >>
    BY DEF NewObject, Object
  <2>5. fails \subseteq Tasks
    BY TaskTableAssumption DEF Tasks
  <2> HIDE DEF go
  <2>6. \A t \in Tasks : t \in stuck' <=> \/ t \in stuck /\ st[t] = "running"
                                          \/ t \in go /\ t \in fails
    BY <2>2 DEF Stuck
  <2>7. /\ stuck' \subseteq Tasks /\ \A t \in stuck' : status'[t] = "running"
    BY <2>2, <2>5 DEF Stuck
  <2>8. /\ status' \in [Tasks -> Statuses] /\ objects' \in [Tasks -> Seq(Object)]
        /\ \A t \in Tasks : status'[t] = "none" <=> st[t] = "none"
    BY <2>2, <2>3, <2>4 DEF Statuses
  <2>9. Fed(status', objects', stuck')
    BY <2>2, <2>3, <2>4, <2>6 DEF Fed
  <2>10. ASSUME NEW t \in Tasks \ but
         PROVE  Len(objects'[t]) = IF status'[t] = "running" /\ t \notin stuck'
                                   THEN 1 ELSE 0
    <3>1. Len(objs[t]) = IF st[t] = "running" /\ t \notin stuck THEN 1 ELSE 0
      BY DEF Exact
    <3>2. CASE t \in go /\ t \notin fails
      BY <2>2, <2>3, <2>4, <2>6, <3>2
    <3>3. CASE t \in go /\ t \in fails
      BY <2>2, <2>3, <2>6, <3>1, <3>3
    <3>4. CASE t \notin go
      BY <2>2, <2>6, <3>1, <3>4
    <3> QED
      BY <3>2, <3>3, <3>4
  <2> QED
    BY <2>7, <2>8, <2>9, <2>10 DEF Exact
<1>2. CASE NoSchedule(rows, st, objs)
  <2>1. status' = st /\ objects' = objs /\ stuck' = Stuck(st)
    BY <1>2 DEF NoSchedule, SetTable
  <2>2. \A t \in Tasks : t \in stuck' <=> t \in stuck /\ st[t] = "running"
    BY <2>1 DEF Stuck
  <2>3. Fed(status', objects', stuck') /\ Exact(status', objects', stuck', but)
    BY <2>1, <2>2 DEF Fed, Exact
  <2> QED
    BY <2>1, <2>3 DEF Stuck
<1> QED
  BY <1>1, <1>2

(* A handler establishes IInv when statuses and objects agree, but for the *)
(* tasks it queues again with an object.                                   *)
LEMMA Handing ==
  ASSUME IInv, NEW again, again \subseteq Tasks \cap (1 .. lastID'), Requeue(again),
         lastID' \in Nat, lastID' >= lastID, asked' \in Tasks \cup {NoTask},
         asked' # NoTask => asked' <= lastID',
         status' \in [Tasks -> Statuses],
         objects' \in [Tasks -> Seq(Object)],
         stuck' \subseteq Tasks, \A t \in stuck' : status'[t] = "running",
         \A u \in Tasks : u > lastID' => status'[u] = "none",
         Fed(status', objects', stuck'),
         Exact(status', objects', stuck', Excused(again))
  PROVE  IInv'
<1>1. requeued' = {t \in requeued \cup again : objects[t] # << >> /\ objects'[t] # << >>}
  BY DEF Requeue
<1>2. /\ requeued' \subseteq 1 .. lastID' /\ requeued' \subseteq Tasks
      /\ \A t \in requeued' : objects'[t] # << >>
  <2>1. requeued \subseteq 1 .. lastID /\ requeued \subseteq Tasks /\ lastID \in Nat
    BY DEF IInv, IdsInTurn, Typed, Ghosts
  <2>2. 1 .. lastID \subseteq 1 .. lastID'
    BY <2>1
  <2> QED
    BY <1>1, <2>1, <2>2
<1>3. ASSUME NEW t \in Tasks \ requeued'
      PROVE  Len(objects'[t]) = IF status'[t] = "running" /\ t \notin stuck'
                                THEN 1 ELSE 0
  <2>1. CASE objects'[t] = << >>
    <3>1. Len(objects'[t]) = 0
      BY <2>1, EmptySeq
    <3> QED
      BY <2>1, <3>1 DEF Fed
  <2>2. CASE objects'[t] # << >>
    <3>1. t \notin Excused(again)
      BY <1>1, <1>3, <2>2 DEF Excused, IInv, Ghosts
    <3> QED
      BY <3>1 DEF Exact
  <2> QED
    BY <2>1, <2>2
<1>4. Typed' /\ Ghosts'
  BY <1>2 DEF Typed, Ghosts
<1>5. IdsInTurn'
  BY <1>2 DEF IdsInTurn
<1>6. OneObjectEach'
  BY <1>3 DEF OneObjectEach
<1>7. Fed(status, objects, stuck)'
  BY DEF Fed
<1> QED
  BY <1>4, <1>5, <1>6, <1>7 DEF IInv

(* Initially the table is empty. *)
LEMMA InitIInv == Init => IInv
BY TaskTableAssumption, EmptySeq
   DEF Init, IInv, Typed, IdsInTurn, Ghosts, Fed, OneObjectEach, Statuses, NoTask

(* Every handler, and every step of the threads behind it, keeps IInv. *)
LEMMA NextIInv == IInv /\ [Next]_vars => IInv'
<1> SUFFICES ASSUME IInv, [Next]_vars PROVE IInv'
  OBVIOUS
<1> USE TaskTableAssumption DEF IInv
<1>0. \A t \in Tasks : t \in Nat /\ t # NoTask
  BY DEF Tasks, NoTask
<1>t. /\ lastID \in Nat /\ status \in [Tasks -> Statuses]
      /\ objects \in [Tasks -> Seq(Object)] /\ stuck \subseteq Tasks
  BY DEF Typed, Ghosts
<1>g. /\ \A t \in stuck : status[t] = "running"
      /\ \A t \in requeued : objects[t] # << >>
  BY DEF Ghosts
<1>f. Fed(status, objects, stuck)
  OBVIOUS
<1>2. ASSUME NEW rows, NEW st \in [Tasks -> Statuses],
             NEW objs \in [Tasks -> Seq(Object)],
             ScheduleTask(rows, st, objs) \/ NoSchedule(rows, st, objs),
             NEW again, again \subseteq Tasks \cap (1 .. lastID), Requeue(again),
             UNCHANGED lastID, asked' \in {asked, NoTask},
             \A u \in Tasks : u > lastID => st[u] = "none",
             Fed(st, objs, stuck), Exact(st, objs, stuck, Excused(again))
      PROVE  IInv'
  <2>1. asked' \in Tasks \cup {NoTask} /\ (asked' # NoTask => asked' <= lastID')
    BY <1>2 DEF IdsInTurn
  <2>2. lastID' \in Nat /\ lastID' = lastID /\ lastID' >= lastID
    BY <1>t, <1>2
  <2>3. /\ status' \in [Tasks -> Statuses]
        /\ objects' \in [Tasks -> Seq(Object)]
        /\ stuck' \subseteq Tasks /\ \A t \in stuck' : status'[t] = "running"
        /\ \A t \in Tasks : status'[t] = "none" <=> st[t] = "none"
        /\ Fed(status', objects', stuck')
        /\ Exact(status', objects', stuck', Excused(again))
    BY <1>2, <1>t, Scheduling
  <2>4. \A u \in Tasks : u > lastID' => status'[u] = "none"
    BY <1>2, <2>2, <2>3
  <2> QED
    BY <1>2, <2>1, <2>2, <2>3, <2>4, Handing
<1>4. \A u \in Tasks : u > lastID => status[u] = "none" /\ u \notin requeued
  BY <1>0, <1>t DEF IdsInTurn
<1>5. \A u \in Tasks \ requeued :
        Len(objects[u]) = IF status[u] = "running" /\ u \notin stuck THEN 1 ELSE 0
  BY DEF OneObjectEach
<1>e. \A again : Exact(status, objects, stuck, Excused(again))
  BY <1>5 DEF Exact, Excused
<1>1. ASSUME NEW run \in BOOLEAN, NEW moves \in BOOLEAN, NewTask(run, moves)
      PROVE  IInv'
  <2> DEFINE t == lastID + 1
             st == [status EXCEPT ![t] = IF run THEN "waiting" ELSE "pause"]
  <2>1. /\ t \in Tasks /\ lastID' = t /\ UNCHANGED asked /\ Requeue({})
        /\ ScheduleTask(Append(order, t), st, objects)
    BY <1>1 DEF NewTask
  <2>2. /\ st \in [Tasks -> Statuses] /\ status[t] = "none" /\ t \notin requeued
        /\ t \notin stuck
    BY <1>0, <1>t, <1>g, <2>1 DEF Statuses, IdsInTurn
  <2>3. /\ asked' \in Tasks \cup {NoTask}
        /\ asked' # NoTask => asked' <= lastID'
    BY <1>0, <1>t, <2>1 DEF IdsInTurn, NoTask, Tasks
  <2>4. \A u \in Tasks : u > lastID' => st[u] = "none"
    BY <1>0, <1>t, <2>1 DEF IdsInTurn
  <2>5. Fed(st, objects, stuck)
    BY <1>f, <1>t, <2>1 DEF Fed
  <2>6. Exact(st, objects, stuck, Excused({}))
    BY <1>5, <1>t, <2>1, <2>2 DEF Exact, Excused
  <2>7. lastID' \in Nat /\ lastID' >= lastID
    BY <1>t, <2>1
  <2> HIDE DEF st, t
  <2>8. /\ status' \in [Tasks -> Statuses]
        /\ objects' \in [Tasks -> Seq(Object)]
        /\ stuck' \subseteq Tasks /\ \A x \in stuck' : status'[x] = "running"
        /\ \A x \in Tasks : status'[x] = "none" <=> st[x] = "none"
        /\ Fed(status', objects', stuck')
        /\ Exact(status', objects', stuck', Excused({}))
    BY <1>t, <2>1, <2>2, <2>5, <2>6, Scheduling
  <2>9. \A u \in Tasks : u > lastID' => status'[u] = "none"
    BY <2>4, <2>8
  <2> QED
    BY <2>1, <2>3, <2>7, <2>8, <2>9, Handing
<1>6. ASSUME NEW t \in Tasks, status[t] # "none", ScheduleTask(order, [status EXCEPT ![t] = "waiting"], objects),
             Requeue({t}), UNCHANGED lastID, asked' \in {asked, NoTask}
      PROVE IInv'
  <2> DEFINE st == [status EXCEPT ![t] = "waiting"]
  <2>1. ScheduleTask(order, st, objects)
    BY <1>6
  <2>2. st \in [Tasks -> Statuses] /\ {t} \subseteq Tasks \cap (1 .. lastID)
    BY <1>0, <1>4, <1>6, <1>t DEF Statuses, Tasks
  <2>3. \A u \in Tasks : u > lastID => st[u] = "none"
    BY <1>4, <1>t, <1>6
  <2>4. Fed(st, objects, stuck)
    BY <1>f, <1>t DEF Fed
  <2>5. ASSUME NEW u \in Tasks \ Excused({t})
        PROVE  Len(objects[u]) = IF st[u] = "running" /\ u \notin stuck THEN 1 ELSE 0
    <3>1. CASE u = t
      <4>1. objects[u] = << >> /\ st[u] = "waiting"
        BY <1>t, <2>5, <3>1 DEF Excused
      <4> QED
        BY <4>1, EmptySeq
    <3>2. CASE u # t
      BY <1>5, <1>t, <3>2 DEF Excused
    <3> QED
      BY <3>1, <3>2
  <2>6. Exact(st, objects, stuck, Excused({t}))
    BY <2>5 DEF Exact
  <2> HIDE DEF st
  <2> QED
    BY <1>2, <1>6, <1>t, <2>1, <2>2, <2>3, <2>4, <2>6
<1>s. ASSUME NEW t \in Tasks, OnStartTask(t) PROVE IInv'
  BY <1>6, <1>s DEF OnStartTask, Selected, reload
<1>v. ASSUME UNCHANGED <<lastID, status, objects, stuck, requeued>>,
             asked' \in {asked, NoTask}
      PROVE  IInv'
  BY <1>v DEF Typed, IdsInTurn, Ghosts, Fed, OneObjectEach
<1>w. ASSUME NEW t \in Tasks, ViewRoot(t) PROVE IInv'
  BY <1>v, <1>w DEF ViewRoot, table, reload
<1>x. CASE LeaveRoot
  BY <1>v, <1>x DEF LeaveRoot, table, reload
<1>7. ASSUME NEW t \in Tasks, NEW to \in {"pause", "delete", Paused(t)},
             status[t] # "none"
      PROVE  LET st == [status EXCEPT ![t] = to]
             IN /\ st \in [Tasks -> Statuses]
                /\ Stopped(t) \in [Tasks -> Seq(Object)]
                /\ \A u \in Tasks : u > lastID => st[u] = "none"
                /\ Fed(st, Stopped(t), stuck)
                /\ Exact(st, Stopped(t), stuck, Excused({}))
  <2> DEFINE st == [status EXCEPT ![t] = to]
             objs == Stopped(t)
  <2>0. to \in Statuses \ {"running"}
    BY <1>7, <1>t DEF Statuses, Paused
  <2>1. st \in [Tasks -> Statuses] /\ st[t] = to
    BY <2>0, <1>t
  <2>2. \A u \in Tasks : u > lastID => st[u] = "none"
    BY <1>4, <1>7, <1>t
  <2>3. /\ RemoveTask(objects, t) \in [Tasks -> Seq(Object)]
        /\ \A u \in Tasks \ {t} : RemoveTask(objects, t)[u] = objects[u]
        /\ Len(objects[t]) \in {0, 1} => Len(RemoveTask(objects, t)[t]) = 0
    BY <1>t, Removing
  <2>4. /\ objs \in [Tasks -> Seq(Object)]
        /\ \A u \in Tasks \ {t} : objs[u] = objects[u]
        /\ t \notin requeued => Len(objs[t]) = 0
    BY <1>5, <1>t, <2>3 DEF Stopped
  <2>s. \A u \in Tasks \ {t} : st[u] = status[u]
    BY <1>t
  <2> HIDE DEF st, objs
  <2>5. Fed(st, objs, stuck)
    BY <1>f, <2>0, <2>1, <2>4, <2>s DEF Fed
  <2>6. ASSUME NEW u \in Tasks \ Excused({})
        PROVE  Len(objs[u]) = IF st[u] = "running" /\ u \notin stuck THEN 1 ELSE 0
    BY <1>5, <2>0, <2>1, <2>4, <2>s DEF Excused
  <2> QED
    BY <2>1, <2>2, <2>4, <2>5, <2>6 DEF Exact, st, objs
<1>8. ASSUME NEW t \in Tasks, NEW late \in BOOLEAN,
             OnStopTask(t, late) \/ OnCancelTask(t, late)
      PROVE  IInv'
  <2>1. /\ status[t] # "none" /\ UNCHANGED <<lastID, asked>> /\ Requeue({})
        /\ \E to \in {"pause", "delete", Paused(t)} :
             LET st == [status EXCEPT ![t] = to]
             IN ScheduleTask(order, st, Stopped(t)) \/ NoSchedule(order, st, Stopped(t))
    BY <1>8 DEF OnStopTask, OnCancelTask, Selected, reload
  <2>2. PICK to \in {"pause", "delete", Paused(t)} :
          LET st == [status EXCEPT ![t] = to]
          IN ScheduleTask(order, st, Stopped(t)) \/ NoSchedule(order, st, Stopped(t))
    BY <2>1
  <2> DEFINE st == [status EXCEPT ![t] = to]
             objs == Stopped(t)
  <2>3. /\ st \in [Tasks -> Statuses] /\ objs \in [Tasks -> Seq(Object)]
        /\ \A u \in Tasks : u > lastID => st[u] = "none"
        /\ Fed(st, objs, stuck) /\ Exact(st, objs, stuck, Excused({}))
    BY <1>7, <2>1
  <2>4. ScheduleTask(order, st, objs) \/ NoSchedule(order, st, objs)
    BY <2>2
  <2> HIDE DEF st, objs
  <2>5. {} \subseteq Tasks \cap (1 .. lastID)
    OBVIOUS
  <2> QED
    BY <1>2, <2>1, <2>3, <2>4, <2>5
<1>9. ASSUME NEW t \in Tasks, DeleteTask(t) PROVE IInv'
  <2> DEFINE st == [status EXCEPT ![t] = "none"]
             rows == RemoveAt(order, Row(t))
  <2>1. /\ NoSchedule(rows, st, objects) /\ status[t] = "delete" /\ Requeue({})
        /\ UNCHANGED <<lastID, asked>>
    BY <1>9 DEF DeleteTask, reload
  <2>2. st \in [Tasks -> Statuses]
    BY <1>t DEF Statuses
  <2>3. \A u \in Tasks : u > lastID => st[u] = "none"
    BY <1>4, <1>t
  <2>4. /\ Fed(st, objects, stuck) /\ Exact(st, objects, stuck, Excused({}))
        /\ {} \subseteq Tasks \cap (1 .. lastID)
    BY <1>5, <1>f, <1>t, <2>1 DEF Fed, Exact, Excused
  <2> HIDE DEF st, rows
  <2> QED
    BY <1>2, <1>t, <2>1, <2>2, <2>3, <2>4
<1>10. ASSUME NEW i \in DOMAIN order, NEW j \in DOMAIN order,
              NEW late \in BOOLEAN, NEW fails \in SUBSET (Refused \cap {order[j]}),
              OnMove(i, j, late, fails)
       PROVE  IInv'
  <2> DEFINE up == order[i]
             low == order[j]
             st == [status EXCEPT ![up] = "waiting", ![low] = "running"]
             less == RemoveTask(objects, up)
             objs == AddTask(less, low, fails)
             lost == (stuck \ {up, low}) \cup fails
  <2>0. /\ UNCHANGED <<lastID, asked>> /\ Requeue({}) /\ {} \subseteq Tasks \cap (1 .. lastID)
        /\ fails \subseteq Tasks /\ \A u \in fails : u = low
    BY <1>10 DEF OnMove, reload, Tasks
  <2>1. CASE status[up] = "running" /\ status[low] = "waiting"
    <3>1. PICK rows : SetTable(rows, st, objs, lost)
      BY <1>10, <2>1 DEF OnMove
    <3>2. st \in [Tasks -> Statuses]
      BY <1>t DEF Statuses
    <3>3. \A u \in Tasks : u > lastID => st[u] = "none"
      BY <1>4, <1>t, <2>1
    <3>4. /\ less \in [Tasks -> Seq(Object)]
          /\ \A u \in Tasks \ {up} : less[u] = objects[u]
          /\ up \in Tasks => (Len(objects[up]) \in {0, 1} => Len(less[up]) = 0)
      <4>1. CASE up \in Tasks
        BY <1>t, <4>1, Removing
      <4>2. CASE up \notin Tasks
        BY <1>t, <4>2 DEF RemoveTask
      <4> QED
        BY <4>1, <4>2
    <3>5. NewObject \in Object
      BY DEF NewObject, Object
    <3>u. /\ up # low /\ (up \in Tasks => st[up] = "waiting")
          /\ (low \in Tasks => st[low] = "running")
          /\ \A u \in Tasks : u # up /\ u # low => st[u] = status[u]
      BY <1>t, <2>1
    <3>l. /\ \A u \in Tasks : u # up /\ u # low => (u \in lost <=> u \in stuck)
          /\ low \in lost <=> low \in fails
          /\ lost \subseteq Tasks /\ \A u \in lost : st[u] = "running"
      BY <1>g, <1>t, <2>0, <3>u
    <3> HIDE DEF less
    <3>7. /\ objs \in [Tasks -> Seq(Object)]
          /\ \A u \in Tasks \ {low} : objs[u] = less[u]
          /\ low \in Tasks => (low \notin fails => Len(objs[low]) = Len(less[low]) + 1)
          /\ low \in Tasks => (low \in fails => objs[low] = less[low])
      <4>1. CASE low \in Tasks /\ low \notin fails
        <5>1. less[low] \in Seq(Object)
          BY <3>4, <4>1
        <5>2. /\ Append(less[low], NewObject) \in Seq(Object)
              /\ Len(Append(less[low], NewObject)) = Len(less[low]) + 1
          BY <3>5, <5>1, AppendProperties
        <5> QED
          BY <3>4, <4>1, <5>2 DEF AddTask
      <4>2. CASE low \notin Tasks \/ low \in fails
        BY <3>4, <4>2 DEF AddTask
      <4> QED
        BY <4>1, <4>2
    <3> HIDE DEF st, objs, lost, up, low
    <3>8. ASSUME NEW u \in Tasks, st[u] = "running", u \notin lost
          PROVE  objs[u] # << >>
      <4>1. CASE u = low
        <5>1. less[u] \in Seq(Object) /\ objs[u] \in Seq(Object)
          BY <3>4, <3>7
        <5>2. Len(objs[u]) = Len(less[u]) + 1 /\ Len(less[u]) \in Nat
          BY <3>7, <3>8, <3>l, <4>1, <5>1
        <5> QED
          BY <5>1, <5>2, NoObject
      <4>2. CASE u # low
        <5>1. u # up
          BY <3>8, <3>u
        <5> QED
          BY <1>f, <3>4, <3>7, <3>8, <3>l, <3>u, <4>2, <5>1 DEF Fed
      <4> QED
        BY <4>1, <4>2
    <3>9. ASSUME NEW u \in Tasks \ Excused({})
          PROVE  Len(objs[u]) = IF st[u] = "running" /\ u \notin lost THEN 1 ELSE 0
      <4>1. u \in Tasks /\ u \notin requeued
        BY <3>9 DEF Excused
      <4>2. CASE u = up
        <5>1. Len(objects[u]) \in {0, 1}
          BY <1>5, <4>1
        <5> QED
          BY <3>4, <3>7, <3>u, <4>1, <4>2, <5>1
      <4>3. CASE u = low
        <5>1. Len(objects[u]) = 0 /\ less[u] = objects[u]
          BY <1>5, <2>1, <3>4, <3>u, <4>1, <4>3
        <5> QED
          <6>1. CASE low \in fails
            BY <3>7, <3>l, <4>1, <4>3, <5>1, <6>1
          <6>2. CASE low \notin fails
            <7>1. st[u] = "running" /\ u \notin lost
              BY <3>l, <3>u, <4>1, <4>3, <6>2
            <7>2. Len(objs[u]) = 0 + 1
              BY <3>7, <4>1, <4>3, <5>1, <6>2
            <7> QED
              BY <7>1, <7>2
          <6> QED
            BY <6>1, <6>2
      <4>4. CASE u # up /\ u # low
        <5>1. objs[u] = objects[u]
          BY <3>4, <3>7, <4>1, <4>4
        <5>2. st[u] = status[u] /\ (u \in lost <=> u \in stuck)
          BY <3>l, <3>u, <4>1, <4>4
        <5>3. Len(objects[u]) = IF status[u] = "running" /\ u \notin stuck THEN 1 ELSE 0
          BY <1>5, <4>1
        <5> QED
          BY <5>1, <5>2, <5>3
      <4> QED
        BY <4>2, <4>3, <4>4
    <3>10. /\ Fed(st, objs, lost) /\ Exact(st, objs, lost, Excused({}))
           /\ status' = st /\ objects' = objs /\ stuck' = lost
      BY <3>1, <3>8, <3>9 DEF Fed, Exact, SetTable
    <3>11. /\ lastID' \in Nat /\ lastID' = lastID /\ lastID' >= lastID
           /\ asked' \in Tasks \cup {NoTask} /\ (asked' # NoTask => asked' <= lastID')
           /\ {} \subseteq Tasks \cap (1 .. lastID')
      BY <1>t, <2>0 DEF IdsInTurn
    <3> QED
      BY <2>0, <3>2, <3>3, <3>7, <3>10, <3>11, <3>l, Handing
  <2>2. CASE ~(status[up] = "running" /\ status[low] = "waiting")
    <3>1. PICK rows : NoSchedule(rows, status, objects)
      BY <1>10, <2>2 DEF OnMove
    <3> QED
      BY <1>2, <1>4, <1>e, <1>f, <1>t, <2>0, <3>1
  <2> QED
    BY <2>1, <2>2
<1>11. ASSUME NEW t \in Tasks, AskReload(t) PROVE IInv'
  <2>1. t <= lastID
    BY <1>0, <1>4, <1>11, <1>t DEF AskReload, Selected
  <2>2. UNCHANGED <<lastID, status, objects, stuck, requeued>> /\ asked' = t
    BY <1>11 DEF AskReload, table
  <2> QED
    BY <2>1, <2>2 DEF Typed, IdsInTurn, Ghosts, Fed, OneObjectEach
<1>12. ASSUME NEW yes \in BOOLEAN, OnReloadFile(yes) PROVE IInv'
  <2>1. CASE yes /\ ~dangling
    <3>1. /\ asked \in Tasks /\ asked <= lastID /\ asked' = NoTask
          /\ UNCHANGED lastID /\ Requeue({asked})
          /\ ScheduleTask(order, [status EXCEPT ![asked] = "waiting"], objects)
      BY <1>12, <2>1 DEF OnReloadFile, IdsInTurn
    <3> DEFINE st == [status EXCEPT ![asked] = "waiting"]
    <3>2. st \in [Tasks -> Statuses] /\ {asked} \subseteq Tasks \cap (1 .. lastID)
      BY <1>0, <1>t, <3>1 DEF Statuses, Tasks
    <3>3. \A u \in Tasks : u > lastID => st[u] = "none"
      BY <1>0, <1>4, <1>t, <3>1
    <3>4. Fed(st, objects, stuck)
      BY <1>f, <1>t, <3>1 DEF Fed
    <3>5. ASSUME NEW u \in Tasks \ Excused({asked})
          PROVE  Len(objects[u]) = IF st[u] = "running" /\ u \notin stuck THEN 1 ELSE 0
      <4>1. CASE u = asked
        <5>1. objects[u] = << >> /\ st[u] = "waiting"
          BY <1>t, <3>5, <4>1 DEF Excused
        <5> QED
          BY <5>1, EmptySeq
      <4>2. CASE u # asked
        BY <1>5, <1>t, <4>2 DEF Excused
      <4> QED
        BY <4>1, <4>2
    <3>6. Exact(st, objects, stuck, Excused({asked}))
      BY <3>5 DEF Exact
    <3>7. ScheduleTask(order, st, objects)
      BY <3>1
    <3> HIDE DEF st
    <3> QED
      BY <1>2, <1>t, <3>1, <3>2, <3>3, <3>4, <3>6, <3>7
  <2>2. CASE yes /\ dangling
    <3>1. /\ asked' = NoTask /\ UNCHANGED lastID /\ Requeue({})
          /\ ScheduleTask(order, status, objects) /\ {} \subseteq Tasks \cap (1 .. lastID)
      BY <1>12, <2>2 DEF OnReloadFile
    <3> QED
      BY <1>2, <1>4, <1>e, <1>f, <1>t, <3>1
  <2>3. CASE ~yes
    BY <1>12, <1>v, <2>3 DEF OnReloadFile, table
  <2> QED
    BY <2>1, <2>2, <2>3
<1>13. CASE StartAllTask
  <2> DEFINE st == [t \in Tasks |-> IF status[t] = "pause" THEN "waiting"
                                    ELSE status[t]]
  <2>1. /\ ScheduleTask(order, st, objects) /\ UNCHANGED <<lastID, asked>>
        /\ Requeue({}) /\ {} \subseteq Tasks \cap (1 .. lastID)
    BY <1>13 DEF StartAllTask, reload
  <2>2. st \in [Tasks -> Statuses]
    BY <1>t DEF Statuses
  <2>3. \A u \in Tasks : u > lastID => st[u] = "none"
    BY <1>4, <1>t
  <2>4. Fed(st, objects, stuck) /\ Exact(st, objects, stuck, Excused({}))
    BY <1>5, <1>f, <1>t DEF Fed, Exact, Excused
  <2> HIDE DEF st
  <2> QED
    BY <1>2, <1>t, <2>1, <2>2, <2>3, <2>4
<1>14. ASSUME NEW lates \in SUBSET Tasks, StopAllTask(lates) PROVE IInv'
  <2> DEFINE st == [t \in Tasks |-> IF status[t] \in {"running", "waiting"}
                                    THEN "pause" ELSE status[t]]
             objs == [t \in Tasks |-> << >>]
  <2>1. /\ NoSchedule(order, st, objs) /\ UNCHANGED <<lastID, asked>>
        /\ Requeue({}) /\ {} \subseteq Tasks \cap (1 .. lastID)
    BY <1>14 DEF StopAllTask, reload
  <2>2. st \in [Tasks -> Statuses] /\ objs \in [Tasks -> Seq(Object)]
    BY <1>t, EmptySeq DEF Statuses
  <2>3. \A u \in Tasks : u > lastID => st[u] = "none"
    BY <1>4, <1>t
  <2>4. Fed(st, objs, stuck) /\ Exact(st, objs, stuck, Excused({}))
    BY <1>t, EmptySeq DEF Fed, Exact
  <2> HIDE DEF st, objs
  <2> QED
    BY <1>2, <2>1, <2>2, <2>3, <2>4
<1>15. ASSUME NEW n \in Limits, OnConfig(n) PROVE IInv'
  BY <1>15, <1>v DEF OnConfig, table, reload
<1>16. ASSUME NEW t \in Tasks, NEW i \in DOMAIN objects[t],
              \/ PostEvent(t, i)
              \/ \E end \in {"finish", "error"} : SetResult(t, i, end)
       PROVE  IInv'
  <2>1. PICK o \in Object : objects' = [objects EXCEPT ![t] = [@ EXCEPT ![i] = o]]
    <3>1. objects[t][i] \in Object
      BY <1>t, ElementOfSeq
    <3>2. CASE PostEvent(t, i)
      <4>1. [objects[t][i] EXCEPT !.due = FALSE] \in Object
        BY <3>1 DEF Object
      <4> QED
        BY <3>2, <4>1 DEF PostEvent
    <3>3. ASSUME NEW end \in {"finish", "error"}, SetResult(t, i, end)
          PROVE  [status |-> end, due |-> TRUE] \in Object
      BY DEF Object
    <3> QED
      BY <1>16, <3>2, <3>3 DEF SetResult
  <2>2. /\ [objects[t] EXCEPT ![i] = o] \in Seq(Object)
        /\ Len([objects[t] EXCEPT ![i] = o]) = Len(objects[t])
    BY <1>t, ExceptSeq
  <2>3. UNCHANGED <<lastID, status, stuck, requeued, asked>>
    BY <1>16 DEF PostEvent, SetResult, reload
  <2>4. /\ objects' \in [Tasks -> Seq(Object)]
        /\ \A u \in Tasks : Len(objects'[u]) = Len(objects[u])
    BY <1>t, <2>1, <2>2
  <2>5. \A u \in Tasks : objects'[u] = << >> <=> objects[u] = << >>
    BY <1>t, <2>4, NoObject
  <2>6. Ghosts' /\ Fed(status, objects, stuck)'
    <3>1. requeued \subseteq Tasks
      BY DEF Ghosts
    <3> QED
      BY <1>f, <1>g, <1>t, <2>3, <2>5, <3>1 DEF Ghosts, Fed
  <2>7. OneObjectEach'
    BY <1>5, <2>3, <2>4 DEF OneObjectEach
  <2> QED
    BY <2>3, <2>4, <2>6, <2>7 DEF Typed, IdsInTurn
<1>17. ASSUME NEW t \in Tasks, NEW late \in BOOLEAN, OnTaskFinish(t, late)
       PROVE  IInv'
  <2>0. UNCHANGED <<lastID, asked>>
    BY <1>17 DEF OnTaskFinish, reload
  <2>1. CASE t \in ToSet(order) /\ GetTaskStatus(t) \in {"finish", "error"}
    <3>1. PICK end \in {"finish", "wrong"} :
            ScheduleTask(order, [status EXCEPT ![t] = end], RemoveTask(objects, t))
      BY <1>17, <2>1 DEF OnTaskFinish, End
    <3>0. Requeue({}) /\ {} \subseteq Tasks \cap (1 .. lastID)
      BY <1>17, <2>1 DEF OnTaskFinish
    <3> DEFINE st == [status EXCEPT ![t] = end]
               objs == RemoveTask(objects, t)
    <3>2. st \in [Tasks -> Statuses] /\ st[t] = end
      BY <1>t DEF Statuses
    <3>3. objects[t] # << >>
      BY <2>1 DEF GetTaskStatus
    <3>4. t \notin requeued => status[t] = "running"
      <4>1. objects[t] \in Seq(Object)
        BY <1>t
      <4>2. Len(objects[t]) # 0
        BY <3>3, <4>1, EmptySeq
      <4> QED
        BY <1>5, <4>2
    <3>5. \A u \in Tasks : u > lastID => st[u] = "none"
      BY <1>4, <1>t, <3>4
    <3>6. /\ objs \in [Tasks -> Seq(Object)]
          /\ \A u \in Tasks \ {t} : objs[u] = objects[u]
          /\ Len(objects[t]) \in {0, 1} => Len(objs[t]) = 0
      BY <1>t, Removing
    <3>s. \A u \in Tasks \ {t} : st[u] = status[u]
      BY <1>t
    <3>8. ScheduleTask(order, st, objs)
      BY <3>1
    <3> HIDE DEF st, objs
    <3>7. Fed(st, objs, stuck) /\ Exact(st, objs, stuck, Excused({}))
      BY <1>5, <1>f, <3>2, <3>6, <3>s DEF Fed, Exact, Excused
    <3> QED
      BY <1>2, <2>0, <3>0, <3>2, <3>5, <3>6, <3>7, <3>8
  <2>2. CASE ~(t \in ToSet(order) /\ GetTaskStatus(t) \in {"finish", "error"})
    BY <1>17, <1>v, <2>0, <2>2 DEF OnTaskFinish, table
  <2> QED
    BY <2>1, <2>2
<1>18. CASE UNCHANGED vars
  BY <1>18, <1>v DEF vars, table, reload
<1> QED
  BY <1>1, <1>s, <1>w, <1>x, <1>8, <1>9, <1>10, <1>11, <1>12, <1>13, <1>14,
     <1>15, <1>16, <1>17, <1>18 DEF Next

(* The inductive invariant holds of every reachable state. *)
LEMMA Invariance == Spec => []IInv
BY InitIInv, NextIInv, PTL DEF Spec

(* Through any interleaving of clicks in the lists or at the root of the   *)
(* tree, tray commands, refused threads, ends of tasks and late events, a  *)
(* task is shown as running if and only if exactly one object runs it:     *)
(* except as long as the object of a task that was queued again while it   *)
(* ran is there, and for the tasks shown as running whose thread was       *)
(* refused, which have none.                                               *)
THEOREM OneObject == Spec => []OneObjectEach
<1>1. IInv => OneObjectEach
  BY DEF IInv
<1> QED
  BY <1>1, Invariance, PTL
-----------------------------------------------------------------------------
(* A table of rows for these statuses: a task has one row, unless its      *)
(* status is "none".                                                       *)
Table(rows, st) ==
  /\ rows \in Seq(Tasks)
  /\ \A i, j \in DOMAIN rows : rows[i] = rows[j] => i = j
  /\ \A t \in Tasks : st[t] # "none" <=> \E i \in DOMAIN rows : rows[i] = t

(* The table is one, also for the task the user is asked about. *)
Rows == Table(order, status) /\ (asked # NoTask => status[asked] # "none")

(* A new task gets a row of its own. *)
LEMMA Entered ==
  ASSUME NEW rows, NEW st, Table(rows, st), NEW t \in Tasks, st[t] = "none",
         NEW st2, st2[t] # "none", \A u \in Tasks \ {t} : st2[u] = st[u]
  PROVE  Table(Append(rows, t), st2)
<1> DEFINE a == Append(rows, t)
<1>1. rows \in Seq(Tasks) /\ Len(rows) \in Nat /\ DOMAIN rows = 1 .. Len(rows)
  BY DEF Table
<1>2. /\ a \in Seq(Tasks) /\ DOMAIN a = 1 .. Len(rows) + 1
      /\ a[Len(rows) + 1] = t /\ \A i \in DOMAIN rows : a[i] = rows[i]
  BY <1>1, AppendProperties
<1>3. \A i : i \in DOMAIN a <=> i \in DOMAIN rows \/ i = Len(rows) + 1
  BY <1>1, <1>2
<1>4. \A i \in DOMAIN rows : rows[i] # t
  BY DEF Table
<1> HIDE DEF a
<1>5. \A i, j \in DOMAIN a : a[i] = a[j] => i = j
  BY <1>2, <1>3, <1>4 DEF Table
<1>6. \A u \in Tasks : st2[u] # "none" <=> \E i \in DOMAIN a : a[i] = u
  BY <1>2, <1>3, <1>4 DEF Table
<1> QED
  BY <1>2, <1>5, <1>6 DEF Table, a

(* A row that is erased is gone. *)
LEMMA Erased ==
  ASSUME NEW rows, NEW st, Table(rows, st), NEW k \in DOMAIN rows,
         NEW st2, st2[rows[k]] = "none",
         \A u \in Tasks \ {rows[k]} : st2[u] = st[u]
  PROVE  Table(RemoveAt(rows, k), st2)
<1> DEFINE n == Len(rows)
           a == RemoveAt(rows, k)
<1>1. /\ rows \in Seq(Tasks) /\ n \in Nat /\ DOMAIN rows = 1 .. n
      /\ k \in 1 .. n /\ \A i \in 1 .. n : rows[i] \in Tasks
  BY DEF Table
<1>2. /\ a \in Seq(Tasks) /\ Len(a) = n - 1
      /\ \A i \in 1 .. n - 1 : a[i] = IF i < k THEN rows[i] ELSE rows[i + 1]
  <2> DEFINE x == SubSeq(rows, 1, k - 1)
             y == SubSeq(rows, k + 1, n)
  <2>1. /\ x \in Seq(Tasks) /\ Len(x) = k - 1
        /\ \A i \in 1 .. k - 1 : x[i] = rows[i]
    BY <1>1, SubSeqProperties
  <2>2. /\ y \in Seq(Tasks) /\ Len(y) = n - k
        /\ \A i \in 1 .. n - k : y[i] = rows[k + i]
    <3>1. CASE k = n
      BY <1>1, <3>1, SubSeqProperties
    <3>2. CASE k < n
      BY <1>1, <3>2, SubSeqProperties
    <3> QED
      BY <1>1, <3>1, <3>2
  <2>3. a = x \o y
    BY DEF RemoveAt
  <2> HIDE DEF x, y
  <2>4. x \in Seq(Tasks) /\ y \in Seq(Tasks)
    BY <2>1, <2>2
  <2>5. /\ a \in Seq(Tasks) /\ Len(a) = Len(x) + Len(y)
        /\ \A i \in 1 .. Len(x) + Len(y) :
             a[i] = IF i <= Len(x) THEN x[i] ELSE y[i - Len(x)]
    <3>1. /\ x \o y \in Seq(Tasks) /\ Len(x \o y) = Len(x) + Len(y)
          /\ \A i \in 1 .. Len(x) + Len(y) :
               (x \o y)[i] = IF i <= Len(x) THEN x[i] ELSE y[i - Len(x)]
      BY <2>4, ConcatProperties
    <3> HIDE DEF a
    <3> QED
      BY <2>3, <3>1, Zenon
  <2> HIDE DEF a
  <2>6. Len(x) + Len(y) = n - 1
    BY <1>1, <2>1, <2>2
  <2>7. ASSUME NEW i \in 1 .. n - 1
        PROVE  a[i] = IF i < k THEN rows[i] ELSE rows[i + 1]
    <3>1. a[i] = IF i <= k - 1 THEN x[i] ELSE y[i - (k - 1)]
      BY <2>1, <2>5, <2>6
    <3>2. CASE i < k
      BY <1>1, <2>1, <3>1, <3>2
    <3>3. CASE ~(i < k)
      <4>0. n \in Nat /\ k \in Nat /\ i \in Nat /\ k <= i /\ i <= n - 1
        BY <1>1, <3>3
      <4>1. i - (k - 1) \in 1 .. n - k /\ k + (i - (k - 1)) = i + 1
        BY <4>0
      <4>2. ~(i <= k - 1)
        BY <4>0
      <4>3. a[i] = y[i - (k - 1)]
        BY <3>1, <4>2, Zenon
      <4>4. y[i - (k - 1)] = rows[k + (i - (k - 1))]
        BY <2>2, <4>1, Zenon
      <4> QED
        BY <3>3, <4>1, <4>3, <4>4, Zenon
    <3> QED
      BY <3>2, <3>3
  <2> QED
    BY <2>5, <2>6, <2>7
<1> HIDE DEF a
<1>3. DOMAIN a = 1 .. n - 1
  BY <1>1, <1>2
<1>4. \A i, j \in 1 .. n : rows[i] = rows[j] => i = j
  BY <1>1 DEF Table
<1>5. \A i, j \in DOMAIN a : a[i] = a[j] => i = j
  BY <1>1, <1>2, <1>3, <1>4
<1>6. ASSUME NEW u \in Tasks
      PROVE  st2[u] # "none" <=> \E i \in DOMAIN a : a[i] = u
  <2>1. st[u] # "none" <=> \E i \in 1 .. n : rows[i] = u
    BY <1>1 DEF Table
  <2>2. st2[u] # "none" <=> \E i \in 1 .. n : rows[i] = u /\ i # k
    BY <1>1, <1>4, <2>1
  <2>3. ASSUME NEW i \in 1 .. n, rows[i] = u, i # k
        PROVE  \E j \in DOMAIN a : a[j] = u
    <3>1. CASE i < k
      <4>1. i \in 1 .. n - 1 /\ a[i] = rows[i]
        BY <1>1, <1>2, <3>1
      <4> QED
        BY <1>3, <2>3, <4>1
    <3>2. CASE i > k
      <4>1. i - 1 \in 1 .. n - 1 /\ a[i - 1] = rows[i]
        BY <1>1, <1>2, <3>2
      <4> QED
        BY <1>3, <2>3, <4>1
    <3> QED
      BY <1>1, <2>3, <3>1, <3>2
  <2>4. ASSUME NEW j \in DOMAIN a, a[j] = u
        PROVE  \E i \in 1 .. n : rows[i] = u /\ i # k
    <3>1. j \in 1 .. n /\ j + 1 \in 1 .. n /\ j \in 1 .. n - 1
      BY <1>1, <1>3
    <3>2. CASE j < k
      BY <1>1, <1>2, <2>4, <3>1, <3>2
    <3>3. CASE j >= k
      BY <1>1, <1>2, <2>4, <3>1, <3>3
    <3> QED
      BY <1>1, <3>1, <3>2, <3>3
  <2> QED
    BY <2>2, <2>3, <2>4
<1> QED
  BY <1>2, <1>5, <1>6 DEF Table, a

(* Rows that change places are still rows. *)
LEMMA Exchanged ==
  ASSUME NEW rows, NEW st, Table(rows, st), NEW i \in DOMAIN rows,
         NEW j \in DOMAIN rows
  PROVE  Table([rows EXCEPT ![i] = rows[j], ![j] = rows[i]], st)
<1> DEFINE a == [rows EXCEPT ![i] = rows[j], ![j] = rows[i]]
<1>1. /\ rows \in Seq(Tasks) /\ DOMAIN rows = 1 .. Len(rows) /\ Len(rows) \in Nat
      /\ \A k \in DOMAIN rows : rows[k] \in Tasks
  BY DEF Table
<1>2. /\ DOMAIN a = DOMAIN rows
      /\ \A k \in DOMAIN rows :
           a[k] = IF k = j THEN rows[i] ELSE IF k = i THEN rows[j] ELSE rows[k]
  BY <1>1
<1>3. a \in Seq(Tasks)
  <2>1. /\ [rows EXCEPT ![i] = rows[j]] \in Seq(Tasks)
        /\ DOMAIN [rows EXCEPT ![i] = rows[j]] = DOMAIN rows
    BY <1>1, ExceptSeq
  <2> QED
    BY <1>1, <2>1, ExceptSeq
<1> HIDE DEF a
<1>4. \A k, l \in DOMAIN a : a[k] = a[l] => k = l
  BY <1>2 DEF Table
<1>5. \A u \in Tasks : (\E k \in DOMAIN a : a[k] = u) <=> \E k \in DOMAIN rows : rows[k] = u
  BY <1>2
<1> QED
  BY <1>3, <1>4, <1>5 DEF Table, a

(* ScheduleTask, or none, enters and erases no row. *)
LEMMA Unmoved ==
  ASSUME NEW rows, NEW st \in [Tasks -> Statuses], NEW objs, Table(rows, st),
         \/ ScheduleTask(rows, st, objs) \/ NoSchedule(rows, st, objs)
         \/ \E lost : SetTable(rows, st, objs, lost)
  PROVE  /\ Table(order', status')
         /\ \A t \in Tasks : status'[t] = "none" <=> st[t] = "none"
<1>1. order' = rows
  BY DEF ScheduleTask, NoSchedule, SetTable
<1>2. \A t \in Tasks : status'[t] = "none" <=> st[t] = "none"
  <2>1. CASE ScheduleTask(rows, st, objs)
    <3>1. PICK fails : status' = [t \in Tasks |->
            IF t \in Chosen(rows, st, objs, fails) THEN "running" ELSE st[t]]
      BY <2>1 DEF ScheduleTask, SetTable
    <3> DEFINE go == Chosen(rows, st, objs, fails)
    <3>2. \A t \in go : st[t] = "waiting"
      BY DEF Chosen, Candidates
    <3>3. status' = [t \in Tasks |-> IF t \in go THEN "running" ELSE st[t]]
      BY <3>1
    <3> HIDE DEF go
    <3> QED
      BY <3>2, <3>3
  <2>2. CASE status' = st
    BY <2>2
  <2> QED
    BY <2>1, <2>2 DEF NoSchedule, SetTable
<1> QED
  BY <1>1, <1>2 DEF Table

(* Initially there is no row. *)
LEMMA InitRows == Init => Rows
<1> SUFFICES ASSUME Init PROVE Rows
  OBVIOUS
<1>1. order = << >> /\ << >> \in Seq(Tasks) /\ DOMAIN << >> = {}
  BY EmptySeq DEF Init
<1>2. \A t \in Tasks : status[t] = "none"
  BY DEF Init
<1> QED
  BY <1>1, <1>2 DEF Init, Rows, Table

(* Every handler keeps the rows. *)
LEMMA NextRows == IInv /\ Rows /\ [Next]_vars => Rows'
<1> SUFFICES ASSUME IInv, Rows, [Next]_vars PROVE Rows'
  OBVIOUS
<1>t. /\ lastID \in Nat /\ status \in [Tasks -> Statuses]
      /\ objects \in [Tasks -> Seq(Object)] /\ asked \in Tasks \cup {NoTask}
      /\ \A t \in Tasks : t \in Nat /\ t # NoTask
  BY TaskTableAssumption DEF IInv, Typed, IdsInTurn, Tasks, NoTask
<1>r. Table(order, status) /\ (asked # NoTask => status[asked] # "none")
  BY DEF Rows
<1>1. ASSUME NEW rows, NEW st \in [Tasks -> Statuses], NEW objs,
             \/ ScheduleTask(rows, st, objs) \/ NoSchedule(rows, st, objs)
             \/ \E lost : SetTable(rows, st, objs, lost),
             Table(rows, st),
             asked' # NoTask => asked' \in Tasks /\ st[asked'] # "none"
      PROVE  Rows'
  <2>1. /\ Table(order', status')
        /\ \A t \in Tasks : status'[t] = "none" <=> st[t] = "none"
    BY <1>1, Unmoved
  <2>2. Table(order', status') <=> Table(order, status)'
    BY DEF Table
  <2> QED
    BY <1>1, <2>1, <2>2 DEF Rows
<1>2. ASSUME NEW rows, NEW st \in [Tasks -> Statuses], NEW objs,
             \/ ScheduleTask(rows, st, objs) \/ NoSchedule(rows, st, objs)
             \/ \E lost : SetTable(rows, st, objs, lost),
             Table(rows, status), asked' \in {asked, NoTask},
             \A t \in Tasks : st[t] = "none" <=> status[t] = "none"
      PROVE  Rows'
  <2>1. Table(rows, st)
    BY <1>2 DEF Table
  <2>2. asked' # NoTask => asked' \in Tasks /\ st[asked'] # "none"
    BY <1>2, <1>t, <1>r
  <2> QED
    BY <1>1, <1>2, <2>1, <2>2
<1>3. ASSUME NEW run \in BOOLEAN, NEW moves \in BOOLEAN, NewTask(run, moves)
      PROVE  Rows'
  <2> DEFINE t == lastID + 1
             st == [status EXCEPT ![t] = IF run THEN "waiting" ELSE "pause"]
  <2>1. /\ t \in Tasks /\ asked' = asked
        /\ ScheduleTask(Append(order, t), st, objects)
    BY <1>3 DEF NewTask
  <2>2. /\ st \in [Tasks -> Statuses] /\ status[t] = "none" /\ st[t] # "none"
        /\ \A u \in Tasks \ {t} : st[u] = status[u]
    BY <1>t, <2>1 DEF Statuses, IInv, IdsInTurn
  <2>4. asked' # NoTask => asked' \in Tasks /\ st[asked'] # "none"
    BY <1>t, <1>r, <2>1, <2>2
  <2> HIDE DEF st, t
  <2>3. Table(Append(order, t), st)
    BY <1>r, <2>1, <2>2, Entered
  <2> QED
    BY <1>1, <2>1, <2>2, <2>3, <2>4
<1>4. ASSUME NEW t \in Tasks, NEW to \in Statuses \ {"none"}, status[t] # "none"
      PROVE  /\ [status EXCEPT ![t] = to] \in [Tasks -> Statuses]
             /\ \A u \in Tasks :
                  [status EXCEPT ![t] = to][u] = "none" <=> status[u] = "none"
  BY <1>t, <1>4
<1>5. ASSUME NEW t \in Tasks, OnStartTask(t) PROVE Rows'
  <2> DEFINE st == [status EXCEPT ![t] = "waiting"]
  <2>1. ScheduleTask(order, st, objects) /\ status[t] # "none" /\ asked' = asked
    BY <1>5 DEF OnStartTask, Selected, reload
  <2>2. /\ st \in [Tasks -> Statuses]
        /\ \A u \in Tasks : st[u] = "none" <=> status[u] = "none"
    BY <1>4, <2>1 DEF Statuses
  <2> HIDE DEF st
  <2> QED
    BY <1>2, <1>r, <2>1, <2>2
<1>6. ASSUME NEW t \in Tasks, NEW late \in BOOLEAN,
             OnStopTask(t, late) \/ OnCancelTask(t, late)
      PROVE  Rows'
  <2>1. PICK to \in {"pause", "delete", Paused(t)} :
          \/ ScheduleTask(order, [status EXCEPT ![t] = to], Stopped(t))
          \/ NoSchedule(order, [status EXCEPT ![t] = to], Stopped(t))
    BY <1>6 DEF OnStopTask, OnCancelTask
  <2>2. status[t] # "none" /\ asked' = asked
    BY <1>6 DEF OnStopTask, OnCancelTask, Selected, reload
  <2> DEFINE st == [status EXCEPT ![t] = to]
             objs == Stopped(t)
  <2>3. /\ st \in [Tasks -> Statuses]
        /\ \A u \in Tasks : st[u] = "none" <=> status[u] = "none"
    <3>1. to \in Statuses \ {"none"}
      BY <1>t, <2>2 DEF Statuses, Paused
    <3> QED
      BY <1>4, <2>2, <3>1
  <2>4. ScheduleTask(order, st, objs) \/ NoSchedule(order, st, objs)
    BY <2>1
  <2> HIDE DEF st, objs
  <2> QED
    BY <1>2, <1>r, <2>2, <2>3, <2>4
<1>7. ASSUME NEW t \in Tasks, DeleteTask(t) PROVE Rows'
  <2> DEFINE st == [status EXCEPT ![t] = "none"]
             k == Row(t)
  <2>1. /\ NoSchedule(RemoveAt(order, k), st, objects) /\ status[t] = "delete"
        /\ asked' = NoTask
    BY <1>7 DEF DeleteTask, Selected, reload
  <2>2. k \in DOMAIN order /\ order[k] = t
    <3>1. \E i \in DOMAIN order : order[i] = t
      BY <1>r, <2>1 DEF Table
    <3> QED
      BY <3>1 DEF Row
  <2>3. /\ st \in [Tasks -> Statuses] /\ st[t] = "none"
        /\ \A u \in Tasks \ {t} : st[u] = status[u]
    BY <1>t DEF Statuses
  <2> HIDE DEF st, k
  <2>4. Table(RemoveAt(order, k), st)
    BY <1>r, <2>2, <2>3, Erased
  <2> QED
    BY <1>1, <2>1, <2>3, <2>4
<1>8. ASSUME NEW i \in DOMAIN order, NEW j \in DOMAIN order,
             NEW late \in BOOLEAN, NEW fails \in SUBSET (Refused \cap {order[j]}),
             OnMove(i, j, late, fails)
      PROVE  Rows'
  <2> DEFINE up == order[i]
             low == order[j]
             rows == [order EXCEPT ![i] = low, ![j] = up]
             st == [status EXCEPT ![up] = "waiting", ![low] = "running"]
             objs == AddTask(RemoveTask(objects, up), low, fails)
  <2>1. Table(rows, status)
    BY <1>r, Exchanged
  <2>2. /\ asked' = asked
        /\ \/ /\ status[up] = "running" /\ status[low] = "waiting"
              /\ SetTable(rows, st, objs, (stuck \ {up, low}) \cup fails)
           \/ NoSchedule(rows, status, objects)
    BY <1>8 DEF OnMove, reload
  <2>3. CASE status[up] = "running" /\ status[low] = "waiting"
             /\ SetTable(rows, st, objs, (stuck \ {up, low}) \cup fails)
    <3>1. /\ st \in [Tasks -> Statuses]
          /\ \A u \in Tasks : st[u] = "none" <=> status[u] = "none"
      BY <1>t, <2>3 DEF Statuses
    <3> HIDE DEF st, rows, objs
    <3> QED
      BY <1>2, <2>1, <2>2, <2>3, <3>1
  <2>4. CASE NoSchedule(rows, status, objects)
    <3> HIDE DEF rows
    <3> QED
      BY <1>2, <1>t, <2>1, <2>2, <2>4
  <2> QED
    BY <2>2, <2>3, <2>4
<1>9. ASSUME NEW t \in Tasks, AskReload(t) PROVE Rows'
  <2>1. asked' = t /\ UNCHANGED <<order, status>> /\ status[t] # "none"
    BY <1>9 DEF AskReload, Selected, table
  <2> QED
    BY <1>r, <2>1 DEF Rows, Table
<1>10. ASSUME NEW yes \in BOOLEAN, OnReloadFile(yes) PROVE Rows'
  <2>1. CASE yes /\ ~dangling
    <3> DEFINE st == [status EXCEPT ![asked] = "waiting"]
    <3>1. asked # NoTask /\ asked' = NoTask /\ ScheduleTask(order, st, objects)
      BY <1>10, <2>1 DEF OnReloadFile
    <3>2. /\ st \in [Tasks -> Statuses]
          /\ \A u \in Tasks : st[u] = "none" <=> status[u] = "none"
      BY <1>4, <1>r, <1>t, <3>1 DEF Statuses
    <3> HIDE DEF st
    <3> QED
      BY <1>2, <1>r, <3>1, <3>2
  <2>2. CASE ~yes
    <3>1. asked' = NoTask /\ UNCHANGED <<order, status>>
      BY <1>10, <2>2 DEF OnReloadFile, table
    <3> QED
      BY <1>r, <3>1 DEF Rows, Table
  <2>3. CASE yes /\ dangling
    <3>1. asked' = NoTask /\ ScheduleTask(order, status, objects)
      BY <1>10, <2>3 DEF OnReloadFile
    <3> QED
      BY <1>2, <1>r, <1>t, <3>1
  <2> QED
    BY <2>1, <2>2, <2>3
<1>11. CASE StartAllTask
  <2> DEFINE st == [t \in Tasks |-> IF status[t] = "pause" THEN "waiting"
                                    ELSE status[t]]
  <2>1. ScheduleTask(order, st, objects) /\ asked' = asked
    BY <1>11 DEF StartAllTask, reload
  <2>2. /\ st \in [Tasks -> Statuses]
        /\ \A u \in Tasks : st[u] = "none" <=> status[u] = "none"
    BY <1>t DEF Statuses
  <2> HIDE DEF st
  <2> QED
    BY <1>2, <1>r, <2>1, <2>2
<1>12. ASSUME NEW lates \in SUBSET Tasks, StopAllTask(lates) PROVE Rows'
  <2> DEFINE st == [t \in Tasks |-> IF status[t] \in {"running", "waiting"}
                                    THEN "pause" ELSE status[t]]
             objs == [t \in Tasks |-> << >>]
  <2>1. NoSchedule(order, st, objs) /\ asked' = asked
    BY <1>12 DEF StopAllTask, reload
  <2>2. /\ st \in [Tasks -> Statuses]
        /\ \A u \in Tasks : st[u] = "none" <=> status[u] = "none"
    BY <1>t DEF Statuses
  <2> HIDE DEF st, objs
  <2> QED
    BY <1>2, <1>r, <2>1, <2>2
<1>13. ASSUME NEW t \in Tasks, NEW late \in BOOLEAN, OnTaskFinish(t, late)
       PROVE  Rows'
  <2>1. CASE t \in ToSet(order) /\ GetTaskStatus(t) \in {"finish", "error"}
    <3>1. PICK end \in {"finish", "wrong"} :
            ScheduleTask(order, [status EXCEPT ![t] = end], RemoveTask(objects, t))
      BY <1>13, <2>1 DEF OnTaskFinish, End
    <3> DEFINE st == [status EXCEPT ![t] = end]
               objs == RemoveTask(objects, t)
    <3>2. status[t] # "none" /\ asked' = asked
      BY <1>13, <1>r, <2>1 DEF OnTaskFinish, reload, Table, ToSet
    <3>3. /\ st \in [Tasks -> Statuses]
          /\ \A u \in Tasks : st[u] = "none" <=> status[u] = "none"
      BY <1>4, <3>2 DEF Statuses
    <3>4. ScheduleTask(order, st, objs)
      BY <3>1
    <3> HIDE DEF st, objs
    <3> QED
      BY <1>2, <1>r, <3>2, <3>3, <3>4
  <2>2. CASE ~(t \in ToSet(order) /\ GetTaskStatus(t) \in {"finish", "error"})
    <3>1. UNCHANGED <<order, status, asked>>
      BY <1>13, <2>2 DEF OnTaskFinish, table, reload
    <3> QED
      BY <1>r, <3>1 DEF Rows, Table
  <2> QED
    BY <2>1, <2>2
<1>14. ASSUME UNCHANGED <<order, status, asked>> PROVE Rows'
  BY <1>14, <1>r DEF Rows, Table
<1>15. ASSUME NEW n \in Limits, OnConfig(n) PROVE Rows'
  BY <1>14, <1>15 DEF OnConfig, table, reload
<1>16. ASSUME NEW t \in Tasks, NEW i \in DOMAIN objects[t],
              \/ PostEvent(t, i)
              \/ \E end \in {"finish", "error"} : SetResult(t, i, end)
       PROVE  Rows'
  BY <1>14, <1>16 DEF PostEvent, SetResult, reload
<1>17. CASE UNCHANGED vars
  BY <1>14, <1>17 DEF vars, table, reload
<1>18. ASSUME NEW t \in Tasks, ViewRoot(t) PROVE Rows'
  BY <1>14, <1>18 DEF ViewRoot, table, reload
<1>19. CASE LeaveRoot
  BY <1>14, <1>19 DEF LeaveRoot, table, reload
<1> QED
  BY <1>3, <1>5, <1>6, <1>7, <1>8, <1>9, <1>10, <1>11, <1>12, <1>13, <1>15,
     <1>16, <1>17, <1>18, <1>19 DEF Next

(* No task has two rows, and only a task with a row has a status. *)
LEMMA RowsInvariance == Spec => [](IInv /\ Rows)
<1>1. Init => Rows
  BY InitRows
<1>2. IInv /\ Rows /\ [Next]_vars => Rows'
  BY NextRows
<1> QED
  BY <1>1, <1>2, Invariance, PTL DEF Spec
-----------------------------------------------------------------------------
(* An object that has ended is still to be reported. *)
Told(objs, ev, but) ==
  \A t \in Tasks \ but : \A i \in DOMAIN objs[t] :
    objs[t][i].status # "running" => objs[t][i].due \/ ev[t] > 0

Reporting ==
  /\ events \in [Tasks -> Nat]
  /\ Told(objects, events, requeued)

(* The object that a task gets is new, and has not ended. *)
LEMMA Handed ==
  ASSUME NEW rows, NEW st \in [Tasks -> Statuses],
         NEW objs \in [Tasks -> Seq(Object)],
         \/ ScheduleTask(rows, st, objs) \/ NoSchedule(rows, st, objs)
         \/ \E lost : SetTable(rows, st, objs, lost),
         NEW ev, NEW but, Told(objs, ev, but)
  PROVE  Told(objects', ev, but)
<1>1. CASE ScheduleTask(rows, st, objs)
  <2>1. PICK fails : objects' = [t \in Tasks |->
          IF t \in Chosen(rows, st, objs, fails) \ fails THEN <<NewObject>> ELSE objs[t]]
    BY <1>1 DEF ScheduleTask, SetTable
  <2> DEFINE go == Chosen(rows, st, objs, fails) \ fails
  <2>2. objects' = [t \in Tasks |-> IF t \in go THEN <<NewObject>> ELSE objs[t]]
    BY <2>1
  <2>3. /\ <<NewObject>> # << >> /\ DOMAIN <<NewObject>> = {1}
        /\ <<NewObject>>[1].status = "running"
    BY DEF NewObject
  <2> HIDE DEF go
  <2>5. ASSUME NEW t \in Tasks \ but, NEW i \in DOMAIN objects'[t],
               objects'[t][i].status # "running"
        PROVE  objects'[t][i].due \/ ev[t] > 0
    <3>1. CASE t \in go
      BY <2>2, <2>3, <2>5, <3>1
    <3>2. CASE t \notin go
      BY <2>2, <2>5, <3>2 DEF Told
    <3> QED
      BY <3>1, <3>2
  <2> QED
    BY <2>5 DEF Told
<1>2. CASE objects' = objs
  BY <1>2
<1> QED
  BY <1>1, <1>2 DEF NoSchedule, SetTable

(* A removed object posts one event at most. *)
LEMMA PostedFew ==
  ASSUME NEW t, NEW late
  PROVE  Posted(t, late) \in {0, 1}
  BY DEF Posted

(* Initially nothing runs. *)
LEMMA InitReporting == Init => Reporting
  BY EmptySeq DEF Init, Reporting, Told

(* Every handler, and every step of the threads of a task, keeps the       *)
(* reports to come.                                                        *)
LEMMA NextReporting == IInv /\ Rows /\ Reporting /\ [Next]_vars => Reporting'
<1> SUFFICES ASSUME IInv, Rows, Reporting, [Next]_vars PROVE Reporting'
  OBVIOUS
<1>t. /\ lastID \in Nat /\ status \in [Tasks -> Statuses]
      /\ objects \in [Tasks -> Seq(Object)] /\ asked \in Tasks \cup {NoTask}
      /\ \A t \in Tasks : t \in Nat /\ t # NoTask
  BY TaskTableAssumption DEF IInv, Typed, IdsInTurn, Tasks, NoTask
<1>e. events \in [Tasks -> Nat] /\ Told(objects, events, requeued)
  BY DEF Reporting
<1>o. /\ \A t \in Tasks \ requeued :
           Len(objects[t]) = IF status[t] = "running" /\ t \notin stuck THEN 1 ELSE 0
      /\ \A t \in Tasks : objects[t] \in Seq(Object)
  BY <1>t DEF IInv, OneObjectEach
<1>1. ASSUME NEW rows, NEW st \in [Tasks -> Statuses],
             NEW objs \in [Tasks -> Seq(Object)],
             \/ ScheduleTask(rows, st, objs) \/ NoSchedule(rows, st, objs)
             \/ \E lost : SetTable(rows, st, objs, lost),
             NEW again, Requeue(again),
             events' \in [Tasks -> Nat], Told(objs, events', requeued)
      PROVE  Reporting'
  <2>1. Told(objects', events', requeued)
    BY <1>1, Handed
  <2>2. \A t \in Tasks : t \in requeued /\ t \notin requeued' => objects'[t] = << >>
    BY <1>1 DEF Requeue, IInv, Ghosts
  <2>3. Told(objects', events', requeued')
    <3>1. DOMAIN << >> = {}
      OBVIOUS
    <3> QED
      BY <2>1, <2>2, <3>1 DEF Told
  <2> QED
    BY <1>1, <2>3 DEF Reporting, Told
(* Events only come, and objects of tasks that were not requeued stay or go. *)
<1>2. ASSUME NEW objs \in [Tasks -> Seq(Object)], events' \in [Tasks -> Nat],
             \A t \in Tasks \ requeued :
               \/ objs[t] = << >>
               \/ objs[t] = objects[t] /\ events'[t] >= events[t]
      PROVE  Told(objs, events', requeued)
  <2>1. ASSUME NEW t \in Tasks \ requeued, NEW i \in DOMAIN objs[t],
               objs[t][i].status # "running"
        PROVE  objs[t][i].due \/ events'[t] > 0
    <3>1. CASE objs[t] = << >>
      BY <2>1, <3>1, NoObject
    <3>2. CASE objs[t] = objects[t] /\ events'[t] >= events[t]
      <4>1. objs[t][i].due \/ events[t] > 0
        BY <1>2, <1>e, <2>1, <3>2 DEF Told
      <4>2. events'[t] \in Nat /\ events[t] \in Nat
        BY <1>2, <1>e
      <4> QED
        BY <3>2, <4>1, <4>2
    <3> QED
      BY <1>2, <3>1, <3>2
  <2> QED
    BY <2>1 DEF Told
<1>3. ASSUME NEW rows, NEW st \in [Tasks -> Statuses],
             ScheduleTask(rows, st, objects) \/ NoSchedule(rows, st, objects),
             NEW again, Requeue(again), UNCHANGED events
      PROVE  Reporting'
  <2>1. events' \in [Tasks -> Nat] /\ \A t \in Tasks : events'[t] >= events[t]
    BY <1>3, <1>e
  <2>2. Told(objects, events', requeued)
    BY <1>2, <1>3, <1>t, <2>1
  <2> QED
    BY <1>1, <1>3, <1>t, <2>1, <2>2
(* What a removal leaves of a task that was not requeued: nothing. *)
<1>4. ASSUME NEW t \in Tasks, status[t] = "running" \/ t \notin requeued
      PROVE  /\ RemoveTask(objects, t) \in [Tasks -> Seq(Object)]
             /\ \A u \in Tasks \ {t} : RemoveTask(objects, t)[u] = objects[u]
             /\ t \notin requeued => RemoveTask(objects, t)[t] = << >>
  <2>1. /\ RemoveTask(objects, t) \in [Tasks -> Seq(Object)]
        /\ \A u \in Tasks \ {t} : RemoveTask(objects, t)[u] = objects[u]
        /\ Len(objects[t]) \in {0, 1} => Len(RemoveTask(objects, t)[t]) = 0
    BY <1>t, Removing
  <2>2. ASSUME t \notin requeued
        PROVE  RemoveTask(objects, t)[t] = << >>
    <3>1. CASE Len(objects[t]) = 1
      BY <2>1, <3>1, NoObject
    <3>2. CASE Len(objects[t]) = 0
      BY <1>o, <3>2, NoObject DEF RemoveTask
    <3> QED
      BY <1>o, <2>2, <3>1, <3>2
  <2> QED
    BY <2>1, <2>2
<1>5. ASSUME NEW run \in BOOLEAN, NEW moves \in BOOLEAN, NewTask(run, moves)
      PROVE  Reporting'
  <2> DEFINE t == lastID + 1
             st == [status EXCEPT ![t] = IF run THEN "waiting" ELSE "pause"]
             rows == Append(order, t)
  <2>1. UNCHANGED events /\ Requeue({}) /\ ScheduleTask(rows, st, objects)
    BY <1>5 DEF NewTask
  <2>2. st \in [Tasks -> Statuses]
    BY <1>t DEF Statuses
  <2> HIDE DEF st, rows
  <2> QED
    BY <1>3, <2>1, <2>2
<1>6. ASSUME NEW t \in Tasks, OnStartTask(t) PROVE Reporting'
  <2> DEFINE st == [status EXCEPT ![t] = "waiting"]
  <2>1. UNCHANGED events /\ Requeue({t}) /\ ScheduleTask(order, st, objects)
    BY <1>6 DEF OnStartTask
  <2>2. st \in [Tasks -> Statuses]
    BY <1>t DEF Statuses
  <2> HIDE DEF st
  <2> QED
    BY <1>3, <2>1, <2>2
<1>7. ASSUME NEW t \in Tasks, NEW late \in BOOLEAN,
             OnStopTask(t, late) \/ OnCancelTask(t, late)
      PROVE  Reporting'
  <2>1. PICK to \in {"pause", "delete", Paused(t)} :
          \/ ScheduleTask(order, [status EXCEPT ![t] = to], Stopped(t))
          \/ NoSchedule(order, [status EXCEPT ![t] = to], Stopped(t))
    BY <1>7 DEF OnStopTask, OnCancelTask
  <2>2. Requeue({}) /\ StopEvents(t, late)
    BY <1>7 DEF OnStopTask, OnCancelTask
  <2> DEFINE st == [status EXCEPT ![t] = to]
             objs == Stopped(t)
  <2>3. st \in [Tasks -> Statuses]
    BY <1>t DEF Statuses, Paused
  <2>4. /\ objs \in [Tasks -> Seq(Object)]
        /\ \A u \in Tasks \ {t} : objs[u] = objects[u]
        /\ t \notin requeued => objs[t] = << >>
    <3>1. CASE status[t] = "running"
      BY <1>4, <3>1 DEF Stopped
    <3>2. CASE status[t] # "running"
      <4>1. objs = objects
        BY <3>2 DEF Stopped
      <4>2. t \notin requeued => Len(objects[t]) = 0
        BY <1>o, <3>2
      <4>3. t \notin requeued => objects[t] = << >>
        BY <1>o, <4>2, NoObject
      <4> QED
        BY <1>t, <4>1, <4>3
    <3> QED
      BY <3>1, <3>2
  <2>5. /\ events' \in [Tasks -> Nat]
        /\ \A u \in Tasks \ {t} : events'[u] = events[u]
    <3>1. (IF status[t] = "running" THEN Posted(t, late) ELSE 0) \in {0, 1}
      BY PostedFew
    <3> QED
      BY <1>e, <2>2, <3>1 DEF StopEvents
  <2>6. ScheduleTask(order, st, objs) \/ NoSchedule(order, st, objs)
    BY <2>1
  <2> HIDE DEF st, objs
  <2>8. \A u \in Tasks \ {t} : events'[u] >= events[u]
    BY <1>e, <2>5
  <2>9. Told(objs, events', requeued)
    BY <1>2, <2>4, <2>5, <2>8
  <2> QED
    BY <1>1, <2>2, <2>3, <2>4, <2>5, <2>6, <2>9
<1>8. ASSUME NEW t \in Tasks, DeleteTask(t) PROVE Reporting'
  <2> DEFINE st == [status EXCEPT ![t] = "none"]
             rows == RemoveAt(order, Row(t))
  <2>1. UNCHANGED events /\ Requeue({}) /\ NoSchedule(rows, st, objects)
    BY <1>8 DEF DeleteTask
  <2>2. st \in [Tasks -> Statuses]
    BY <1>t DEF Statuses
  <2> HIDE DEF st, rows
  <2> QED
    BY <1>3, <2>1, <2>2
<1>9. ASSUME NEW i \in DOMAIN order, NEW j \in DOMAIN order,
             NEW late \in BOOLEAN, NEW fails \in SUBSET (Refused \cap {order[j]}),
             OnMove(i, j, late, fails)
      PROVE  Reporting'
  <2> DEFINE up == order[i]
             low == order[j]
             rows == [order EXCEPT ![i] = low, ![j] = up]
             st == [status EXCEPT ![up] = "waiting", ![low] = "running"]
             less == RemoveTask(objects, up)
             objs == AddTask(less, low, fails)
             lost == (stuck \ {up, low}) \cup fails
  <2>0. up \in Tasks /\ low \in Tasks /\ Requeue({})
    BY <1>9 DEF Rows, Table, OnMove
  <2>1. \/ /\ status[up] = "running" /\ status[low] = "waiting"
           /\ SetTable(rows, st, objs, lost)
           /\ events' = [events EXCEPT ![up] = @ + Posted(up, late)]
        \/ NoSchedule(rows, status, objects) /\ events' = events
    BY <1>9 DEF OnMove
  <2>2. CASE /\ status[up] = "running" /\ status[low] = "waiting"
             /\ SetTable(rows, st, objs, lost)
             /\ events' = [events EXCEPT ![up] = @ + Posted(up, late)]
    <3>1. /\ st \in [Tasks -> Statuses] /\ st[up] = "waiting" /\ up # low
          /\ st[low] = "running" /\ \A u \in Tasks \ {up, low} : st[u] = status[u]
      BY <1>t, <2>0, <2>2 DEF Statuses
    <3>2. /\ less \in [Tasks -> Seq(Object)]
          /\ \A u \in Tasks \ {up} : less[u] = objects[u]
          /\ up \notin requeued => less[up] = << >>
      BY <1>4, <2>0, <2>2
    <3>3. low \notin requeued => less[low] = << >>
      <4>1. low \notin requeued => Len(objects[low]) = 0
        BY <1>o, <2>0, <2>2
      <4> QED
        BY <1>o, <2>0, <3>1, <3>2, <4>1, NoObject
    <3>4. /\ events' \in [Tasks -> Nat]
          /\ \A u \in Tasks \ {up} : events'[u] >= events[u]
      BY <1>e, <2>0, <2>2, PostedFew
    <3>5. NewObject \in Object
      BY DEF NewObject, Object
    <3> HIDE DEF less
    <3>6. /\ objs \in [Tasks -> Seq(Object)] /\ objs[low] \in {less[low], Append(less[low], NewObject)}
          /\ \A u \in Tasks \ {low} : objs[u] = less[u]
      <4>1. Append(less[low], NewObject) \in Seq(Object)
        BY <2>0, <3>2, <3>5, AppendProperties
      <4> QED
        BY <2>0, <3>2, <4>1 DEF AddTask
    <3>7. SetTable(rows, st, objs, lost)
      BY <2>2 DEF less
    <3> HIDE DEF objs, st, rows, up, low, lost
    <3>9. ASSUME NEW u \in Tasks \ requeued, NEW k \in DOMAIN objs[u],
                 objs[u][k].status # "running"
          PROVE  objs[u][k].due \/ events'[u] > 0
      <4>1. CASE u = low
        <5>1. less[low] = << >> /\ less[low] \in Seq(Object) /\ Len(less[low]) = 0
          BY <2>0, <3>2, <3>3, <4>1, NoObject
        <5>2. /\ Len(Append(less[low], NewObject)) = 1
              /\ Append(less[low], NewObject)[1] = NewObject
              /\ Append(less[low], NewObject) \in Seq(Object)
          BY <3>5, <5>1, AppendProperties
        <5>4. objs[u] # << >>
          BY <3>6, <3>9, <4>1, NoObject
        <5>3. k = 1 /\ objs[u][k] = NewObject
          BY <3>6, <3>9, <4>1, <5>1, <5>2, <5>4, NoObject
        <5> QED
          BY <3>9, <5>3 DEF NewObject
      <4>2. CASE u = up
        <5>1. objs[u] = << >>
          BY <2>0, <3>1, <3>2, <3>6, <3>9, <4>2
        <5> QED
          BY <3>9, <5>1, NoObject
      <4>3. CASE u # up /\ u # low
        <5>1. objs[u] = objects[u] /\ u \notin requeued
          BY <2>0, <3>2, <3>6, <4>3
        <5>2. objs[u][k].due \/ events[u] > 0
          BY <1>e, <3>9, <5>1 DEF Told
        <5>3. events'[u] >= events[u] /\ events'[u] \in Nat /\ events[u] \in Nat
          BY <1>e, <3>4, <4>3
        <5> QED
          BY <5>2, <5>3
      <4> QED
        BY <4>1, <4>2, <4>3
    <3>10. Told(objs, events', requeued)
      BY <3>9 DEF Told
    <3> QED
      BY <1>1, <2>0, <3>1, <3>4, <3>6, <3>7, <3>10
  <2>3. CASE NoSchedule(rows, status, objects) /\ events' = events
    <3> HIDE DEF rows
    <3> QED
      BY <1>3, <1>t, <2>0, <2>3
  <2> QED
    BY <2>1, <2>2, <2>3
<1>10. ASSUME NEW yes \in BOOLEAN, OnReloadFile(yes) PROVE Reporting'
  <2>1. CASE yes /\ ~dangling
    <3> DEFINE st == [status EXCEPT ![asked] = "waiting"]
    <3>1. /\ UNCHANGED events /\ Requeue({asked})
          /\ ScheduleTask(order, st, objects)
      BY <1>10, <2>1 DEF OnReloadFile
    <3>2. st \in [Tasks -> Statuses]
      BY <1>t DEF Statuses
    <3> HIDE DEF st
    <3> QED
      BY <1>3, <3>1, <3>2
  <2>2. CASE ~yes
    <3>1. UNCHANGED <<events, objects, requeued>>
      BY <1>10, <2>2 DEF OnReloadFile, table
    <3> QED
      BY <3>1 DEF Reporting, Told
  <2>3. CASE yes /\ dangling
    <3>1. /\ UNCHANGED events /\ Requeue({})
          /\ ScheduleTask(order, status, objects)
      BY <1>10, <2>3 DEF OnReloadFile
    <3> QED
      BY <1>3, <1>t, <3>1
  <2> QED
    BY <2>1, <2>2, <2>3
<1>11. CASE StartAllTask
  <2> DEFINE st == [t \in Tasks |-> IF status[t] = "pause" THEN "waiting"
                                    ELSE status[t]]
  <2>1. UNCHANGED events /\ Requeue({}) /\ ScheduleTask(order, st, objects)
    BY <1>11 DEF StartAllTask
  <2>2. st \in [Tasks -> Statuses]
    BY <1>t DEF Statuses
  <2> HIDE DEF st
  <2> QED
    BY <1>3, <2>1, <2>2
<1>12. ASSUME NEW lates \in SUBSET Tasks, StopAllTask(lates) PROVE Reporting'
  <2> DEFINE st == [t \in Tasks |-> IF status[t] \in {"running", "waiting"}
                                    THEN "pause" ELSE status[t]]
             objs == [t \in Tasks |-> << >>]
             Due(t) == {i \in DOMAIN objects[t] : objects[t][i].due}
  <2>1. /\ NoSchedule(order, st, objs)
        /\ events' = [t \in Tasks |-> events[t] +
                        (IF t \in lates THEN Cardinality(Due(t)) ELSE 0)]
        /\ Requeue({})
    BY <1>12 DEF StopAllTask
  <2>2. /\ st \in [Tasks -> Statuses]
        /\ objs \in [Tasks -> Seq(Object)] /\ \A u \in Tasks : objs[u] = << >>
    BY <1>t, EmptySeq DEF Statuses
  <2>3. ASSUME NEW u \in Tasks
        PROVE  events[u] + (IF u \in lates THEN Cardinality(Due(u)) ELSE 0) \in Nat
    <3>1. IsFiniteSet(DOMAIN objects[u])
      BY <1>o, NoObject, FS_Interval
    <3>2. Cardinality(Due(u)) \in Nat
      BY <3>1, FS_Subset, FS_CardinalityType
    <3> HIDE DEF Due
    <3> QED
      BY <1>e, <3>2
  <2>4. events' \in [Tasks -> Nat]
    BY <2>1, <2>3
  <2> HIDE DEF st, objs, Due
  <2>5. Told(objs, events', requeued)
    BY <1>2, <2>2, <2>4
  <2> QED
    BY <1>1, <2>1, <2>2, <2>4, <2>5
<1>13. ASSUME NEW t \in Tasks, NEW i \in DOMAIN objects[t],
              \/ PostEvent(t, i)
              \/ \E end \in {"finish", "error"} : SetResult(t, i, end)
       PROVE  Reporting'
  <2>0. UNCHANGED requeued
    BY <1>13 DEF PostEvent, SetResult, reload
  <2>1. PICK o : /\ objects' = [objects EXCEPT ![t] = [@ EXCEPT ![i] = o]]
                 /\ events' \in [Tasks -> Nat] /\ (o.due \/ events'[t] > 0)
                 /\ \A u \in Tasks : events'[u] >= events[u]
    <3>1. CASE PostEvent(t, i)
      <4> DEFINE o == [objects[t][i] EXCEPT !.due = FALSE]
      <4>1. objects' = [objects EXCEPT ![t] = [@ EXCEPT ![i] = o]]
        BY <3>1 DEF PostEvent
      <4>2. /\ events' \in [Tasks -> Nat] /\ events'[t] > 0
            /\ \A u \in Tasks : events'[u] >= events[u]
        BY <1>e, <3>1 DEF PostEvent
      <4> HIDE DEF o
      <4> QED
        BY <4>1, <4>2
    <3>2. ASSUME NEW end \in {"finish", "error"}, SetResult(t, i, end)
          PROVE  \E o : /\ objects' = [objects EXCEPT ![t] = [@ EXCEPT ![i] = o]]
                        /\ events' \in [Tasks -> Nat] /\ (o.due \/ events'[t] > 0)
                        /\ \A u \in Tasks : events'[u] >= events[u]
      <4> DEFINE o == [status |-> end, due |-> TRUE]
      <4>1. objects' = [objects EXCEPT ![t] = [@ EXCEPT ![i] = o]] /\ o.due
        BY <3>2 DEF SetResult
      <4>2. events' \in [Tasks -> Nat] /\ \A u \in Tasks : events'[u] >= events[u]
        BY <1>e, <3>2 DEF SetResult
      <4> HIDE DEF o
      <4> QED
        BY <4>1, <4>2
    <3> QED
      BY <1>13, <3>1, <3>2
  <2>2. /\ \A u \in Tasks : DOMAIN objects'[u] = DOMAIN objects[u]
        /\ objects'[t][i] = o
        /\ \A u \in Tasks : \A k \in DOMAIN objects[u] :
             u # t \/ k # i => objects'[u][k] = objects[u][k]
    BY <1>o, <1>t, <2>1
  <2>3. ASSUME NEW u \in Tasks \ requeued', NEW k \in DOMAIN objects'[u],
               objects'[u][k].status # "running"
        PROVE  objects'[u][k].due \/ events'[u] > 0
    <3>1. CASE u = t /\ k = i
      BY <2>1, <2>2, <3>1
    <3>2. CASE u # t \/ k # i
      <4>1. objects[u][k].due \/ events[u] > 0
        BY <1>e, <2>0, <2>2, <2>3, <3>2 DEF Told
      <4>2. events'[u] >= events[u] /\ events'[u] \in Nat /\ events[u] \in Nat
        BY <1>e, <2>1
      <4> QED
        BY <2>2, <3>2, <4>1, <4>2
    <3> QED
      BY <3>1, <3>2
  <2>5. Told(objects', events', requeued')
    BY <2>3 DEF Told
  <2> QED
    BY <2>1, <2>5 DEF Reporting, Told
<1>14. ASSUME NEW t \in Tasks, NEW late \in BOOLEAN, OnTaskFinish(t, late)
       PROVE  Reporting'
  <2>0. events[t] > 0
    BY <1>14 DEF OnTaskFinish
  <2>1. CASE t \in ToSet(order) /\ GetTaskStatus(t) \in {"finish", "error"}
    <3>1. PICK end \in {"finish", "wrong"} :
            ScheduleTask(order, [status EXCEPT ![t] = end], RemoveTask(objects, t))
      BY <1>14, <2>1 DEF OnTaskFinish, End
    <3> DEFINE st == [status EXCEPT ![t] = end]
               objs == RemoveTask(objects, t)
    <3>2. events' = [events EXCEPT ![t] = @ - 1 + Posted(t, late)] /\ Requeue({})
      BY <1>14, <2>1 DEF OnTaskFinish
    <3>3. /\ events' \in [Tasks -> Nat]
          /\ \A u \in Tasks \ {t} : events'[u] >= events[u]
      BY <1>e, <2>0, <3>2, PostedFew
    <3>4. st \in [Tasks -> Statuses]
      BY <1>t DEF Statuses
    <3>5. /\ objs \in [Tasks -> Seq(Object)]
          /\ \A u \in Tasks \ {t} : objs[u] = objects[u]
          /\ t \notin requeued => objs[t] = << >>
      <4>1. CASE t \notin requeued
        BY <1>4, <4>1
      <4>2. CASE t \in requeued
        BY <1>t, <4>2, Removing
      <4> QED
        BY <4>1, <4>2
    <3>6. ScheduleTask(order, st, objs)
      BY <3>1
    <3> HIDE DEF st, objs
    <3>8. Told(objs, events', requeued)
      BY <1>2, <3>3, <3>5
    <3> QED
      BY <1>1, <3>2, <3>3, <3>4, <3>5, <3>6, <3>8
  <2>2. CASE ~(t \in ToSet(order) /\ GetTaskStatus(t) \in {"finish", "error"})
    <3>1. /\ UNCHANGED <<objects, requeued>>
          /\ events' = [events EXCEPT ![t] = @ - 1 + 0]
      BY <1>14, <2>2 DEF OnTaskFinish, table
    <3>2. /\ events' \in [Tasks -> Nat]
          /\ \A u \in Tasks \ {t} : events'[u] = events[u]
      BY <1>e, <2>0, <3>1
    <3>3. ASSUME t \notin requeued, NEW i \in DOMAIN objects[t]
          PROVE  objects[t][i].status = "running"
      <4>0. /\ Len(objects[t]) = IF status[t] = "running" /\ t \notin stuck THEN 1 ELSE 0
            /\ DOMAIN objects[t] = 1 .. Len(objects[t])
        BY <1>o, <3>3, NoObject
      <4>1. Len(objects[t]) = 1 /\ status[t] = "running" /\ i = 1
        BY <3>3, <4>0
      <4>2. t \in ToSet(order)
        BY <4>1 DEF Rows, Table, ToSet
      <4>3. objects[t][1] \in Object /\ objects[t] # << >>
        BY <1>o, <4>1, ElementOfSeq, NoObject
      <4>4. GetTaskStatus(t) = objects[t][1].status
        BY <1>o, <4>3 DEF GetTaskStatus
      <4> QED
        BY <2>2, <4>1, <4>2, <4>3, <4>4 DEF Object
    <3>4. ASSUME NEW u \in Tasks \ requeued, NEW k \in DOMAIN objects[u],
                 objects[u][k].status # "running"
          PROVE  objects[u][k].due \/ events'[u] > 0
      <4>1. u # t
        BY <3>3, <3>4
      <4> QED
        BY <1>e, <3>2, <3>4, <4>1 DEF Told
    <3>5. Told(objects, events', requeued)
      BY <3>4 DEF Told
    <3> QED
      BY <1>e, <3>1, <3>2, <3>5 DEF Reporting, Told
  <2> QED
    BY <2>1, <2>2
<1>15. ASSUME UNCHANGED <<events, objects, requeued>> PROVE Reporting'
  BY <1>15 DEF Reporting, Told
<1>16. ASSUME NEW t \in Tasks, AskReload(t) \/ ViewRoot(t) PROVE Reporting'
  BY <1>15, <1>16 DEF AskReload, ViewRoot, table
<1>17. ASSUME NEW n \in Limits, OnConfig(n) PROVE Reporting'
  BY <1>15, <1>17 DEF OnConfig, table
<1>18. CASE UNCHANGED vars \/ LeaveRoot
  BY <1>15, <1>18 DEF vars, table, LeaveRoot
<1> QED
  BY <1>5, <1>6, <1>7, <1>8, <1>9, <1>10, <1>11, <1>12, <1>13, <1>14, <1>16,
     <1>17, <1>18 DEF Next

(* Rows and reports hold of every reachable state. *)
LEMMA Reports == Spec => [](IInv /\ Rows /\ Reporting)
<1>1. Init => Reporting
  BY InitReporting
<1>2. IInv /\ Rows /\ Reporting /\ [Next]_vars => Reporting'
  BY NextReporting
<1> QED
  BY <1>1, <1>2, RowsInvariance, PTL DEF Spec

(* However late events are, and whatever the user stops, moves or removes  *)
(* in between, an object that has ended is still to be reported.           *)
THEOREM EndsAreReported == Spec => []EndReported
<1>1. Reporting => EndReported
  BY DEF Reporting, Told, EndReported
<1> QED
  BY <1>1, Reports, PTL
-----------------------------------------------------------------------------
(* Every set of natural numbers that is not empty has a least element. *)
LEMMA LeastRow ==
  ASSUME NEW S, S \subseteq Nat, S # {}
  PROVE  \E x \in S : \A y \in S : x <= y
<1> DEFINE R == OpToRel(<, Nat)
<1>1. IsWellFoundedOn(R, Nat)
  BY NatLessThanWellFounded
<1>2. \A x, y \in Nat : y < x => <<y, x>> \in R
  BY DEF OpToRel
<1> HIDE DEF R
<1>3. PICK x \in S : \A y \in S : ~(<<y, x>> \in R)
  BY <1>1, WFMin
<1>4. \A y \in S : ~(y < x) /\ x \in Nat /\ y \in Nat
  BY <1>2, <1>3
<1> QED
  BY <1>4

(* Of candidates with growing ranks, those whose rank is below lim - n are *)
(* never more than lim - n.                                                *)
LEMMA RanksFit ==
  ASSUME NEW can, can \subseteq Nat, NEW rank \in [can -> Nat],
         \A j, k \in can : j < k => rank[j] < rank[k],
         NEW n \in Nat, NEW lim \in Nat, NEW got, got \subseteq can,
         IsFiniteSet(got), \A k \in got : n + rank[k] < lim, got # {}
  PROVE  n + Cardinality(got) <= lim
<1>1. Cardinality(got) \in Nat
  BY FS_CardinalityType
<1>2. PICK k \in got : TRUE
  OBVIOUS
<1>3. rank[k] \in Nat /\ n + rank[k] < lim
  BY <1>2
<1>4. lim - n \in Nat /\ lim - n >= 1
  BY <1>3
<1> DEFINE f == [i \in got |-> rank[i] + 1]
           Slot == 1 .. lim - n
<1>5. ASSUME NEW i \in got PROVE rank[i] + 1 \in Slot
  <2>1. rank[i] \in Nat /\ n + rank[i] < lim
    OBVIOUS
  <2> QED
    BY <2>1
<1>6. ASSUME NEW i \in got, NEW j \in got, f[i] = f[j]
      PROVE  i = j
  <2>1. rank[i] \in Nat /\ rank[j] \in Nat /\ i \in Nat /\ j \in Nat
    OBVIOUS
  <2>2. rank[i] = rank[j]
    BY <1>6, <2>1
  <2>3. ~(i < j) /\ ~(j < i)
    BY <2>1, <2>2
  <2> QED
    BY <2>1, <2>3
<1>7. f \in Injection(got, Slot)
  <2>1. f \in [got -> Slot]
    BY <1>5
  <2> HIDE DEF f, Slot
  <2> QED
    BY <1>6, <2>1 DEF Injection, IsInjective
<1>8. IsFiniteSet(Slot) /\ Cardinality(Slot) = lim - n
  BY <1>4, FS_Interval
<1> HIDE DEF f, Slot
<1>9. Cardinality(got) <= Cardinality(Slot)
  BY <1>7, <1>8, FS_Injection
<1> QED
  BY <1>1, <1>4, <1>8, <1>9

(* The candidates with less than lim - n before them: never more than the  *)
(* free slots, and as many when a candidate is left over.                  *)
LEMMA FirstOnes ==
  ASSUME NEW can, can \subseteq Nat, IsFiniteSet(can), NEW n \in Nat, NEW lim \in Nat,
         NEW Earlier, \A k \in can : Earlier[k] \subseteq can,
         \A j, k \in can : j \in Earlier[k] <=> j < k,
         NEW got, got \subseteq can,
         \A k \in can : k \in got <=> n + Cardinality(Earlier[k]) < lim
  PROVE  /\ IsFiniteSet(got) /\ Cardinality(got) \in Nat
         /\ got # {} => n + Cardinality(got) <= lim
         /\ got # can => n + Cardinality(got) >= lim
<1> DEFINE rank == [k \in can |-> Cardinality(Earlier[k])]
<1>1. got \subseteq can /\ IsFiniteSet(got) /\ Cardinality(got) \in Nat
  BY FS_Subset, FS_CardinalityType
<1>2. \A k \in can : k \in got <=> n + rank[k] < lim
  OBVIOUS
<1>3. /\ \A j, k \in can : j \in Earlier[k] <=> j < k
      /\ \A k \in can : Earlier[k] \subseteq can
  OBVIOUS
<1>4. \A k \in can : rank[k] = Cardinality(Earlier[k])
  OBVIOUS
<1>5. DOMAIN rank = can /\ rank = [k \in can |-> rank[k]]
  OBVIOUS
<1> HIDE DEF rank
<1>6. \A k \in can : IsFiniteSet(Earlier[k]) /\ rank[k] \in Nat
  BY <1>3, <1>4, FS_Subset, FS_CardinalityType
<1>7. ASSUME NEW j \in can, NEW k \in can, j < k
      PROVE  rank[j] < rank[k]
  <2>1. \A i \in can : i < j => i < k
    BY <1>7
  <2>2. Earlier[j] \subseteq Earlier[k]
    BY <1>3, <2>1
  <2>3. j \in Earlier[k] /\ j \notin Earlier[j]
    <3>1. j \in Nat /\ ~(j < j)
      OBVIOUS
    <3> QED
      BY <1>3, <1>7, <3>1
  <2>4. Cardinality(Earlier[j]) <= Cardinality(Earlier[k])
    BY <1>6, <2>2, FS_Subset
  <2>5. Cardinality(Earlier[j]) # Cardinality(Earlier[k])
    BY <1>6, <2>2, <2>3, FS_Subset
  <2> QED
    BY <1>4, <1>6, <2>4, <2>5
<1>8. rank \in [can -> Nat]
  BY <1>5, <1>6
<1>9. got # {} => n + Cardinality(got) <= lim
  BY <1>1, <1>2, <1>7, <1>8, RanksFit
<1>10. ASSUME got # can
       PROVE  n + Cardinality(got) >= lim
  <2>1. can \ got # {} /\ can \ got \subseteq Nat
    BY <1>1, <1>10
  <2>2. PICK i \in can \ got : \A j \in can \ got : i <= j
    BY <2>1, LeastRow
  <2>3. i \in can /\ ~(n + rank[i] < lim) /\ rank[i] \in Nat
    BY <1>2, <1>6
  <2>4. ASSUME NEW j \in Earlier[i] PROVE j \in got
    <3>1. j \in can /\ j < i /\ j \in Nat /\ i \in Nat
      BY <1>3, <2>3
    <3>2. ~(i <= j)
      BY <3>1
    <3> QED
      BY <2>2, <3>1, <3>2
  <2>5. Earlier[i] \in SUBSET got
    BY <2>4
  <2>6. Cardinality(Earlier[i]) <= Cardinality(got)
    BY <1>1, <2>5, FS_Subset
  <2>7. Cardinality(Earlier[i]) = rank[i]
    BY <1>4, <2>3
  <2>8. rank[i] <= Cardinality(got)
    BY <2>6, <2>7
  <2> QED
    BY <1>1, <2>3, <2>8
<1> QED
  BY <1>1, <1>9, <1>10

(* A slot is a task and the place of an object among its objects.          *)
LEMMA SlotsFinite ==
  ASSUME NEW objs \in [Tasks -> Seq(Object)]
  PROVE  /\ IsFiniteSet(Slots(objs)) /\ TaskNumber(objs) \in Nat
         /\ Slots(objs) \subseteq Tasks \X Nat
         /\ \A t \in Tasks, i \in Nat :
              <<t, i>> \in Slots(objs) <=> i \in 1 .. Len(objs[t])
<1>1. \A t \in Tasks : /\ Len(objs[t]) \in Nat
                       /\ DOMAIN objs[t] = 1 .. Len(objs[t])
  OBVIOUS
<1> DEFINE f == [t \in Tasks |-> {t} \X DOMAIN objs[t]]
           All == {{t} \X DOMAIN objs[t] : t \in Tasks}
<1>2. IsFiniteSet(Tasks)
  BY TaskTableAssumption, FS_Interval DEF Tasks
<1>3. f \in Surjection(Tasks, All)
  BY DEF Surjection
<1>4. IsFiniteSet(All)
  BY <1>2, <1>3, FS_Surjection
<1>5. ASSUME NEW T \in All PROVE IsFiniteSet(T)
  <2>1. PICK t \in Tasks : T = {t} \X DOMAIN objs[t]
    OBVIOUS
  <2>2. IsFiniteSet({t}) /\ IsFiniteSet(DOMAIN objs[t])
    <3>1. 1 \in Int /\ Len(objs[t]) \in Int /\ DOMAIN objs[t] = 1 .. Len(objs[t])
      BY <1>1
    <3>2. IsFiniteSet(1 .. Len(objs[t]))
      BY <3>1, FS_Interval
    <3>3. IsFiniteSet({t})
      BY FS_Singleton
    <3> QED
      BY <3>1, <3>2, <3>3
  <2> QED
    BY <2>1, <2>2, FS_Product
<1>6. Slots(objs) = UNION All
  BY DEF Slots
<1>7. IsFiniteSet(UNION All)
  <2> HIDE DEF All
  <2> QED
    BY <1>4, <1>5, FS_UNION
<1>8. IsFiniteSet(Slots(objs)) /\ TaskNumber(objs) \in Nat
  BY <1>6, <1>7, FS_CardinalityType DEF TaskNumber
<1>9. Slots(objs) \subseteq Tasks \X Nat
  BY <1>1 DEF Slots
<1>10. \A t \in Tasks, i \in Nat : <<t, i>> \in Slots(objs) <=> i \in DOMAIN objs[t]
  BY DEF Slots
<1> QED
  BY <1>1, <1>8, <1>9, <1>10

(* A pair has its two parts.                                               *)
LEMMA PairParts ==
  ASSUME NEW P
  PROVE  \A x \in P \X Nat : x[1] \in P /\ x[2] \in Nat /\ x = <<x[1], x[2]>>
OBVIOUS

(* Less objects of every task take fewer slots, the same number as many.   *)
LEMMA FewerSlots ==
  ASSUME NEW objs \in [Tasks -> Seq(Object)], NEW more \in [Tasks -> Seq(Object)],
         \A t \in Tasks : Len(objs[t]) <= Len(more[t])
  PROVE  /\ Slots(objs) \subseteq Slots(more)
         /\ TaskNumber(objs) <= TaskNumber(more)
<1>1. \A t \in Tasks : Len(objs[t]) \in Nat /\ Len(more[t]) \in Nat
  OBVIOUS
<1>2. \A t \in Tasks : \A i \in 1 .. Len(objs[t]) : i \in 1 .. Len(more[t])
  BY <1>1
<1>3. Slots(objs) \subseteq Slots(more)
  BY <1>2, SlotsFinite
<1> QED
  BY <1>3, SlotsFinite, FS_Subset DEF TaskNumber

(* One object more, or less, of a task is one slot more, or less.          *)
LEMMA OneSlot ==
  ASSUME NEW objs \in [Tasks -> Seq(Object)], NEW more \in [Tasks -> Seq(Object)],
         NEW t \in Tasks, Len(more[t]) = Len(objs[t]) + 1,
         \A u \in Tasks \ {t} : Len(more[u]) = Len(objs[u])
  PROVE  TaskNumber(more) = TaskNumber(objs) + 1
<1> DEFINE n == Len(objs[t])
           new == <<t, n + 1>>
<1>1. n \in Nat
  OBVIOUS
<1>2. \A i : i \in 1 .. n + 1 <=> i \in 1 .. n \/ i = n + 1
  BY <1>1
<1>3. n + 1 \notin 1 .. n
  BY <1>1
<1>4. Slots(more) = Slots(objs) \cup {new} /\ new \notin Slots(objs)
  <2>1. /\ Slots(more) \subseteq Tasks \X Nat /\ Slots(objs) \subseteq Tasks \X Nat
        /\ new \in Tasks \X Nat
    BY <1>1, SlotsFinite
  <2>2. /\ \A u \in Tasks, i \in Nat :
             <<u, i>> \in Slots(more) <=> i \in 1 .. Len(more[u])
        /\ \A u \in Tasks, i \in Nat :
             <<u, i>> \in Slots(objs) <=> i \in 1 .. Len(objs[u])
    BY SlotsFinite
  <2>3. new \notin Slots(objs)
    BY <1>1, <1>3, <2>2
  <2>4. ASSUME NEW u \in Tasks, NEW i \in Nat
        PROVE  <<u, i>> \in Slots(more) <=> <<u, i>> \in Slots(objs) \/ <<u, i>> = new
    <3>1. CASE u = t
      BY <1>2, <2>2, <3>1
    <3>2. CASE u # t
      BY <2>2, <3>2
    <3> QED
      BY <3>1, <3>2
  <2> HIDE DEF new
  <2> DEFINE both == Slots(objs) \cup {new}
  <2>5. both \subseteq Tasks \X Nat
    BY <2>1
  <2>6. \A u \in Tasks : \A i \in Nat : <<u, i>> \in Slots(more) <=> <<u, i>> \in both
    BY <2>4
  <2> HIDE DEF both
  <2>7. both \in SUBSET (Tasks \X Nat) /\ Slots(more) \in SUBSET (Tasks \X Nat)
    BY <2>1, <2>5, Zenon
  <2>8. \A x \in Tasks \X Nat : x \in Slots(more) <=> x \in both
    BY <2>6, PairParts
  <2>9. Slots(more) = both
    BY <2>7, <2>8
  <2> QED
    BY <2>3, <2>9 DEF both
<1> HIDE DEF new, n
<1> QED
  BY <1>4, SlotsFinite, FS_AddElement DEF TaskNumber

(* Objects for tasks that had none take a slot each.                       *)
LEMMA NewSlots ==
  ASSUME NEW objs \in [Tasks -> Seq(Object)], NEW go, go \subseteq Tasks,
         \A t \in go : objs[t] = << >>,
         NEW more \in [Tasks -> Seq(Object)],
         \A t \in Tasks : more[t] = IF t \in go THEN <<NewObject>> ELSE objs[t]
  PROVE  /\ IsFiniteSet(go) /\ Cardinality(go) \in Nat
         /\ TaskNumber(more) = TaskNumber(objs) + Cardinality(go)
<1>1. IsFiniteSet(Tasks)
  BY TaskTableAssumption, FS_Interval DEF Tasks
<1>2. IsFiniteSet(go) /\ Cardinality(go) \in Nat
  BY <1>1, FS_Subset, FS_CardinalityType
<1> DEFINE New == {<<t, 1>> : t \in go}
           f == [t \in go |-> <<t, 1>>]
<1>3. f \in Surjection(go, New) /\ f \in Injection(go, New)
  BY DEF Surjection, Injection, IsInjective
<1>4. IsFiniteSet(New) /\ Cardinality(New) = Cardinality(go)
  <2> HIDE DEF f, New
  <2> QED
    BY <1>2, <1>3, FS_Surjection
<1>5. /\ \A t \in go : 1 .. Len(more[t]) = {1} /\ 1 .. Len(objs[t]) = {}
      /\ \A t \in Tasks \ go : more[t] = objs[t]
  <2>1. \A t \in go : more[t] = <<NewObject>> /\ objs[t] = << >>
    OBVIOUS
  <2>2. /\ Len(<<NewObject>>) = 1 /\ Len(<< >>) = 0
        /\ 1 .. 1 = {1} /\ 1 .. 0 = {}
    OBVIOUS
  <2> QED
    BY <2>1, <2>2
<1>6. Slots(more) = Slots(objs) \cup New /\ Slots(objs) \cap New = {}
  <2>0. \A u \in go : u \in Tasks /\ 1 \in Nat
    OBVIOUS
  <2>1. /\ Slots(more) \subseteq Tasks \X Nat /\ Slots(objs) \subseteq Tasks \X Nat
        /\ New \subseteq Tasks \X Nat
    <3>1. New \subseteq Tasks \X Nat
      BY <2>0
    <3> QED
      BY <3>1, SlotsFinite
  <2>2. /\ \A u \in Tasks, i \in Nat :
             <<u, i>> \in Slots(more) <=> i \in 1 .. Len(more[u])
        /\ \A u \in Tasks, i \in Nat :
             <<u, i>> \in Slots(objs) <=> i \in 1 .. Len(objs[u])
    BY SlotsFinite
  <2>3. \A u \in Tasks, i \in Nat : <<u, i>> \in New <=> u \in go /\ i = 1
    OBVIOUS
  <2> HIDE DEF New
  <2>4. ASSUME NEW u \in Tasks, NEW i \in Nat
        PROVE  /\ <<u, i>> \in Slots(more) <=> <<u, i>> \in Slots(objs) \/ <<u, i>> \in New
               /\ ~(<<u, i>> \in Slots(objs) /\ <<u, i>> \in New)
    <3>1. CASE u \in go
      BY <1>5, <2>2, <2>3, <3>1
    <3>2. CASE u \notin go
      BY <1>5, <2>2, <2>3, <3>2
    <3> QED
      BY <3>1, <3>2
  <2> DEFINE both == Slots(objs) \cup New
             none == Slots(objs) \cap New
  <2>5. /\ both \subseteq Tasks \X Nat /\ none \subseteq Tasks \X Nat
    BY <2>1
  <2>6. \A u \in Tasks : \A i \in Nat : <<u, i>> \in Slots(more) <=> <<u, i>> \in both
    BY <2>4
  <2>n. \A u \in Tasks : \A i \in Nat : ~(<<u, i>> \in none)
    BY <2>4
  <2> HIDE DEF both, none
  <2>7. both \in SUBSET (Tasks \X Nat) /\ Slots(more) \in SUBSET (Tasks \X Nat)
    BY <2>1, <2>5
  <2>m. none \in SUBSET (Tasks \X Nat)
    BY <2>5, Zenon
  <2>8. \A x \in Tasks \X Nat :
          (x \in Slots(more) <=> x \in both) /\ ~(x \in none)
    BY <2>6, <2>n, PairParts
  <2>9. Slots(more) = both
    BY <2>7, <2>8
  <2>10. none = {}
    BY <2>m, <2>8
  <2> QED
    BY <2>9, <2>10 DEF both, none
<1> HIDE DEF New
<1>7. /\ IsFiniteSet(Slots(objs)) /\ Cardinality(Slots(objs)) \in Nat
      /\ Cardinality({}) = 0
  BY SlotsFinite, FS_EmptySet DEF TaskNumber
<1>8. Cardinality(Slots(more)) = Cardinality(Slots(objs)) + Cardinality(New)
                                 - Cardinality(Slots(objs) \cap New)
  BY <1>4, <1>6, <1>7, FS_Union
<1>9. Cardinality(Slots(objs) \cap New) = 0
  BY <1>6, <1>7
<1>10. Cardinality(Slots(more)) = Cardinality(Slots(objs)) + Cardinality(go)
  BY <1>2, <1>4, <1>7, <1>8, <1>9
<1> QED
  BY <1>2, <1>10 DEF TaskNumber

(* ScheduleTask starts no task beyond the limit, and leaves a slot free    *)
(* only if no task waits for one.                                          *)
LEMMA Scheduled ==
  ASSUME NEW rows, NEW st \in [Tasks -> Statuses], Table(rows, st),
         NEW objs \in [Tasks -> Seq(Object)], limit \in Nat,
         ScheduleTask(rows, st, objs)
  PROVE  /\ objects' \in [Tasks -> Seq(Object)]
         /\ \/ TaskNumber(objects') = TaskNumber(objs)
            \/ TaskNumber(objects') <= limit
         /\ \/ TaskNumber(objects') >= limit
            \/ \A t \in Tasks : status'[t] # "waiting" \/ objects'[t] # << >>
<1>p. PICK fails \in SUBSET {t \in Refused : st[t] = "waiting"} :
        LET go == Chosen(rows, st, objs, fails)
        IN SetTable(rows,
             [t \in Tasks |-> IF t \in go THEN "running" ELSE st[t]],
             [t \in Tasks |-> IF t \in go \ fails THEN <<NewObject>> ELSE objs[t]],
             Stuck(st) \cup (go \cap fails))
  BY DEF ScheduleTask
<1> DEFINE n == TaskNumber(objs)
           can == Candidates(rows, st, objs)
           able == {j \in can : rows[j] \notin fails}
           Earlier == [k \in can |-> {j \in can : j < k /\ rows[j] \notin fails}]
           got == {k \in can : n + Cardinality(Earlier[k]) < limit}
           new == {k \in able : n + Cardinality(Earlier[k]) < limit}
           go == Chosen(rows, st, objs, fails)
           began == go \ fails
<1>1. /\ rows \in Seq(Tasks) /\ DOMAIN rows = 1 .. Len(rows) /\ Len(rows) \in Nat
      /\ \A i, j \in DOMAIN rows : rows[i] = rows[j] => i = j
      /\ \A t \in Tasks : st[t] # "none" => \E i \in DOMAIN rows : rows[i] = t
      /\ \A i \in DOMAIN rows : rows[i] \in Tasks
  BY DEF Table
<1>2. /\ can \subseteq DOMAIN rows
      /\ \A i \in DOMAIN rows :
           i \in can <=> st[rows[i]] = "waiting" /\ objs[rows[i]] = << >>
  BY DEF Candidates
<1>3. can \subseteq Nat /\ IsFiniteSet(can)
  <2>1. IsFiniteSet(1 .. Len(rows))
    BY <1>1, FS_Interval
  <2>2. can \in SUBSET (1 .. Len(rows))
    BY <1>1, <1>2
  <2>3. \A i \in 1 .. Len(rows) : i \in Nat
    BY <1>1
  <2> HIDE DEF can
  <2> QED
    BY <2>1, <2>2, <2>3, FS_Subset
<1>4. n \in Nat
  BY SlotsFinite
<1>5. go = {rows[i] : i \in got}
  BY DEF Chosen, FreeSlot
<1>6. /\ \A k \in can : Earlier[k] \subseteq able /\ Earlier[k] \subseteq can
      /\ \A k \in can : k \in got <=> n + Cardinality(Earlier[k]) < limit
      /\ \A k \in able : k \in new <=> n + Cardinality(Earlier[k]) < limit
      /\ \A j, k \in able : j \in Earlier[k] <=> j < k
      /\ able \subseteq can /\ new \subseteq able
  OBVIOUS
<1>7. /\ status' = [t \in Tasks |-> IF t \in go THEN "running" ELSE st[t]]
      /\ objects' = [t \in Tasks |-> IF t \in began THEN <<NewObject>> ELSE objs[t]]
  BY <1>p DEF SetTable
<1>8. /\ got \subseteq can
      /\ \A k \in can : k \in new <=> k \in got /\ rows[k] \notin fails
  OBVIOUS
<1>e. began = {rows[i] : i \in new}
  <2>1. began = {rows[i] : i \in got} \ fails
    BY <1>5
  <2> HIDE DEF can, got, go, Earlier, began
  <2>2. \A i \in got : rows[i] \notin fails => i \in new
    BY <1>8
  <2>3. \A i \in new : i \in got /\ rows[i] \notin fails
    BY <1>6, <1>8
  <2> HIDE DEF new
  <2> QED
    BY <2>1, <2>2, <2>3
<1>b. began \subseteq go
  OBVIOUS
<1> HIDE DEF n, can, able, got, new, go, began, Earlier
<1>f. IsFiniteSet(able) /\ able \subseteq Nat
  BY <1>3, <1>6, FS_Subset
<1>9. /\ IsFiniteSet(new) /\ Cardinality(new) \in Nat
      /\ new # {} => n + Cardinality(new) <= limit
      /\ new # able => n + Cardinality(new) >= limit
  <2>1. \A k \in able : Earlier[k] \subseteq able
    BY <1>6
  <2> QED
    BY <1>f, <1>4, <1>6, <2>1, FirstOnes
<1>10. /\ began \subseteq Tasks
       /\ \A t \in began : objs[t] = << >>
  BY <1>1, <1>2, <1>6, <1>e
<1>11. <<NewObject>> \in Seq(Object)
  BY DEF NewObject, Object
<1>12. objects' \in [Tasks -> Seq(Object)]
  BY <1>7, <1>11
<1>13. Cardinality(began) = Cardinality(new)
  <2> DEFINE f == [i \in new |-> rows[i]]
  <2>1. f \in Surjection(new, began)
    BY <1>e DEF Surjection
  <2>2. f \in Injection(new, began)
    BY <1>1, <1>2, <1>6, <1>e DEF Injection, IsInjective
  <2> HIDE DEF f
  <2> QED
    BY <1>9, <2>1, <2>2, FS_Surjection
<1>14. TaskNumber(objects') = n + Cardinality(new)
  <2>1. \A t \in Tasks :
          objects'[t] = IF t \in began THEN <<NewObject>> ELSE objs[t]
    BY <1>7
  <2>2. TaskNumber(objects') = TaskNumber(objs) + Cardinality(began)
    BY <1>10, <1>12, <2>1, NewSlots
  <2> QED
    BY <1>13, <2>2 DEF n
<1>15. new = {} => Cardinality(new) = 0
  BY FS_EmptySet
<1>16. ASSUME NEW t \in Tasks, status'[t] = "waiting", objects'[t] = << >>, new = able
       PROVE  n + Cardinality(new) >= limit
  <2>1. t \notin go /\ st[t] = "waiting" /\ objs[t] = << >>
    BY <1>7, <1>16, <1>b
  <2>2. PICK i \in DOMAIN rows : rows[i] = t
    BY <1>1, <2>1
  <2>3. i \in can /\ ~(n + Cardinality(Earlier[i]) < limit)
    BY <1>2, <1>5, <1>6, <2>1, <2>2
  <2>4. Earlier[i] \in SUBSET new
    BY <1>6, <1>16, <2>3
  <2>5. /\ IsFiniteSet(Earlier[i]) /\ Cardinality(Earlier[i]) <= Cardinality(new)
        /\ Cardinality(Earlier[i]) \in Nat
    BY <1>9, <2>4, FS_Subset, FS_CardinalityType
  <2> QED
    BY <1>4, <1>9, <2>3, <2>5
<1>17. TaskNumber(objects') = n \/ TaskNumber(objects') <= limit
  BY <1>4, <1>9, <1>14, <1>15
<1>18. \/ TaskNumber(objects') >= limit
       \/ \A t \in Tasks : status'[t] # "waiting" \/ objects'[t] # << >>
  BY <1>9, <1>14, <1>16
<1> QED
  BY <1>12, <1>17, <1>18 DEF n
-----------------------------------------------------------------------------
(* What a step can do to the slots.  It schedules, once the handler has    *)
(* taken objects away; or it leaves them alone, and lets no task wait that *)
(* did not; or it takes objects away, and lets no task wait or has a task  *)
(* deleted; or a running and a waiting task change places: their objects   *)
(* do, or the upper had none, or the thread of the lower is refused.       *)
Schedules ==
  \E rows \in Seq(Tasks), st \in [Tasks -> Statuses],
     objs \in [Tasks -> Seq(Object)] :
    /\ Table(rows, st) /\ ScheduleTask(rows, st, objs) /\ UNCHANGED limit
    /\ \A t \in Tasks : Len(objs[t]) <= Len(objects[t])

Keeps ==
  \A t \in Tasks : /\ Len(objects'[t]) = Len(objects[t])
                   /\ status'[t] = "waiting" => status[t] = "waiting"

Leaves ==
  /\ \A t \in Tasks : Len(objects'[t]) <= Len(objects[t])
  /\ \/ \A t \in Tasks : status'[t] # "waiting"
     \/ \E t \in Tasks : status[t] # "delete" /\ status'[t] = "delete"

Swapped(objs, more, up, low) ==
  /\ up # low
  /\ Len(objs[up]) = Len(more[up]) + 1 /\ Len(more[low]) = Len(objs[low]) + 1
  /\ \A u \in Tasks \ {up, low} : Len(more[u]) = Len(objs[u])

Grown(objs, more, low) ==
  /\ Len(more[low]) = Len(objs[low]) + 1
  /\ \A u \in Tasks \ {low} : Len(more[u]) = Len(objs[u])

Exchanges ==
  \E up, low \in Tasks :
    /\ status[up] = "running" /\ status[low] = "waiting"
    /\ UNCHANGED limit /\ order' # order
    /\ \/ Swapped(objects, objects', up, low)
       \/ /\ up \in stuck /\ status'[up] = "waiting"
          /\ Grown(objects, objects', low)
       \/ /\ low \in stuck' \ stuck
          /\ \A u \in Tasks : Len(objects'[u]) <= Len(objects[u])

(* RemoveTask takes one object, if there is one.                           *)
LEMMA OneLess ==
  ASSUME NEW objs \in [Tasks -> Seq(Object)], NEW t \in Tasks
  PROVE  /\ RemoveTask(objs, t) \in [Tasks -> Seq(Object)]
         /\ \A u \in Tasks \ {t} : RemoveTask(objs, t)[u] = objs[u]
         /\ \A u \in Tasks : Len(RemoveTask(objs, t)[u]) <= Len(objs[u])
         /\ objs[t] # << >> => Len(objs[t]) = Len(RemoveTask(objs, t)[t]) + 1
<1>1. /\ RemoveTask(objs, t) \in [Tasks -> Seq(Object)]
      /\ \A u \in Tasks \ {t} : RemoveTask(objs, t)[u] = objs[u]
  BY Removing
<1>2. \A u \in Tasks : Len(objs[u]) \in Nat /\ Len(objs[u]) <= Len(objs[u])
  OBVIOUS
<1>3. CASE objs[t] = << >>
  <2>1. RemoveTask(objs, t) = objs
    BY <1>3 DEF RemoveTask
  <2> QED
    BY <1>1, <1>2, <1>3, <2>1
<1>4. CASE objs[t] # << >>
  <2>1. RemoveTask(objs, t)[t] = Tail(objs[t])
    BY <1>4 DEF RemoveTask
  <2>2. Len(Tail(objs[t])) = Len(objs[t]) - 1
    BY <1>4, HeadTailProperties
  <2>3. \A u \in Tasks : u # t => Len(RemoveTask(objs, t)[u]) = Len(objs[u])
    BY <1>1
  <2>4. /\ Len(RemoveTask(objs, t)[t]) <= Len(objs[t])
        /\ Len(objs[t]) = Len(RemoveTask(objs, t)[t]) + 1
    BY <1>2, <2>1, <2>2
  <2> QED
    BY <1>1, <1>2, <2>3, <2>4
<1> QED
  BY <1>3, <1>4

(* Every step is of one of the four kinds.                                 *)
LEMMA StepKinds ==
  ASSUME IInv, Rows, Reporting, [Next]_vars
  PROVE  Schedules \/ Keeps \/ (Leaves /\ UNCHANGED limit) \/ Exchanges
<1>t. /\ lastID \in Nat /\ status \in [Tasks -> Statuses]
      /\ objects \in [Tasks -> Seq(Object)] /\ asked \in Tasks \cup {NoTask}
  BY DEF IInv, Typed, IdsInTurn
<1>r. /\ Table(order, status) /\ (asked # NoTask => status[asked] # "none")
      /\ Fed(status, objects, stuck) /\ \A t \in stuck : status[t] = "running"
  BY DEF Rows, IInv, Ghosts
<1>l. \A t \in Tasks : Len(objects[t]) \in Nat /\ Len(objects[t]) <= Len(objects[t])
  BY <1>t
<1>1. ASSUME NEW st \in [Tasks -> Statuses], NEW objs \in [Tasks -> Seq(Object)],
             ScheduleTask(order, st, objs), UNCHANGED limit,
             \A t \in Tasks : Len(objs[t]) <= Len(objects[t]),
             \A t \in Tasks : st[t] = "none" <=> status[t] = "none"
      PROVE  Schedules
  <2>1. Table(order, st)
    BY <1>1, <1>r DEF Table
  <2>2. order \in Seq(Tasks)
    BY <1>r DEF Table
  <2> QED
    BY <1>1, <2>1, <2>2 DEF Schedules
<1>2. ASSUME NEW run \in BOOLEAN, NEW moves \in BOOLEAN, NewTask(run, moves)
      PROVE  Schedules
  <2> DEFINE t == lastID + 1
             st == [status EXCEPT ![t] = IF run THEN "waiting" ELSE "pause"]
             rows == Append(order, t)
  <2>1. t \in Tasks /\ UNCHANGED limit /\ ScheduleTask(rows, st, objects)
    BY <1>2 DEF NewTask
  <2>2. /\ st \in [Tasks -> Statuses] /\ status[t] = "none" /\ st[t] # "none"
        /\ \A u \in Tasks \ {t} : st[u] = status[u]
    BY <1>t, <2>1 DEF Statuses, IInv, IdsInTurn, Tasks
  <2> HIDE DEF st, t
  <2>3. Table(rows, st)
    BY <1>r, <2>1, <2>2, Entered
  <2>4. rows \in Seq(Tasks)
    BY <2>3 DEF Table
  <2> HIDE DEF rows
  <2>5. /\ Table(rows, st) /\ ScheduleTask(rows, st, objects) /\ UNCHANGED limit
        /\ \A u \in Tasks : Len(objects[u]) <= Len(objects[u])
    BY <1>l, <2>1, <2>3
  <2>6. objects \in [Tasks -> Seq(Object)] /\ st \in [Tasks -> Statuses]
    BY <1>t, <2>2
  <2> QED
    BY <2>4, <2>5, <2>6 DEF Schedules
<1>3. ASSUME NEW t \in Tasks, OnStartTask(t) PROVE Schedules
  <2> DEFINE st == [status EXCEPT ![t] = "waiting"]
  <2>1. ScheduleTask(order, st, objects) /\ UNCHANGED limit /\ status[t] # "none"
    BY <1>3 DEF OnStartTask, Selected
  <2>2. /\ st \in [Tasks -> Statuses]
        /\ \A u \in Tasks : st[u] = "none" <=> status[u] = "none"
    BY <1>t, <2>1 DEF Statuses
  <2> HIDE DEF st
  <2> QED
    BY <1>1, <1>l, <1>t, <2>1, <2>2
<1>4. ASSUME NEW t \in Tasks
      PROVE  /\ Stopped(t) \in [Tasks -> Seq(Object)]
             /\ \A u \in Tasks : Len(Stopped(t)[u]) <= Len(objects[u])
  BY <1>l, <1>t, OneLess DEF Stopped
<1>5. ASSUME NEW t \in Tasks, NEW late \in BOOLEAN, OnStopTask(t, late)
      PROVE  Schedules
  <2> DEFINE st == [status EXCEPT ![t] = Paused(t)]
             objs == Stopped(t)
  <2>1. ScheduleTask(order, st, objs) /\ UNCHANGED limit /\ status[t] # "none"
    BY <1>5 DEF OnStopTask, Selected
  <2>2. /\ st \in [Tasks -> Statuses]
        /\ \A u \in Tasks : st[u] = "none" <=> status[u] = "none"
    <3>1. Paused(t) \in Statuses \ {"none"}
      BY <1>t, <2>1 DEF Statuses, Paused
    <3> QED
      BY <1>t, <2>1, <3>1
  <2>3. /\ objs \in [Tasks -> Seq(Object)]
        /\ \A u \in Tasks : Len(objs[u]) <= Len(objects[u])
    BY <1>4
  <2> HIDE DEF st, objs
  <2> QED
    BY <1>1, <2>1, <2>2, <2>3
<1>6. ASSUME NEW t \in Tasks, NEW late \in BOOLEAN, OnCancelTask(t, late)
      PROVE  Leaves /\ UNCHANGED limit
  <2>1. /\ NoSchedule(order, [status EXCEPT ![t] = "delete"], Stopped(t))
        /\ UNCHANGED limit /\ status[t] # "delete"
    BY <1>6 DEF OnCancelTask
  <2>2. objects' = Stopped(t) /\ status'[t] = "delete"
    BY <1>t, <2>1 DEF NoSchedule, SetTable
  <2> QED
    BY <1>4, <2>1, <2>2 DEF Leaves
<1>7. ASSUME UNCHANGED objects,
             \A t \in Tasks : status'[t] = "waiting" => status[t] = "waiting"
      PROVE  Keeps
  BY <1>7 DEF Keeps
<1>8. ASSUME NEW t \in Tasks, DeleteTask(t) PROVE Keeps
  <2>1. UNCHANGED objects /\ status' = [status EXCEPT ![t] = "none"]
    BY <1>8 DEF DeleteTask, NoSchedule, SetTable
  <2>2. \A u \in Tasks : status'[u] = "waiting" => status[u] = "waiting"
    BY <1>t, <2>1
  <2> QED
    BY <1>7, <2>1, <2>2
<1>9. ASSUME NEW i \in DOMAIN order, NEW j \in DOMAIN order,
             NEW late \in BOOLEAN, NEW fails \in SUBSET (Refused \cap {order[j]}),
             OnMove(i, j, late, fails)
      PROVE  Keeps \/ Exchanges
  <2> DEFINE up == order[i]
             low == order[j]
             rows == [order EXCEPT ![i] = low, ![j] = up]
             less == RemoveTask(objects, up)
  <2>0. up \in Tasks /\ low \in Tasks /\ UNCHANGED limit
    <3>1. order \in Seq(Tasks)
      BY <1>r DEF Table
    <3> QED
      BY <1>9, <3>1, ElementOfSeq DEF OnMove
  <2>1. CASE status[up] = "running" /\ status[low] = "waiting"
    <3>1. /\ order' = rows /\ objects' = AddTask(less, low, fails)
          /\ status' = [status EXCEPT ![up] = "waiting", ![low] = "running"]
          /\ stuck' = (stuck \ {up, low}) \cup fails
      BY <1>9, <2>1 DEF OnMove, SetTable
    <3>2. up # low /\ low \notin stuck /\ (objects[up] = << >> => up \in stuck)
      BY <1>r, <2>0, <2>1 DEF Fed
    <3>3. order' # order
      <4>1. order \in Seq(Tasks) /\ (rows[i] = low \/ i = j)
        BY <1>r DEF Table
      <4> QED
        BY <1>r, <3>1, <3>2, <4>1
    <3>u. status'[up] = "waiting"
      BY <1>t, <2>0, <3>1, <3>2
    <3>f. low \in fails => low \in stuck'
      BY <3>1
    <3> HIDE DEF up, low, rows
    <3>4. /\ less \in [Tasks -> Seq(Object)]
          /\ \A u \in Tasks \ {up} : less[u] = objects[u]
          /\ \A u \in Tasks : Len(less[u]) <= Len(objects[u])
          /\ objects[up] # << >> => Len(objects[up]) = Len(less[up]) + 1
          /\ objects[up] = << >> => less = objects
      BY <1>t, <2>0, OneLess DEF RemoveTask
    <3> HIDE DEF less
    <3>5. CASE low \in fails
      <4>1. objects' = less
        BY <3>1, <3>5 DEF AddTask
      <4> QED
        BY <2>0, <2>1, <3>2, <3>3, <3>4, <3>5, <3>f, <4>1 DEF Exchanges
    <3>6. CASE low \notin fails
      <4>1. NewObject \in Object
        BY DEF NewObject, Object
      <4>2. Len(Append(less[low], NewObject)) = Len(less[low]) + 1
        BY <2>0, <3>4, <4>1, AppendProperties
      <4>3. objects' = [less EXCEPT ![low] = Append(@, NewObject)]
        BY <3>1, <3>6 DEF AddTask
      <4>4. /\ Len(objects'[low]) = Len(less[low]) + 1
            /\ \A u \in Tasks \ {low} : objects'[u] = less[u]
        BY <2>0, <3>4, <4>2, <4>3
      <4>5. CASE objects[up] # << >>
        <5>1. Swapped(objects, objects', up, low)
          BY <2>0, <3>2, <3>4, <4>4, <4>5 DEF Swapped
        <5> QED
          BY <2>0, <2>1, <3>3, <5>1 DEF Exchanges
      <4>6. CASE objects[up] = << >>
        <5>1. Grown(objects, objects', low)
          BY <2>0, <3>4, <4>4, <4>6 DEF Grown
        <5> QED
          BY <2>0, <2>1, <3>2, <3>3, <3>u, <4>6, <5>1 DEF Exchanges
      <4> QED
        BY <4>5, <4>6
    <3> QED
      BY <3>5, <3>6
  <2>2. CASE ~(status[up] = "running" /\ status[low] = "waiting")
    <3>1. UNCHANGED <<status, objects>>
      BY <1>9, <2>2 DEF OnMove, NoSchedule, SetTable
    <3> QED
      BY <1>7, <3>1
  <2> QED
    BY <2>1, <2>2
<1>10. ASSUME NEW yes \in BOOLEAN, OnReloadFile(yes) PROVE Schedules \/ Keeps
  <2>1. CASE yes /\ ~dangling
    <3> DEFINE st == [status EXCEPT ![asked] = "waiting"]
    <3>1. /\ ScheduleTask(order, st, objects) /\ UNCHANGED limit
          /\ asked \in Tasks /\ status[asked] # "none"
      BY <1>10, <1>r, <1>t, <2>1 DEF OnReloadFile
    <3>2. /\ st \in [Tasks -> Statuses]
          /\ \A u \in Tasks : st[u] = "none" <=> status[u] = "none"
      BY <1>t, <3>1 DEF Statuses
    <3> HIDE DEF st
    <3> QED
      BY <1>1, <1>l, <1>t, <3>1, <3>2
  <2>2. CASE ~yes
    <3>1. UNCHANGED <<status, objects>>
      BY <1>10, <2>2 DEF OnReloadFile, table
    <3> QED
      BY <1>7, <3>1
  <2>3. CASE yes /\ dangling
    <3>1. ScheduleTask(order, status, objects) /\ UNCHANGED limit
      BY <1>10, <2>3 DEF OnReloadFile
    <3> QED
      BY <1>1, <1>l, <1>t, <3>1
  <2> QED
    BY <2>1, <2>2, <2>3
<1>11. CASE StartAllTask
  <2> DEFINE st == [t \in Tasks |-> IF status[t] = "pause" THEN "waiting"
                                    ELSE status[t]]
  <2>1. ScheduleTask(order, st, objects) /\ UNCHANGED limit
    BY <1>11 DEF StartAllTask
  <2>2. /\ st \in [Tasks -> Statuses]
        /\ \A u \in Tasks : st[u] = "none" <=> status[u] = "none"
    BY <1>t DEF Statuses
  <2> HIDE DEF st
  <2> QED
    BY <1>1, <1>l, <1>t, <2>1, <2>2
<1>12. ASSUME NEW lates \in SUBSET Tasks, StopAllTask(lates)
       PROVE  Leaves /\ UNCHANGED limit
  <2>1. /\ status' = [t \in Tasks |-> IF status[t] \in {"running", "waiting"}
                                      THEN "pause" ELSE status[t]]
        /\ objects' = [t \in Tasks |-> << >>]
        /\ UNCHANGED limit
    BY <1>12 DEF StopAllTask, NoSchedule, SetTable
  <2>2. \A t \in Tasks : status'[t] # "waiting"
    BY <2>1
  <2>3. \A t \in Tasks : Len(objects'[t]) <= Len(objects[t])
    <3>1. Len(<< >>) = 0
      OBVIOUS
    <3> QED
      BY <1>l, <2>1, <3>1
  <2> QED
    BY <2>1, <2>2, <2>3 DEF Leaves
<1>13. ASSUME NEW t \in Tasks, NEW i \in DOMAIN objects[t],
              \/ PostEvent(t, i)
              \/ \E end \in {"finish", "error"} : SetResult(t, i, end)
       PROVE  Keeps
  <2>1. /\ UNCHANGED status
        /\ \E o : objects' = [objects EXCEPT ![t] = [@ EXCEPT ![i] = o]]
    <3>1. CASE PostEvent(t, i)
      <4> DEFINE o == [objects[t][i] EXCEPT !.due = FALSE]
      <4>1. UNCHANGED status /\ objects' = [objects EXCEPT ![t] = [@ EXCEPT ![i] = o]]
        BY <3>1 DEF PostEvent
      <4> HIDE DEF o
      <4> QED
        BY <4>1
    <3>2. ASSUME NEW end \in {"finish", "error"}, SetResult(t, i, end)
          PROVE  <2>1
      BY <3>2 DEF SetResult
    <3> QED
      BY <1>13, <3>1, <3>2
  <2>2. PICK o : objects' = [objects EXCEPT ![t] = [@ EXCEPT ![i] = o]]
    BY <2>1
  <2>3. \A u \in Tasks : DOMAIN objects'[u] = DOMAIN objects[u]
    BY <1>t, <2>2
  <2>4. \A u \in Tasks : objects[u] \in Seq(Object) /\ objects'[u] \in Seq(Object)
    <3>1. IInv'
      BY NextIInv
    <3> QED
      BY <1>t, <3>1 DEF IInv, Typed
  <2>5. \A u \in Tasks : Len(objects'[u]) = Len(objects[u])
    BY <2>3, <2>4, NoObject
  <2> QED
    BY <2>1, <2>5 DEF Keeps
<1>14. ASSUME NEW t \in Tasks, NEW late \in BOOLEAN, OnTaskFinish(t, late)
       PROVE  Schedules \/ Keeps
  <2>1. CASE t \in ToSet(order) /\ GetTaskStatus(t) \in {"finish", "error"}
    <3>1. PICK end \in {"finish", "wrong"} :
            /\ ScheduleTask(order, [status EXCEPT ![t] = end], RemoveTask(objects, t))
            /\ UNCHANGED limit
      BY <1>14, <2>1 DEF OnTaskFinish, End
    <3> DEFINE st == [status EXCEPT ![t] = end]
               objs == RemoveTask(objects, t)
    <3>2. status[t] # "none"
      BY <1>r, <2>1 DEF Table, ToSet
    <3>3. /\ st \in [Tasks -> Statuses]
          /\ \A u \in Tasks : st[u] = "none" <=> status[u] = "none"
      BY <1>t, <3>2 DEF Statuses
    <3>4. /\ objs \in [Tasks -> Seq(Object)]
          /\ \A u \in Tasks : Len(objs[u]) <= Len(objects[u])
      BY <1>t, OneLess
    <3>5. ScheduleTask(order, st, objs) /\ UNCHANGED limit
      BY <3>1
    <3> HIDE DEF st, objs
    <3> QED
      BY <1>1, <3>3, <3>4, <3>5
  <2>2. CASE ~(t \in ToSet(order) /\ GetTaskStatus(t) \in {"finish", "error"})
    <3>1. UNCHANGED <<status, objects>>
      BY <1>14, <2>2 DEF OnTaskFinish, table
    <3> QED
      BY <1>7, <3>1
  <2> QED
    BY <2>1, <2>2
<1>15. ASSUME NEW t \in Tasks, AskReload(t) PROVE Keeps
  BY <1>7, <1>15 DEF AskReload, table
<1>16. ASSUME NEW n \in Limits, OnConfig(n) PROVE Keeps
  BY <1>7, <1>16 DEF OnConfig, table
<1>17. CASE UNCHANGED vars
  BY <1>7, <1>17 DEF vars, table
<1>18. ASSUME NEW t \in Tasks, ViewRoot(t) PROVE Keeps
  BY <1>7, <1>18 DEF ViewRoot, table
<1>19. CASE LeaveRoot
  BY <1>7, <1>19 DEF LeaveRoot, table
<1> QED
  BY <1>2, <1>3, <1>5, <1>6, <1>8, <1>9, <1>10, <1>11, <1>12, <1>13, <1>14,
     <1>15, <1>16, <1>17, <1>18, <1>19 DEF Next

(* Objects of the same numbers take the same number of slots.              *)
LEMMA SameSlots ==
  ASSUME NEW objs \in [Tasks -> Seq(Object)], NEW more \in [Tasks -> Seq(Object)],
         \A t \in Tasks : Len(objs[t]) = Len(more[t])
  PROVE  TaskNumber(objs) = TaskNumber(more)
<1>1. \A t \in Tasks : /\ Len(objs[t]) \in Nat /\ Len(more[t]) \in Nat
                       /\ Len(objs[t]) <= Len(more[t])
                       /\ Len(more[t]) <= Len(objs[t])
  OBVIOUS
<1>2. TaskNumber(objs) <= TaskNumber(more) /\ TaskNumber(more) <= TaskNumber(objs)
  BY <1>1, FewerSlots
<1>3. TaskNumber(objs) \in Nat /\ TaskNumber(more) \in Nat
  BY SlotsFinite
<1> QED
  BY <1>2, <1>3

(* A task more here and one less there: the number stays.                  *)
LEMMA ExchangedSlots ==
  ASSUME NEW objs \in [Tasks -> Seq(Object)], NEW more \in [Tasks -> Seq(Object)],
         NEW up \in Tasks, NEW low \in Tasks, Swapped(objs, more, up, low)
  PROVE  TaskNumber(more) = TaskNumber(objs)
<1> DEFINE less == [objs EXCEPT ![up] = more[up]]
<1>1. /\ less \in [Tasks -> Seq(Object)] /\ less[up] = more[up]
      /\ \A u \in Tasks \ {up} : less[u] = objs[u]
  OBVIOUS
<1>s. /\ up # low /\ Len(objs[up]) = Len(more[up]) + 1
      /\ Len(more[low]) = Len(objs[low]) + 1
      /\ \A u \in Tasks \ {up, low} : Len(more[u]) = Len(objs[u])
  BY DEF Swapped
<1> HIDE DEF less
<1>2. TaskNumber(objs) = TaskNumber(less) + 1
  BY <1>1, <1>s, OneSlot
<1>3. /\ Len(more[low]) = Len(less[low]) + 1
      /\ \A u \in Tasks \ {low} : Len(more[u]) = Len(less[u])
  BY <1>1, <1>s
<1>4. TaskNumber(more) = TaskNumber(less) + 1
  BY <1>1, <1>3, OneSlot
<1> QED
  BY <1>2, <1>4

(* The limit is one the user can choose.                                   *)
Permitted == limit \in Limits

LEMMA LimitChosen ==
  (Init => Permitted) /\ (Permitted /\ [Next]_vars => Permitted')
BY DEF Permitted, Init, Next, vars, NewTask, ViewRoot, LeaveRoot, OnStartTask,
       OnStopTask, OnCancelTask, DeleteTask, OnMove, AskReload, OnReloadFile,
       StartAllTask, StopAllTask, OnConfig, SetResult, PostEvent, OnTaskFinish

(* What a step of one of the four kinds does to the slots.                 *)
LEMMA Counted ==
  ASSUME IInv, Rows, Reporting, Permitted, [Next]_vars
  PROVE  /\ \/ TaskNumber(objects') <= TaskNumber(objects)
            \/ UNCHANGED limit /\ TaskNumber(objects') <= limit
            \/ order' # order /\ \E t \in stuck : status'[t] = "waiting"
         /\ \/ ~Idle'
            \/ Idle
            \/ limit # limit'
            \/ \E t \in Tasks : status[t] # "delete" /\ status'[t] = "delete"
            \/ order' # order /\ ~(stuck' \subseteq stuck)
            \/ \E t \in requeued : Len(objects'[t]) > 1
<1>t. /\ objects \in [Tasks -> Seq(Object)] /\ objects' \in [Tasks -> Seq(Object)]
      /\ limit \in Nat
  BY NextIInv, TaskTableAssumption DEF IInv, Typed, Permitted
<1>n. TaskNumber(objects) \in Nat /\ TaskNumber(objects') \in Nat
  BY <1>t, SlotsFinite
<1>o. \A t \in Tasks : (Len(objects[t]) = 0 <=> objects[t] = << >>) /\
                       (Len(objects'[t]) = 0 <=> objects'[t] = << >>)
  BY <1>t, NoObject
<1>1. CASE Schedules
  <2>1. PICK rows \in Seq(Tasks), st \in [Tasks -> Statuses],
             objs \in [Tasks -> Seq(Object)] :
          /\ Table(rows, st) /\ ScheduleTask(rows, st, objs) /\ UNCHANGED limit
          /\ \A t \in Tasks : Len(objs[t]) <= Len(objects[t])
    BY <1>1 DEF Schedules
  <2>2. /\ \/ TaskNumber(objects') = TaskNumber(objs)
           \/ TaskNumber(objects') <= limit
        /\ \/ TaskNumber(objects') >= limit
           \/ \A t \in Tasks : status'[t] # "waiting" \/ objects'[t] # << >>
    BY <1>t, <2>1, Scheduled
  <2>3. TaskNumber(objs) <= TaskNumber(objects) /\ TaskNumber(objs) \in Nat
    BY <1>t, <2>1, FewerSlots, SlotsFinite
  <2>4. ~Idle'
    <3>1. CASE TaskNumber(objects') >= limit
      BY <1>n, <1>t, <2>1, <3>1 DEF Idle
    <3>2. CASE \A t \in Tasks : status'[t] # "waiting" \/ objects'[t] # << >>
      BY <3>2 DEF Idle
    <3> QED
      BY <2>2, <3>1, <3>2
  <2>5. \/ TaskNumber(objects') <= TaskNumber(objects)
        \/ TaskNumber(objects') <= limit
    BY <2>2, <2>3
  <2> QED
    BY <2>1, <2>4, <2>5
<1>2. CASE Keeps
  <2>1. TaskNumber(objects') = TaskNumber(objects)
    BY <1>2, <1>t, SameSlots DEF Keeps
  <2>2. ASSUME Idle', limit = limit' PROVE Idle
    <3>1. PICK t \in Tasks : status'[t] = "waiting" /\ objects'[t] = << >>
      BY <2>2 DEF Idle
    <3>2. status[t] = "waiting" /\ objects[t] = << >>
      BY <1>2, <1>o, <3>1 DEF Keeps
    <3> QED
      BY <2>1, <2>2, <3>2 DEF Idle
  <2> QED
    BY <1>n, <2>1, <2>2
<1>3. CASE Leaves
  <2>1. TaskNumber(objects') <= TaskNumber(objects)
    BY <1>3, <1>t, FewerSlots DEF Leaves
  <2> QED
    BY <1>3, <2>1 DEF Leaves, Idle
<1>4. CASE Exchanges
  <2>1. PICK up \in Tasks, low \in Tasks :
          /\ status[up] = "running" /\ status[low] = "waiting"
          /\ UNCHANGED limit /\ order' # order
          /\ \/ Swapped(objects, objects', up, low)
             \/ /\ up \in stuck /\ status'[up] = "waiting"
                /\ Grown(objects, objects', low)
             \/ /\ low \in stuck' \ stuck
                /\ \A u \in Tasks : Len(objects'[u]) <= Len(objects[u])
    BY <1>4 DEF Exchanges
  <2>2. ASSUME Len(objects'[low]) = Len(objects[low]) + 1,
               TaskNumber(objects) <= TaskNumber(objects')
        PROVE  \/ ~Idle' \/ Idle
               \/ \E t \in requeued : Len(objects'[t]) > 1
    <3>1. CASE objects[low] = << >>
      BY <1>n, <1>t, <2>1, <2>2, <3>1 DEF Idle
    <3>2. CASE objects[low] # << >>
      <4>1. Len(objects[low]) \in Nat /\ Len(objects[low]) # 0
        BY <1>o, <1>t, <3>2
      <4>2. low \in requeued
        BY <2>1, <4>1 DEF IInv, OneObjectEach
      <4>3. Len(objects'[low]) > 1
        BY <2>2, <4>1
      <4> QED
        BY <4>2, <4>3
    <3> QED
      BY <3>1, <3>2
  <2>3. CASE Swapped(objects, objects', up, low)
    <3>1. TaskNumber(objects') = TaskNumber(objects)
      BY <1>t, <2>3, ExchangedSlots
    <3>2. Len(objects'[low]) = Len(objects[low]) + 1
      BY <2>3 DEF Swapped
    <3> QED
      BY <1>n, <2>2, <3>1, <3>2
  <2>4. CASE up \in stuck /\ status'[up] = "waiting" /\ Grown(objects, objects', low)
    <3>1. Len(objects'[low]) = Len(objects[low]) + 1
      BY <2>4 DEF Grown
    <3>2. ASSUME NEW u \in Tasks
          PROVE  Len(objects[u]) <= Len(objects'[u])
      <4>1. Len(objects[u]) \in Nat
        BY <1>t
      <4> QED
        BY <2>4, <4>1 DEF Grown
    <3>3. TaskNumber(objects) <= TaskNumber(objects')
      BY <1>t, <3>2, FewerSlots
    <3> QED
      BY <2>1, <2>2, <2>4, <3>1, <3>3
  <2>5. CASE /\ low \in stuck' \ stuck
             /\ \A u \in Tasks : Len(objects'[u]) <= Len(objects[u])
    <3>1. TaskNumber(objects') <= TaskNumber(objects)
      BY <1>t, <2>5, FewerSlots
    <3> QED
      BY <2>1, <2>5, <3>1
  <2> QED
    BY <2>1, <2>3, <2>4, <2>5
<1> QED
  BY <1>1, <1>2, <1>3, <1>4, StepKinds

(* Ids and reloads end at their bounds; the view shows a task, or none.    *)
Bounded ==
  /\ lastID \in 0 .. MaxTasks /\ reloads \in 0 .. MaxReloads
  /\ asked # NoTask => reloads < MaxReloads

Viewed ==
  root \in Tasks \cup {NoTask} /\ bar \in Statuses /\ dangling \in BOOLEAN

LEMMA StaysBounded ==
  (Init => Bounded) /\ (Bounded /\ [Next]_vars => Bounded')
<1>1. Init => Bounded
  BY TaskTableAssumption DEF Init, Bounded
<1>2. ASSUME Bounded, [Next]_vars PROVE Bounded'
  <2>1. ASSUME NEW run \in BOOLEAN, NEW moves \in BOOLEAN, NewTask(run, moves)
        PROVE  Bounded'
    BY <1>2, <2>1, TaskTableAssumption DEF NewTask, Bounded, Tasks
  <2>2. ASSUME NEW t \in Tasks, AskReload(t) PROVE Bounded'
    BY <1>2, <2>2 DEF AskReload, Bounded
  <2>3. ASSUME NEW yes \in BOOLEAN, OnReloadFile(yes) PROVE Bounded'
    BY <1>2, <2>3, TaskTableAssumption DEF OnReloadFile, Bounded
  <2>4. ASSUME UNCHANGED <<lastID, reloads, asked>> PROVE Bounded'
    BY <1>2, <2>4 DEF Bounded
  <2> QED
    BY <1>2, <2>1, <2>2, <2>3, <2>4
       DEF Next, vars, reload, ViewRoot, LeaveRoot, OnStartTask, OnStopTask,
           OnCancelTask, DeleteTask, OnMove, StartAllTask, StopAllTask, OnConfig,
           SetResult, PostEvent, OnTaskFinish
<1> QED
  BY <1>1, <1>2

LEMMA StaysViewed ==
  (Init => Viewed) /\ (IInv /\ Viewed /\ [Next]_vars => Viewed')
<1>1. Init => Viewed
  BY DEF Init, Viewed, Statuses
<1>2. ASSUME IInv, Viewed, [Next]_vars PROVE Viewed'
  <2>t. IInv' /\ status' \in [Tasks -> Statuses] /\ status \in [Tasks -> Statuses]
    BY <1>2, NextIInv DEF IInv, Typed
  <2>n. /\ "none" \in Statuses
        /\ \A t \in Tasks : status[t] \in Statuses /\ status'[t] \in Statuses
    BY <2>t DEF Statuses
  <2>1. ASSUME NEW run \in BOOLEAN, NEW moves \in BOOLEAN, NewTask(run, moves)
        PROVE  Viewed'
    <3>1. UNCHANGED <<root, bar>> /\ dangling' = (dangling \/ moves)
      BY <2>1 DEF NewTask, view
    <3>2. dangling' \in BOOLEAN
      BY <3>1
    <3> QED
      BY <1>2, <3>1, <3>2 DEF Viewed
  <2>2. ASSUME UpdateToolBar, UNCHANGED dangling PROVE Viewed'
    BY <1>2, <2>2, <2>n DEF UpdateToolBar, Viewed
  <2>3. ASSUME NEW t \in Tasks, ViewRoot(t) PROVE Viewed'
    BY <1>2, <2>3, <2>n DEF ViewRoot, reload, Viewed
  <2>4. ASSUME root' = NoTask, bar' = "none", UNCHANGED dangling PROVE Viewed'
    BY <1>2, <2>4, <2>n DEF Viewed
  <2>5. ASSUME NEW yes \in BOOLEAN, OnReloadFile(yes) PROVE Viewed'
    BY <1>2, <2>5 DEF OnReloadFile, view, Viewed
  <2>6. ASSUME UNCHANGED <<root, bar, dangling>> PROVE Viewed'
    BY <1>2, <2>6 DEF Viewed
  <2> QED
    BY <1>2, <2>1, <2>2, <2>3, <2>4, <2>5, <2>6
       DEF Next, vars, view, reload, LeaveRoot, OnStartTask, OnStopTask,
           OnCancelTask, DeleteTask, OnMove, AskReload, StartAllTask, StopAllTask,
           OnConfig, SetResult, PostEvent, OnTaskFinish
<1> QED
  BY <1>1, <1>2

(* The table, the objects, the events and the rest keep their types: the   *)
(* table names tasks that exist, and every count stays within its bound.   *)
THEOREM TypeCorrect == Spec => []TypeOK
<1>1. IInv /\ Rows /\ Reporting /\ Permitted /\ Bounded /\ Viewed => TypeOK
  BY TaskTableAssumption
     DEF IInv, Typed, IdsInTurn, Ghosts, Rows, Table, Reporting, Permitted, Bounded,
         Viewed, TypeOK, Tasks
<1> QED
  BY <1>1, LimitChosen, StaysBounded, StaysViewed, Reports, PTL DEF Spec

(* Tasks are never started beyond the limit, in whatever order tasks are   *)
(* stopped, moved and scheduled, and whatever limit was set before, but    *)
(* for one that takes the place of a task without an object.               *)
THEOREM LimitIsKept == Spec => LimitKept
<1>1. (Init => Permitted) /\ (Permitted /\ [Next]_vars => Permitted')
  BY LimitChosen
<1>2. IInv /\ Rows /\ Reporting /\ Permitted /\ [Next]_vars =>
        [TaskNumber(objects') > TaskNumber(objects) =>
           \/ TaskNumber(objects') <= limit
           \/ order' # order /\ \E t \in stuck : status'[t] = "waiting"]_vars
  <2> SUFFICES ASSUME IInv, Rows, Reporting, Permitted, [Next]_vars,
                      TaskNumber(objects') > TaskNumber(objects)
               PROVE  \/ TaskNumber(objects') <= limit
                      \/ order' # order /\ \E t \in stuck : status'[t] = "waiting"
    OBVIOUS
  <2>1. TaskNumber(objects) \in Nat /\ TaskNumber(objects') \in Nat
    BY NextIInv, SlotsFinite DEF IInv, Typed
  <2> QED
    BY <2>1, Counted
<1> QED
  BY <1>1, <1>2, Reports, PTL DEF Spec, LimitKept

(* No step leaves a slot idle beside a waiting task, except where the code *)
(* does not schedule, or a thread was refused.                             *)
THEOREM SlotsAreFilled == Spec => SlotsFilled
<1>1. (Init => Permitted) /\ (Permitted /\ [Next]_vars => Permitted')
  BY LimitChosen
<1>2. IInv /\ Rows /\ Reporting /\ Permitted /\ [Next]_vars =>
        [~Idle /\ Idle' =>
           \/ limit # limit'
           \/ \E t \in Tasks : status[t] # "delete" /\ status'[t] = "delete"
           \/ order' # order /\ ~(stuck' \subseteq stuck)
           \/ \E t \in requeued : Len(objects'[t]) > 1]_vars
  BY Counted
<1> QED
  BY <1>1, <1>2, Reports, PTL DEF Spec, SlotsFilled
=============================================================================
