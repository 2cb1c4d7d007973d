---------------------------- MODULE MCTaskTable ----------------------------
(* Three tasks in the lists; or two, one of them seen from the root of the *)
(* tree or reloaded, and one at a time queued again.  A limit of three     *)
(* only with two tasks, as the third object is then the second of a task.  *)
EXTENDS TaskTable

Pending == events[1] + events[2] + events[3]

Few ==
  /\ lastID = 3 => /\ root = NoTask /\ asked = NoTask
                   /\ reloads = 0 /\ requeued = {}
  /\ root = NoTask \/ (asked = NoTask /\ reloads = 0)
  /\ limit = 3 => lastID <= 2
  /\ Cardinality(requeued) <= 1 /\ (requeued = {} \/ stuck = {})
  /\ \A t \in Tasks : Len(objects[t]) <= 2
  /\ Pending <= 2
=============================================================================
