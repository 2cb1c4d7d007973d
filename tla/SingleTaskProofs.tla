-------------------------- MODULE SingleTaskProofs --------------------------
(***************************************************************************)
(* Proofs about the threads of a task, for any number of ants, of pieces   *)
(* and of clicks: types, the count of running ants, and that no thread     *)
(* outlives the task.                                                      *)
(***************************************************************************)
EXTENDS SingleTask, FiniteSetTheorems, TLAPS

(* A piece is waiting or with an ant that fetches it.                      *)
Fetched == todo + Cardinality(holding) <= Pieces

(* What a handler that is half done may rely on: a click is checked        *)
(* without the lock, so that nothing may happen meanwhile that refutes it. *)
Handlers ==
  /\ nAnts >= 1
  /\ ui \in {"down", "join", "release"} => init = "done" /\ nAnts > 1
  /\ ui = "up" => nAnts < MaxAnts
  /\ ui \in {"pushed", "mirror"} => pushed >= 1
  /\ ui \in {"reap", "gone"} => init \in {"done", "failed", "killed"}
  /\ ui \notin {"reap", "gone"} =>
       cancelled \subseteq (IF ui = "join" THEN {nAnts} ELSE {})

(* A living thread has an object, by which the destructor finds it; there  *)
(* is none before the init thread is done.                                 *)
Owned ==
  /\ \A t \in Ants : pc[t] \in Alive => t \in pAnts
  /\ init # "done" => pAnts = {}
  /\ ui = "gone" => pAnts = {}

(* The count while a handler is half done: the ant ThreadDown takes away   *)
(* is counted until the end, dead or alive.                                *)
Counting ==
  /\ init # "done" => nRunning = 0
  /\ init = "done" =>
       /\ ui \in {"idle", "up", "down", "pushed", "mirror", "quit"} =>
            nRunning <= Cardinality(Live)
       /\ ui \in {"join", "release"} =>
            nRunning <= Cardinality(Live \ {nAnts}) + 1

IInv == TypeOK /\ Fetched /\ Handlers /\ Owned /\ Counting
-----------------------------------------------------------------------------
(* Sets of ants are finite, and their cardinalities natural numbers.       *)
LEMMA AntSets ==
  ASSUME NEW S, S \subseteq Ants
  PROVE  IsFiniteSet(S) /\ Cardinality(S) \in Nat
<1>1. MaxAnts \in Nat
  BY SingleTaskAssumption
<1>2. IsFiniteSet(Ants)
  BY <1>1, FS_Interval DEF Ants
<1>3. IsFiniteSet(S)
  BY <1>2, FS_Subset
<1> QED
  BY <1>3, FS_CardinalityType

(* Taking an ant out of a set, or putting one in.                          *)
LEMMA Less ==
  ASSUME NEW S, S \subseteq Ants, NEW t
  PROVE  /\ Cardinality(S \ {t}) \in Nat
         /\ Cardinality(S) <= Cardinality(S \ {t}) + 1
         /\ t \in S => Cardinality(S \ {t}) = Cardinality(S) - 1
         /\ Cardinality(S \ {t}) <= Cardinality(S)
<1>1. IsFiniteSet(S) /\ Cardinality(S) \in Nat
  BY AntSets
<1>2. t \in S => Cardinality(S \ {t}) = Cardinality(S) - 1
  BY <1>1, FS_RemoveElement
<1>3. t \notin S => S \ {t} = S
  OBVIOUS
<1>4. Cardinality(S \ {t}) \in Nat
  BY AntSets, S \ {t} \subseteq Ants
<1> QED
  BY <1>1, <1>2, <1>3, <1>4

LEMMA More ==
  ASSUME NEW S, S \subseteq Ants, NEW t \in Ants
  PROVE  /\ Cardinality(S \cup {t}) \in Nat
         /\ Cardinality(S \cup {t}) <= Cardinality(S) + 1
         /\ t \notin S => Cardinality(S \cup {t}) = Cardinality(S) + 1
<1>1. IsFiniteSet(S) /\ Cardinality(S) \in Nat
  BY AntSets
<1>2. t \notin S => Cardinality(S \cup {t}) = Cardinality(S) + 1
  BY <1>1, FS_AddElement
<1>3. t \in S => S \cup {t} = S
  OBVIOUS
<1> QED
  BY <1>1, <1>2, <1>3

(* Release keeps the pieces together.                                      *)
LEMMA Releasing ==
  ASSUME TypeOK, Fetched, NEW t, Release(t)
  PROVE  Fetched' /\ todo' \in 0 .. Pieces /\ holding' \subseteq Ants
<1>1. holding \subseteq Ants /\ todo \in Nat /\ Pieces \in Nat
  BY SingleTaskAssumption DEF TypeOK
<1>2. /\ Cardinality(holding \ {t}) \in Nat
      /\ t \in holding => Cardinality(holding \ {t}) = Cardinality(holding) - 1
      /\ t \notin holding => holding \ {t} = holding
  BY <1>1, Less
<1>3. Cardinality(holding) \in Nat
  BY <1>1, AntSets
<1>4. todo + Cardinality(holding) <= Pieces
  BY DEF Fetched
<1>5. holding' = holding \ {t} /\ Cardinality(holding') = Cardinality(holding \ {t})
  BY DEF Release
<1>6. CASE t \in holding
  <2>1. todo' = todo + 1
    BY <1>6 DEF Release
  <2> QED
    BY <1>1, <1>2, <1>3, <1>4, <1>5, <1>6, <2>1 DEF Fetched
<1>7. CASE t \notin holding
  <2>1. todo' = todo
    BY <1>7 DEF Release
  <2> QED
    BY <1>1, <1>2, <1>3, <1>4, <1>5, <1>7, <2>1 DEF Fetched
<1> QED
  BY <1>6, <1>7

(* An ant that goes on from one place to another disturbs nothing but its  *)
(* work.                                                                   *)
LEMMA Moving ==
  ASSUME TypeOK, Handlers, Owned, Counting,
         NEW t \in Ants, pc[t] \in Alive, NEW place \in Alive, At(t, place),
         UNCHANGED <<init, counters, cancelled, ui, pushed>>
  PROVE  Handlers' /\ Owned' /\ Counting' /\ pc' \in [Ants -> Alive \cup {"none", "exited"}]
<1>1. pc' \in [Ants -> Alive \cup {"none", "exited"}]
  BY DEF TypeOK, At
<1>2. \A u \in Ants : pc'[u] \in Alive <=> pc[u] \in Alive
  BY DEF TypeOK, At
<1>3. Live' = Live
  BY <1>2 DEF Live
<1>4. Handlers'
  BY DEF Handlers, counters
<1>5. Owned'
  BY <1>2 DEF Owned, counters
<1>6. Counting'
  BY <1>3 DEF Counting, counters
<1> QED
  BY <1>1, <1>4, <1>5, <1>6

-----------------------------------------------------------------------------
(* At the start nothing runs and every piece waits.                        *)
LEMMA InitIInv == Init => IInv
<1> SUFFICES ASSUME Init PROVE IInv
  OBVIOUS
<1>1. StartAnts \in 1 .. MaxAnts /\ MaxAnts \in Nat /\ Pieces \in Nat
        /\ MaxUps \in Nat /\ MaxDowns \in Nat
  BY SingleTaskAssumption
<1>2. TypeOK
  <2>1. pc \in [Ants -> Alive \cup {"none", "exited"}]
    BY DEF Init
  <2>2. nAnts \in 0 .. MaxAnts /\ todo \in 0 .. Pieces
    BY <1>1 DEF Init
  <2>3. ups \in 0 .. MaxUps /\ downs \in 0 .. MaxDowns
    BY <1>1 DEF Init
  <2>4. nRunning \in Int /\ posted \in Nat
    BY DEF Init
  <2>5. /\ pAnts \subseteq Ants /\ cancelled \subseteq Ants
        /\ holding \subseteq Ants /\ failed \subseteq Ants
    BY DEF Init
  <2>6. antsMutex \in BOOLEAN /\ stop \in BOOLEAN /\ torn \in BOOLEAN
    BY DEF Init
  <2>7. pushed \in 0 .. MaxMirrors /\ given \subseteq 1 .. pushed
    BY DEF Init
  <2>8. reports \in 0 .. MaxReports /\ MaxMirrors \in Nat
    BY SingleTaskAssumption DEF Init
  <2> QED
    BY <2>1, <2>2, <2>3, <2>4, <2>5, <2>6, <2>7, <2>8 DEF Init, TypeOK
<1>3. Fetched
  BY <1>1, FS_EmptySet DEF Init, Fetched
<1>4. Handlers
  BY <1>1 DEF Init, Handlers
<1>5. Owned
  BY DEF Init, Owned, Alive, Cancellable
<1>6. Counting
  BY DEF Init, Counting
<1> QED
  BY <1>2, <1>3, <1>4, <1>5, <1>6 DEF IInv

(* The init thread fails, decides how many ants to start, hands over the   *)
(* mirrors, or starts the ants.                                            *)
LEMMA InitStepIInv == IInv /\ InitStep => IInv'
<1> SUFFICES ASSUME IInv, InitStep PROVE IInv'
  OBVIOUS
<1>0. TypeOK /\ Fetched /\ Handlers /\ Owned /\ Counting
  BY DEF IInv
<1>a. MaxAnts \in Nat
  BY SingleTaskAssumption
<1>1. CASE InfoFails
  <2>1. TypeOK'
    BY <1>0, <1>1
    DEF InfoFails, FinishTask, TypeOK, counters, mutexes, mirrors, work, net, clicks
  <2>2. Fetched' /\ Handlers' /\ Owned' /\ Counting'
    BY <1>0, <1>1
    DEF InfoFails, Fetched, Handlers, Owned, Counting, counters, mirrors, work
  <2> QED
    BY <2>1, <2>2 DEF IInv
<1>2. ASSUME NEW single \in BOOLEAN, InfoDone(single)
      PROVE  IInv'
  <2>1. nAnts' \in 1 .. MaxAnts /\ ui' \in {ui, "idle"}
    BY <1>0, <1>2, <1>a DEF InfoDone, TypeOK, Handlers
  <2>2. TypeOK'
    BY <1>0, <1>2, <2>1
    DEF InfoDone, TypeOK, mutexes, mirrors, work, report, net, clicks
  <2>3. Handlers'
    BY <1>0, <1>2, <1>a, <2>1 DEF InfoDone, TypeOK, Handlers, mirrors
  <2>4. Fetched' /\ Owned' /\ Counting'
    BY <1>0, <1>2 DEF InfoDone, Fetched, Owned, Counting, work
  <2> QED
    BY <2>2, <2>3, <2>4 DEF IInv
<1>4. CASE CheckFails
  <2>1. TypeOK'
    BY <1>0, <1>4
    DEF CheckFails, FinishTask, TypeOK, counters, mutexes, mirrors, work, net, clicks
  <2>2. Fetched' /\ Handlers' /\ Owned' /\ Counting'
    BY <1>0, <1>4
    DEF CheckFails, Fetched, Handlers, Owned, Counting, counters, mirrors, work
  <2> QED
    BY <2>1, <2>2 DEF IInv
<1>5. CASE CheckDone
  <2>1. TypeOK'
    BY <1>0, <1>5
    DEF CheckDone, TypeOK, counters, mutexes, mirrors, work, report, net, clicks
  <2>2. Fetched' /\ Handlers' /\ Owned' /\ Counting'
    BY <1>0, <1>5
    DEF CheckDone, Fetched, Handlers, Owned, Counting, counters, mirrors, work
  <2> QED
    BY <2>1, <2>2 DEF IInv
<1>6. CASE GiveMirrors
  <2>1. given' \subseteq 1 .. pushed /\ pushed' = pushed
    BY <1>0, <1>6 DEF GiveMirrors, TypeOK
  <2>2. TypeOK'
    BY <1>0, <1>6, <2>1
    DEF GiveMirrors, TypeOK, counters, mutexes, work, report, net, clicks
  <2>3. Fetched' /\ Handlers' /\ Owned' /\ Counting'
    BY <1>0, <1>6
    DEF GiveMirrors, Fetched, Handlers, Owned, Counting, counters, work
  <2> QED
    BY <2>2, <2>3 DEF IInv
<1>3. CASE InitAnts
  <2>1. nAnts \in 1 .. MaxAnts /\ 1 .. nAnts \subseteq Ants
    BY <1>0, <1>a DEF TypeOK, Handlers, Ants
  <2>2. TypeOK'
    BY <1>0, <1>3, <2>1
    DEF InitAnts, TypeOK, mutexes, mirrors, work, report, net, clicks, Alive,
        Cancellable
  <2>3. \A t \in Ants : pc'[t] \in Alive <=> t \in 1 .. nAnts
    BY <1>3 DEF InitAnts, Alive, Cancellable
  <2>4. Live' = 1 .. nAnts
    BY <2>1, <2>3 DEF Live
  <2>5. Cardinality(Live') = nAnts
    BY <2>1, <2>4, FS_Interval
  <2>6. Fetched'
    BY <1>0, <1>3 DEF InitAnts, Fetched, work
  <2>7. Handlers'
    BY <1>0, <1>3 DEF InitAnts, Handlers, mirrors
  <2>8. Owned'
    BY <1>0, <1>3, <2>3 DEF InitAnts, Owned, Handlers
  <2>9. Counting'
    BY <1>0, <1>3, <2>1, <2>5 DEF InitAnts, Counting, Handlers
  <2> QED
    BY <2>2, <2>6, <2>7, <2>8, <2>9 DEF IInv
<1> QED
  BY <1>1, <1>2, <1>3, <1>4, <1>5, <1>6 DEF InitStep, CheckStep

(* An ant works, quits or is killed.                                       *)
LEMMA AntIInv ==
  ASSUME IInv, NEW t \in Ants, AntStep(t) \/ NetStep(t)
  PROVE  IInv'
<1>0. TypeOK /\ Fetched /\ Handlers /\ Owned /\ Counting
  BY DEF IInv
<1>a. t \in Nat /\ MaxAnts \in Nat /\ Pieces \in Nat /\ MaxReports \in Nat
  BY SingleTaskAssumption DEF Ants
<1>b. ASSUME NEW place \in Alive, pc[t] \in Alive, At(t, place),
             UNCHANGED <<init, counters, cancelled, ui>>,
             todo' \in 0 .. Pieces, holding' \subseteq Ants, Fetched',
             {indexMutex', listMutex'} \subseteq Ants \cup {Free, Dead},
             failed' \subseteq Ants, reports' \in 0 .. MaxReports,
             UNCHANGED <<antsMutex, mirrors, stop, report, clicks>>
      PROVE  IInv'
  <2>1. Handlers' /\ Owned' /\ Counting'
          /\ pc' \in [Ants -> Alive \cup {"none", "exited"}]
    BY <1>0, <1>b, Moving DEF mirrors
  <2>2. TypeOK'
    BY <1>0, <1>b, <2>1 DEF TypeOK, counters, mirrors, report, clicks
  <2> QED
    BY <1>b, <2>1, <2>2 DEF IInv
<1>1. CASE GetTask(t)
  BY <1>0, <1>1, <1>b
  DEF GetTask, TypeOK, Fetched, mutexes, work, net, Alive, Cancellable
<1>2. CASE GetTaskEnter(t)
  BY <1>0, <1>2, <1>b
  DEF GetTaskEnter, TypeOK, Fetched, mutexes, work, net, Alive, Cancellable
<1>3. CASE GetTaskLeave(t)
  <2>1. pc[t] \in Alive /\ \E place \in Alive : At(t, place)
    BY <1>3 DEF GetTaskLeave, Alive, Cancellable
  <2>2. todo' \in 0 .. Pieces /\ holding' \subseteq Ants
    <3>1. todo \in 0 .. Pieces /\ holding \subseteq Ants
      BY <1>0 DEF TypeOK
    <3>2. \/ UNCHANGED <<todo, holding>>
          \/ todo > 0 /\ todo' = todo - 1 /\ holding' = holding \cup {t}
      BY <1>3 DEF GetTaskLeave, work
    <3>3. todo' \in 0 .. Pieces
      BY <1>a, <3>1, <3>2
    <3>4. holding' \subseteq Ants
      BY <3>1, <3>2, Zenon
    <3> QED
      BY <3>3, <3>4
  <2>3. Fetched'
    <3>1. /\ Cardinality(holding \cup {t}) \in Nat
          /\ Cardinality(holding \cup {t}) <= Cardinality(holding) + 1
          /\ Cardinality(holding) \in Nat
      BY <1>0, More, AntSets DEF TypeOK
    <3> QED
      BY <1>0, <1>3, <1>a, <3>1 DEF GetTaskLeave, TypeOK, Fetched, work
  <2> QED
    BY <1>0, <1>3, <1>b, <2>1, <2>2, <2>3 DEF GetTaskLeave, TypeOK, net
<1>4. CASE Received(t)
  BY <1>0, <1>4, <1>b
  DEF Received, TypeOK, Fetched, mutexes, work, net, Alive, Cancellable
<1>5. CASE FileData(t)
  <2>1. /\ Cardinality(holding \ {t}) \in Nat
        /\ Cardinality(holding \ {t}) <= Cardinality(holding)
        /\ Cardinality(holding) \in Nat
    BY <1>0, Less, AntSets DEF TypeOK
  <2>2. Fetched'
    BY <1>0, <1>5, <1>a, <2>1 DEF FileData, TypeOK, Fetched
  <2> QED
    BY <1>0, <1>5, <1>b, <2>2
    DEF FileData, TypeOK, mutexes, net, Alive, Cancellable
<1>6. CASE GivesUp(t)
  BY <1>0, <1>6, <1>b
  DEF GivesUp, TypeOK, Fetched, mutexes, work, net, Alive, Cancellable
<1>7. CASE QuitFileManager(t)
  <2>1. Fetched' /\ todo' \in 0 .. Pieces /\ holding' \subseteq Ants
    BY <1>0, <1>7, Releasing DEF QuitFileManager
  <2> QED
    BY <1>0, <1>7, <1>b, <2>1
    DEF QuitFileManager, TypeOK, mutexes, net, Alive, Cancellable
<1>8. CASE ThreadQuit(t)
  <2>1. pc[t] \in Alive /\ pc' = [pc EXCEPT ![t] = "exited"]
    BY <1>8 DEF ThreadQuit, At, Alive
  <2>2. \A u \in Ants : pc'[u] \in Alive <=> u # t /\ pc[u] \in Alive
    BY <1>0, <2>1 DEF TypeOK, Alive, Cancellable
  <2>3. Live' = Live \ {t} /\ t \in Live /\ Live \subseteq Ants
    BY <2>1, <2>2 DEF Live
  <2>4. nRunning \in Int /\ nRunning' = nRunning - 1
    BY <1>0, <1>8 DEF ThreadQuit, TypeOK
  <2>5. posted' \in Nat /\ status' \in {"running", "finish", "error"}
    BY <1>0, <1>8 DEF ThreadQuit, FinishTask, TypeOK, report
  <2>6. TypeOK'
    BY <1>0, <1>8, <2>1, <2>4, <2>5
    DEF ThreadQuit, TypeOK, mutexes, mirrors, work, net, clicks
  <2>7. Fetched' /\ Handlers'
    BY <1>0, <1>8 DEF ThreadQuit, Fetched, Handlers, mirrors, work
  <2>8. Owned'
    BY <1>0, <1>8, <2>2 DEF ThreadQuit, Owned
  <2>9. Counting'
    <3>0. init = "done"
      BY <1>0, <2>1 DEF Owned
    <3>1. /\ Cardinality(Live \ {t}) = Cardinality(Live) - 1
          /\ Cardinality(Live) \in Nat
      BY <2>3, Less, AntSets
    <3>2. ~antsMutex /\ nAnts' = nAnts /\ ui' = ui /\ init' = init
      BY <1>8 DEF ThreadQuit
    <3>3. Live' \ {nAnts'} = (Live \ {nAnts}) \ {t}
      BY <2>3, <3>2
    <3>4. CASE t = nAnts
      <4>1. Live' \ {nAnts'} = Live \ {nAnts}
        BY <3>3, <3>4
      <4>2. Cardinality(Live \ {nAnts}) \in Nat
        BY <2>3, Less
      <4>3. Cardinality(Live') = Cardinality(Live) - 1
        BY <2>3, <3>1
      <4>4. Cardinality(Live' \ {nAnts'}) = Cardinality(Live \ {nAnts})
        BY <4>1
      <4> QED
        BY <1>0, <2>4, <3>0, <3>1, <3>2, <4>2, <4>3, <4>4 DEF Counting
    <3>5. CASE t # nAnts
      <4>1. /\ Cardinality(Live' \ {nAnts'}) = Cardinality(Live \ {nAnts}) - 1
            /\ Cardinality(Live \ {nAnts}) \in Nat
        BY <2>3, <3>3, <3>5, Less, AntSets, Live \ {nAnts} \subseteq Ants,
           t \in Live \ {nAnts}
      <4> QED
        BY <1>0, <2>3, <2>4, <3>0, <3>1, <3>2, <4>1 DEF Counting
    <3> QED
      BY <3>4, <3>5
  <2> QED
    BY <2>6, <2>7, <2>8, <2>9 DEF IInv
<1>9. CASE Killed(t)
  <2>1. /\ t \in cancelled /\ pc' = [pc EXCEPT ![t] = "exited"]
        /\ UNCHANGED <<init, counters, cancelled, ui>>
    BY <1>9 DEF Killed, At
  <2>2. \A u \in Ants : pc'[u] \in Alive <=> u # t /\ pc[u] \in Alive
    BY <1>0, <2>1 DEF TypeOK, Alive, Cancellable
  <2>3. TypeOK'
    BY <1>0, <1>9, <2>1
    DEF Killed, Orphaned, TypeOK, counters, mirrors, work, report, net, clicks
  <2>4. Fetched' /\ Handlers'
    BY <1>0, <1>9 DEF Killed, Fetched, Handlers, counters, mirrors, work
  <2>5. Owned'
    BY <1>0, <2>1, <2>2 DEF Owned, counters
  <2>6. Counting'
    <3>1. ui \in {"reap", "gone"} \/ (ui = "join" /\ t = nAnts)
      BY <1>0, <2>1 DEF Handlers
    <3>2. ui = "join" => Live' \ {nAnts'} = Live \ {nAnts}
      BY <2>1, <2>2, <3>1 DEF Live, counters
    <3> QED
      BY <1>0, <2>1, <3>1, <3>2 DEF Counting, counters
  <2> QED
    BY <2>3, <2>4, <2>5, <2>6 DEF IInv
<1>10. CASE TryAgain(t)
  <2>1. reports' \in 0 .. MaxReports
    BY <1>0, <1>a, <1>10 DEF TryAgain, TypeOK
  <2>2. pc[t] \in Alive /\ \E place \in Alive : At(t, place)
    BY <1>10 DEF TryAgain, Alive, Cancellable
  <2> QED
    BY <1>0, <1>10, <1>b, <2>1, <2>2 DEF TryAgain, TypeOK, Fetched, mutexes, work
<1>11. CASE Report(t)
  <2>1. reports' \in 0 .. MaxReports
    BY <1>0, <1>a, <1>11 DEF Report, TypeOK
  <2>2. pc[t] \in Alive /\ \E place \in Alive : At(t, place)
    BY <1>11 DEF Report, Alive, Cancellable
  <2> QED
    BY <1>0, <1>11, <1>b, <2>1, <2>2 DEF Report, TypeOK, Fetched, mutexes, work
<1>12. CASE ListEnter(t)
  BY <1>0, <1>12, <1>b
  DEF ListEnter, TypeOK, Fetched, work, net, Alive, Cancellable
<1>13. CASE ListLeave(t)
  BY <1>0, <1>13, <1>b
  DEF ListLeave, TypeOK, Fetched, work, net, Alive, Cancellable
<1>14. CASE Compare(t)
  BY <1>0, <1>14, <1>b
  DEF Compare, TypeOK, Fetched, work, net, Alive, Cancellable
<1> QED
  BY <1>1, <1>2, <1>3, <1>4, <1>5, <1>6, <1>7, <1>8, <1>9, <1>10, <1>11, <1>12,
     <1>13, <1>14
  DEF AntStep, NetStep

(* The user clicks: nothing but the handler starts.                        *)
LEMMA ClickIInv == IInv /\ (ClickDown \/ ClickUp \/ ClickMirror \/ Destroy) => IInv'
<1> SUFFICES ASSUME IInv, ClickDown \/ ClickUp \/ ClickMirror \/ Destroy PROVE IInv'
  OBVIOUS
<1>0. TypeOK /\ Fetched /\ Handlers /\ Owned /\ Counting
  BY DEF IInv
<1>a. MaxUps \in Nat /\ MaxDowns \in Nat
  BY SingleTaskAssumption
<1>1. /\ UNCHANGED <<init, counters, pc, cancelled, mutexes, given, stop, work,
                     report, net>>
      /\ ui = "idle" /\ ui' \in {"down", "up", "pushed", "quit"}
  BY DEF ClickDown, ClickUp, ClickMirror, Destroy, mirrors
<1>2. ups' \in 0 .. MaxUps /\ downs' \in 0 .. MaxDowns
  BY <1>0, <1>a DEF ClickDown, ClickUp, ClickMirror, Destroy, clicks, TypeOK
<1>9. /\ pushed' \in pushed .. MaxMirrors /\ torn' \in BOOLEAN
      /\ ui' = "pushed" => pushed' = pushed + 1
  <2>1. CASE ClickMirror
    <3>1. torn' \in BOOLEAN
      BY <2>1 DEF ClickMirror
    <3> QED
      BY <1>0, <2>1, <3>1, SingleTaskAssumption DEF ClickMirror, TypeOK
  <2>2. CASE ClickDown \/ ClickUp \/ Destroy
    <3>1. pushed' = pushed /\ torn' = torn /\ ui' # "pushed"
      BY <2>2 DEF ClickDown, ClickUp, Destroy, mirrors
    <3> QED
      BY <1>0, <3>1, SingleTaskAssumption DEF TypeOK
  <2> QED
    BY <2>1, <2>2
<1>10. given' \subseteq 1 .. pushed' /\ pushed' \in 0 .. MaxMirrors
  BY <1>0, <1>1, <1>9, SingleTaskAssumption DEF TypeOK
<1>3. TypeOK'
  BY <1>0, <1>1, <1>2, <1>9, <1>10 DEF TypeOK, counters, mutexes, work, report, net
<1>4. Fetched' /\ Owned' /\ Live' = Live
  BY <1>0, <1>1 DEF Fetched, Owned, Live, work, counters
<1>5. ui' = "down" => init = "done" /\ nAnts > 1
  BY <1>0 DEF Counting, ClickDown, ClickUp, ClickMirror, Destroy
<1>6. ui' = "up" => nAnts < MaxAnts
  BY DEF ClickDown, ClickUp, ClickMirror, Destroy, Room
<1>11. ui' = "pushed" => pushed' >= 1
  BY <1>0, <1>9 DEF TypeOK
<1>7. Handlers'
  BY <1>0, <1>1, <1>5, <1>6, <1>11 DEF Handlers, counters
<1>8. Counting'
  BY <1>0, <1>1, <1>4 DEF Counting, counters
<1> QED
  BY <1>3, <1>4, <1>7, <1>8 DEF IInv

(* The user interface thread hands a mirror over.                          *)
LEMMA MirrorIInv == IInv /\ (TestFM \/ AddMirrorUrl) => IInv'
<1> SUFFICES ASSUME IInv, TestFM \/ AddMirrorUrl PROVE IInv'
  OBVIOUS
<1>0. TypeOK /\ Fetched /\ Handlers /\ Owned /\ Counting
  BY DEF IInv
<1>1. /\ UNCHANGED <<init, counters, pc, cancelled, mutexes, pushed, torn, stop,
                     work, report, net, clicks>>
      /\ ui \in {"pushed", "mirror"} /\ ui' \in {"mirror", "idle"}
  BY DEF TestFM, AddMirrorUrl, mirrors
<1>2. pushed \in 1 .. MaxMirrors /\ given \subseteq 1 .. pushed
  BY <1>0, <1>1, SingleTaskAssumption DEF TypeOK, Handlers
<1>3. given' \subseteq 1 .. pushed'
  <2>1. given' = given \/ given' = given \cup {pushed}
    BY DEF TestFM, AddMirrorUrl, mirrors
  <2>2. pushed \in 1 .. pushed
    BY <1>2, SingleTaskAssumption
  <2> QED
    BY <1>1, <1>2, <2>1, <2>2
<1>4. TypeOK'
  BY <1>0, <1>1, <1>3
  DEF TypeOK, counters, mutexes, work, report, net, clicks
<1>5. Fetched' /\ Owned' /\ Live' = Live
  BY <1>0, <1>1 DEF Fetched, Owned, Live, work, counters
<1>6. Handlers' /\ Counting'
  BY <1>0, <1>1, <1>5 DEF Handlers, Counting, counters
<1> QED
  BY <1>4, <1>5, <1>6 DEF IInv

(* ThreadUp and ThreadDown go on.                                          *)
LEMMA ThreadUpDownIInv ==
  IInv /\ (DownCancel \/ DownJoin \/ DownRelease \/ UpEarly \/ UpStart) => IInv'
<1> SUFFICES ASSUME IInv,
                    DownCancel \/ DownJoin \/ DownRelease \/ UpEarly \/ UpStart
             PROVE IInv'
  OBVIOUS
<1>0. TypeOK /\ Fetched /\ Handlers /\ Owned /\ Counting
  BY DEF IInv
<1>a. MaxAnts \in Nat /\ nAnts \in Ants /\ nAnts \in Nat /\ nRunning \in Int
  BY <1>0, SingleTaskAssumption DEF TypeOK, Handlers, Ants
<1>b. Live \subseteq Ants
  BY DEF Live
<1>1. CASE DownCancel
  <2>1. /\ UNCHANGED <<init, counters, pc, work>> /\ ui = "down" /\ ui' = "join"
        /\ cancelled' = cancelled \cup {nAnts}
    BY <1>1 DEF DownCancel
  <2>2. TypeOK'
    BY <1>0, <1>1, <1>a
    DEF DownCancel, TypeOK, counters, mirrors, work, report, net, clicks
  <2>3. Fetched' /\ Owned' /\ Live' = Live
    BY <1>0, <2>1 DEF Fetched, Owned, Live, work, counters
  <2>4. Handlers'
    BY <1>0, <2>1 DEF Handlers, counters
  <2>5. Cardinality(Live) <= Cardinality(Live \ {nAnts}) + 1
          /\ Cardinality(Live) \in Nat /\ Cardinality(Live \ {nAnts}) \in Nat
    BY <1>b, Less, AntSets
  <2>6. Counting'
    BY <1>0, <1>a, <2>1, <2>3, <2>5 DEF Counting, counters
  <2> QED
    BY <2>2, <2>3, <2>4, <2>6 DEF IInv
<1>2. CASE DownJoin
  <2>1. /\ UNCHANGED <<init, nAnts, nRunning, work>>
        /\ ui = "join" /\ ui' = "release"
        /\ pAnts' = pAnts \ {nAnts} /\ cancelled' = cancelled \ {nAnts}
        /\ pc[nAnts] = "exited" /\ pc' = [pc EXCEPT ![nAnts] = "none"]
    BY <1>2 DEF DownJoin, At
  <2>2. TypeOK'
    BY <1>0, <1>2, <1>a, <2>1
    DEF DownJoin, TypeOK, mutexes, mirrors, work, report, net, clicks
  <2>3. \A u \in Ants : pc'[u] \in Alive <=> u # nAnts /\ pc[u] \in Alive
    BY <1>0, <2>1 DEF TypeOK, Alive, Cancellable
  <2>4. Live' \ {nAnts'} = Live \ {nAnts}
    BY <2>1, <2>3 DEF Live
  <2>5. Fetched' /\ Handlers'
    BY <1>0, <2>1 DEF Fetched, Handlers, work
  <2>6. Owned'
    BY <1>0, <2>1, <2>3 DEF Owned
  <2>7. Counting'
    BY <1>0, <2>1, <2>4 DEF Counting
  <2> QED
    BY <2>2, <2>5, <2>6, <2>7 DEF IInv
<1>3. CASE DownRelease
  <2>1. /\ UNCHANGED <<init, pAnts, pc, cancelled>> /\ ui = "release"
        /\ ui' = "idle" /\ nAnts' = nAnts - 1 /\ nRunning' = nRunning - 1
    BY <1>3 DEF DownRelease
  <2>2. Fetched' /\ todo' \in 0 .. Pieces /\ holding' \subseteq Ants
    BY <1>0, <1>3, Releasing DEF DownRelease
  <2>3. nAnts > 1 /\ init = "done"
    BY <1>0, <2>1 DEF Handlers
  <2>4. nAnts' \in 0 .. MaxAnts /\ nRunning' \in Int
    BY <1>0, <1>a, <2>1, <2>3 DEF TypeOK
  <2>5. antsMutex' \in BOOLEAN
    BY <1>3 DEF DownRelease
  <2>6. TypeOK'
    BY <1>0, <1>3, <2>1, <2>2, <2>4, <2>5
    DEF DownRelease, TypeOK, mirrors, report, net, clicks
  <2>7. Handlers' /\ Owned' /\ Live' = Live
    BY <1>0, <1>a, <2>1, <2>3 DEF Handlers, Owned, Live
  <2>8. Cardinality(Live \ {nAnts}) <= Cardinality(Live)
          /\ Cardinality(Live) \in Nat /\ Cardinality(Live \ {nAnts}) \in Nat
    BY <1>b, Less, AntSets
  <2>9. Counting'
    BY <1>0, <1>a, <2>1, <2>3, <2>7, <2>8 DEF Counting
  <2> QED
    BY <2>2, <2>6, <2>7, <2>9 DEF IInv
<1>4. CASE UpEarly
  <2>1. /\ UNCHANGED <<init, nRunning, pAnts, pc, cancelled, work>>
        /\ ui = "up" /\ ui' = "idle" /\ nAnts' = nAnts + 1 /\ init # "done"
    BY <1>4 DEF UpEarly
  <2>2. nAnts < MaxAnts
    BY <1>0, <2>1 DEF Handlers
  <2>3. TypeOK'
    BY <1>0, <1>4, <1>a, <2>1, <2>2
    DEF UpEarly, TypeOK, mutexes, mirrors, work, report, net, clicks
  <2>4. Fetched' /\ Handlers' /\ Owned' /\ Counting'
    BY <1>0, <1>a, <2>1 DEF Fetched, Handlers, Owned, Counting, work
  <2> QED
    BY <2>3, <2>4 DEF IInv
<1>5. CASE UpStart
  <2>1. /\ UNCHANGED <<init, cancelled, work>> /\ ui = "up" /\ ui' = "idle"
        /\ init = "done" /\ nAnts' = nAnts + 1 /\ nRunning' = nRunning + 1
        /\ nAnts + 1 \notin pAnts /\ pAnts' = pAnts \cup {nAnts + 1}
        /\ pc' = [pc EXCEPT ![nAnts + 1] = "work"]
    BY <1>5 DEF UpStart, At
  <2>2. nAnts + 1 \in Ants /\ nAnts < MaxAnts
    BY <1>0, <1>a, <2>1 DEF Handlers, Ants
  <2>3. TypeOK'
    BY <1>0, <1>5, <1>a, <2>1, <2>2
    DEF UpStart, TypeOK, mutexes, mirrors, work, report, net, clicks, Alive,
        Cancellable
  <2>4. \A u \in Ants : pc'[u] \in Alive <=> u = nAnts + 1 \/ pc[u] \in Alive
    BY <1>0, <2>1 DEF TypeOK, Alive, Cancellable
  <2>5. Live' = Live \cup {nAnts + 1} /\ nAnts + 1 \notin Live
    BY <1>0, <2>1, <2>2, <2>4 DEF Live, Owned
  <2>6. Cardinality(Live') = Cardinality(Live) + 1 /\ Cardinality(Live) \in Nat
    BY <1>b, <2>2, <2>5, More, AntSets
  <2>7. Fetched' /\ Handlers'
    BY <1>0, <1>a, <2>1 DEF Fetched, Handlers, work
  <2>8. Owned'
    BY <1>0, <2>1, <2>2, <2>4 DEF Owned
  <2>9. Counting'
    BY <1>0, <1>a, <2>1, <2>6 DEF Counting
  <2> QED
    BY <2>3, <2>7, <2>8, <2>9 DEF IInv
<1> QED
  BY <1>1, <1>2, <1>3, <1>4, <1>5

(* The destructor goes on.                                                 *)
LEMMA DestructorIInv ==
  IInv /\ (DestroyInit \/ ReapCancel \/ ReapJoin \/ Destroyed) => IInv'
<1> SUFFICES ASSUME IInv, DestroyInit \/ ReapCancel \/ ReapJoin \/ Destroyed
             PROVE IInv'
  OBVIOUS
<1>0. TypeOK /\ Fetched /\ Handlers /\ Owned /\ Counting
  BY DEF IInv
<1>1. CASE DestroyInit
  <2>0. stop' \in BOOLEAN
    BY <1>1 DEF DestroyInit, HasFM
  <2>1. TypeOK'
    BY <1>0, <1>1, <2>0
    DEF DestroyInit, TypeOK, counters, mutexes, mirrors, work, report, net, clicks
  <2>2. Handlers'
    BY <1>0, <1>1 DEF DestroyInit, InitJoinable, Handlers, counters, TypeOK
  <2>3. Fetched' /\ Owned' /\ Counting'
    BY <1>0, <1>1 DEF DestroyInit, Fetched, Owned, Counting, counters, work
  <2> QED
    BY <2>1, <2>2, <2>3 DEF IInv
<1>2. CASE ReapCancel
  <2>1. cancelled' \subseteq Ants
    BY <1>0, <1>2 DEF ReapCancel, TypeOK
  <2>2. TypeOK'
    BY <1>0, <1>2, <2>1
    DEF ReapCancel, TypeOK, counters, mutexes, mirrors, work, report, net, clicks
  <2>3. Fetched' /\ Handlers' /\ Owned' /\ Counting'
    BY <1>0, <1>2 DEF ReapCancel, Fetched, Handlers, Owned, Counting, counters, work
  <2> QED
    BY <2>2, <2>3 DEF IInv
<1>3. CASE ReapJoin
  <2>1. TypeOK'
    BY <1>0, <1>3
    DEF ReapJoin, TypeOK, mutexes, mirrors, work, report, net, clicks
  <2>2. Owned'
    BY <1>0, <1>3 DEF ReapJoin, Owned, Alive, Cancellable
  <2>3. Fetched' /\ Handlers' /\ Counting'
    BY <1>0, <1>3 DEF ReapJoin, Fetched, Handlers, Counting, work
  <2> QED
    BY <2>1, <2>2, <2>3 DEF IInv
<1>4. CASE Destroyed
  <2>1. TypeOK'
    BY <1>0, <1>4
    DEF Destroyed, TypeOK, counters, mutexes, mirrors, work, report, net, clicks
  <2>2. Fetched' /\ Handlers' /\ Owned' /\ Counting'
    BY <1>0, <1>4 DEF Destroyed, Fetched, Handlers, Owned, Counting, counters, work
  <2> QED
    BY <2>1, <2>2 DEF IInv
<1> QED
  BY <1>1, <1>2, <1>3, <1>4

(* Every step of every thread.                                             *)
LEMMA NextIInv == IInv /\ [Next]_vars => IInv'
<1> SUFFICES ASSUME IInv, [Next]_vars PROVE IInv'
  OBVIOUS
<1>1. CASE InitStep
  BY <1>1, InitStepIInv
<1>2. ASSUME NEW t \in Ants, AntStep(t) \/ NetStep(t)
      PROVE  IInv'
  BY <1>2, AntIInv
<1>3. CASE ClickDown \/ ClickUp \/ ClickMirror \/ Destroy
  BY <1>3, ClickIInv
<1>4. CASE Handler
  BY <1>4, MirrorIInv, ThreadUpDownIInv, DestructorIInv DEF Handler
<1>5. CASE UNCHANGED vars
  <2>1. TypeOK'
    BY <1>5
    DEF IInv, TypeOK, vars, counters, mutexes, mirrors, work, report, net, clicks
  <2>2. Fetched' /\ Handlers' /\ Owned' /\ Counting'
    BY <1>5
    DEF IInv, Fetched, Handlers, Owned, Counting, Live, vars, counters, mirrors, work
  <2> QED
    BY <2>1, <2>2 DEF IInv
<1> QED
  BY <1>1, <1>2, <1>3, <1>4, <1>5 DEF Next

-----------------------------------------------------------------------------
(* Why the end of a task is reported, and as what: a second invariant, on  *)
(* top of the first.                                                       *)

(* No ant was taken away, told to stop or failed by its server.            *)
Undisturbed == downs = 0 /\ ~stop /\ failed = {}

(* Ants that were added so far (or may have been: see UpEarly).            *)
Added == IF ui = "up" THEN ups - 1 ELSE ups

(* Without ThreadDown the count is exact, and the ant that brings it to 0  *)
(* has reported.                                                           *)
Exact ==
  downs = 0 =>
    /\ ui \notin {"down", "join", "release"}
    /\ init \in {"info", "check", "mirrors", "start"} => posted = 0
    /\ ui = "up" => ups > 0
    /\ init = "done" /\ ui \notin {"reap", "gone"} =>
         /\ nRunning = Cardinality(Live)
         /\ IF Live = {} THEN posted \in 1 .. Added + 1 ELSE posted <= Added

(* The destructor stops a task whose ants run, and nothing else stops it.  *)
Stopped ==
  /\ stop => ui \in {"reap", "gone"}
  /\ ui \in {"reap", "gone"} /\ init = "done" => stop

(* Only an ant at work has a piece, and an ant that leaves has found none. *)
Fetching ==
  Undisturbed =>
    /\ \A t \in holding : pc[t] \in Cancellable \cup {"write"}
    /\ \A t \in Ants : pc[t] \in {"quitFM", "quitTask", "exited"} => todo = 0

JInv == Exact /\ Stopped /\ Fetching /\ ErrorHasCause

LEMMA InitJInv == Init => JInv
BY DEF Init, JInv, Exact, Stopped, Fetching, Undisturbed, ErrorHasCause

LEMMA InitStepJInv == IInv /\ JInv /\ InitStep => JInv'
<1> SUFFICES ASSUME IInv, JInv, InitStep PROVE JInv'
  OBVIOUS
<1>0. TypeOK /\ Handlers /\ Owned /\ Exact /\ Stopped /\ Fetching /\ ErrorHasCause
  BY DEF IInv, JInv
<1>1. CASE InfoFails
  BY <1>0, <1>1
  DEF InfoFails, FinishTask, JInv, Exact, Stopped, Fetching, Undisturbed,
      ErrorHasCause, Live, counters, work, net, clicks
<1>2. ASSUME NEW single \in BOOLEAN, InfoDone(single)
      PROVE  JInv'
  BY <1>0, <1>2
  DEF InfoDone, JInv, Exact, Stopped, Fetching, Undisturbed, ErrorHasCause,
      Live, work, report, net, clicks
<1>4. CASE CheckFails
  BY <1>0, <1>4
  DEF CheckFails, FinishTask, JInv, Exact, Stopped, Fetching, Undisturbed,
      ErrorHasCause, Live, counters, work, net, clicks
<1>5. CASE CheckDone \/ GiveMirrors
  BY <1>0, <1>5
  DEF CheckDone, GiveMirrors, JInv, Exact, Stopped, Fetching, Undisturbed,
      ErrorHasCause, Live, counters, work, report, net, clicks
<1>3. CASE InitAnts
  <2>1. nAnts \in 1 .. MaxAnts /\ 1 .. nAnts \subseteq Ants
    BY <1>0, SingleTaskAssumption DEF TypeOK, Handlers, Ants
  <2>2. \A t \in Ants : pc'[t] = IF t \in 1 .. nAnts THEN "work" ELSE "none"
    BY <1>3 DEF InitAnts
  <2>3. Live' = 1 .. nAnts
    BY <2>1, <2>2 DEF Live, Alive, Cancellable
  <2>4. Cardinality(Live') = nAnts /\ Live' # {}
    <3>1. nAnts \in Nat /\ nAnts >= 1 /\ 1 \in 1 .. nAnts
      BY <2>1, SingleTaskAssumption
    <3>2. Cardinality(1 .. nAnts) = nAnts
      BY <3>1, FS_Interval
    <3> QED
      BY <2>3, <3>1, <3>2
  <2>5. Exact' /\ Stopped' /\ ErrorHasCause'
    <3>1. ups \in Nat
      BY <1>0, SingleTaskAssumption DEF TypeOK
    <3> QED
      BY <1>0, <1>3, <2>4, <3>1
      DEF InitAnts, Exact, Added, Stopped, ErrorHasCause, Handlers, work, report,
          net, clicks
  <2>6. Fetching'
    <3>1. \A t \in Ants : pc[t] \notin Cancellable \cup {"write"}
      BY <1>0, <1>3 DEF InitAnts, Owned, Alive, Cancellable
    <3>2. Undisturbed => holding = {}
      BY <1>0, <3>1 DEF Fetching, TypeOK
    <3> QED
      BY <1>3, <2>2, <3>2 DEF InitAnts, Fetching, Undisturbed, work, net, clicks
  <2> QED
    BY <2>5, <2>6 DEF JInv
<1> QED
  BY <1>1, <1>2, <1>3, <1>4, <1>5 DEF InitStep, CheckStep

LEMMA AntJInv ==
  ASSUME IInv, JInv, NEW t \in Ants, AntStep(t) \/ NetStep(t)
  PROVE  JInv'
<1>0. /\ TypeOK /\ Handlers /\ Owned
      /\ Exact /\ Stopped /\ Fetching /\ ErrorHasCause
  BY DEF IInv, JInv
<1>a. Pieces \in Nat /\ todo \in Nat /\ holding \subseteq Ants
        /\ posted \in Nat /\ nRunning \in Int /\ Live \subseteq Ants
  BY <1>0, SingleTaskAssumption DEF TypeOK, Live
<1>b. ASSUME NEW place \in Alive, pc[t] \in Alive, At(t, place),
             UNCHANGED <<init, nRunning, ui, stop, status, posted, ups, downs>>,
             failed \subseteq failed', Fetching'
      PROVE  JInv'
  <2>1. Live' = Live
    BY <1>0, <1>b DEF Live, TypeOK, At
  <2> QED
    BY <1>0, <1>b, <2>1 DEF JInv, Exact, Added, Stopped, ErrorHasCause
<1>1. CASE GetTask(t)
  <2>1. Fetching'
    BY <1>0, <1>1, <1>a
    DEF GetTask, At, TypeOK, Fetching, Undisturbed, Stopped, work, net, clicks,
        Cancellable
  <2> QED
    BY <1>1, <1>b, <2>1
    DEF GetTask, Alive, Cancellable, counters, report, net, clicks
<1>2. CASE GetTaskEnter(t)
  <2>1. Fetching'
    BY <1>0, <1>2, <1>a
    DEF GetTaskEnter, At, TypeOK, Fetching, Undisturbed, work, net, clicks, Cancellable
  <2> QED
    BY <1>2, <1>b, <2>1
    DEF GetTaskEnter, Alive, Cancellable, counters, report, net, clicks
<1>3. CASE GetTaskLeave(t)
  <2>1. Fetching'
    BY <1>0, <1>3, <1>a
    DEF GetTaskLeave, At, TypeOK, Fetching, Undisturbed, work, net, clicks, Cancellable
  <2> QED
    BY <1>3, <1>b, <2>1
    DEF GetTaskLeave, Alive, Cancellable, counters, report, net, clicks
<1>4. CASE Received(t)
  <2>1. Fetching'
    BY <1>0, <1>4, <1>a
    DEF Received, At, TypeOK, Fetching, Undisturbed, work, net, clicks, Cancellable
  <2> QED
    BY <1>4, <1>b, <2>1
    DEF Received, Alive, Cancellable, counters, report, net, clicks
<1>5. CASE FileData(t)
  <2>1. Fetching'
    BY <1>0, <1>5, <1>a
    DEF FileData, At, TypeOK, Fetching, Undisturbed, net, clicks, Cancellable
  <2> QED
    BY <1>5, <1>b, <2>1
    DEF FileData, Alive, Cancellable, counters, report, net, clicks
<1>6. CASE GivesUp(t)
  <2>1. failed' # {}
    BY <1>6 DEF GivesUp
  <2>2. Fetching'
    BY <2>1 DEF Fetching, Undisturbed
  <2> QED
    BY <1>6, <1>b, <2>2 DEF GivesUp, Alive, Cancellable, counters, report, clicks
<1>7. CASE QuitFileManager(t)
  <2>1. Undisturbed => t \notin holding
    BY <1>0, <1>7 DEF QuitFileManager, Fetching, Cancellable
  <2>2. Undisturbed => UNCHANGED <<todo, holding>>
    BY <1>7, <2>1 DEF QuitFileManager, Release
  <2>3. Fetching'
    BY <1>0, <1>7, <1>a, <2>1, <2>2
    DEF QuitFileManager, At, TypeOK, Fetching, Undisturbed, net, clicks
  <2> QED
    BY <1>7, <1>b, <2>3
    DEF QuitFileManager, Alive, Cancellable, counters, report, net, clicks
<1>8. CASE ThreadQuit(t)
  <2>1. /\ pc[t] = "quitTask" /\ pc' = [pc EXCEPT ![t] = "exited"]
        /\ UNCHANGED <<init, ui, stop, todo, holding, failed, ups, downs>>
        /\ nRunning' = nRunning - 1
    BY <1>8 DEF ThreadQuit, At, work, net, clicks
  <2>2. Live' = Live \ {t} /\ t \in Live
    BY <1>0, <2>1 DEF TypeOK, Live, Alive, Cancellable
  <2>3. /\ Cardinality(Live') = Cardinality(Live) - 1
        /\ Cardinality(Live') \in Nat /\ Cardinality(Live) \in Nat
        /\ IsFiniteSet(Live')
    BY <1>a, <2>2, Less, AntSets
  <2>4. Live' = {} <=> Cardinality(Live') = 0
    BY <2>3, FS_EmptySet
  <2>5. init = "done"
    BY <1>0, <2>1 DEF Owned, Alive
  <2>6. Exact'
    <3>1. ups \in Nat /\ Live # {}
      BY <1>0, <2>2, SingleTaskAssumption DEF TypeOK
    <3>2. Added \in Int
      BY <3>1 DEF Added
    <3>3. Added' = Added
      BY <2>1 DEF Added
    <3>4. posted' = IF nRunning' <= 0 THEN posted + 1 ELSE posted
      BY <1>8 DEF ThreadQuit, Last, FinishTask, report
    <3>5. SUFFICES ASSUME downs = 0, ui \notin {"reap", "gone"}
                   PROVE  /\ nRunning' = Cardinality(Live')
                          /\ IF Live' = {} THEN posted' \in 1 .. Added + 1
                                         ELSE posted' <= Added
      BY <1>0, <2>1, <2>5, <3>3 DEF Exact
    <3>6. nRunning = Cardinality(Live) /\ posted <= Added
      BY <1>0, <2>5, <3>1, <3>5 DEF Exact
    <3>7. nRunning' = Cardinality(Live')
      BY <2>1, <2>3, <3>6
    <3>8. nRunning' <= 0 <=> Live' = {}
      BY <2>3, <2>4, <3>7
    <3> QED
      BY <1>a, <3>2, <3>4, <3>6, <3>7, <3>8
  <2>7. Stopped' /\ Fetching'
    BY <1>0, <1>a, <2>1 DEF Stopped, Fetching, Undisturbed, TypeOK, Cancellable
  <2>8. ErrorHasCause'
    <3>0. downs \in Nat
      BY <1>0, SingleTaskAssumption DEF TypeOK
    <3>1. CASE ~Last(nRunning') \/ IsTaskFinish \/ ~Undisturbed
      BY <1>0, <1>8, <2>1, <3>0, <3>1
      DEF ThreadQuit, FinishTask, ErrorHasCause, Undisturbed, report
    <3>2. CASE Last(nRunning') /\ ~IsTaskFinish /\ Undisturbed
      <4>1. ui # "quit" /\ ui \notin {"reap", "gone"}
        BY <1>0, <1>8, <2>5, <3>2 DEF ThreadQuit, FinishTask, Stopped, Undisturbed
      <4>2. Live' = {}
        BY <1>0, <1>a, <2>1, <2>3, <2>4, <2>5, <3>2, <4>1
        DEF Exact, Last, Undisturbed, TypeOK
      <4>3. \A u \in Ants : pc[u] \in Alive => u = t
        BY <2>2, <4>2 DEF Live
      <4>4. holding = {}
        BY <1>0, <1>a, <2>1, <3>2, <4>3 DEF Fetching, Alive, Cancellable
      <4>5. todo = 0
        BY <1>0, <2>1, <3>2 DEF Fetching
      <4> QED
        BY <3>2, <4>4, <4>5 DEF IsTaskFinish
    <3> QED
      BY <3>1, <3>2
  <2> QED
    BY <2>6, <2>7, <2>8 DEF JInv
<1>9. CASE Killed(t)
  <2>1. /\ t \in cancelled /\ pc[t] \in Cancellable
        /\ UNCHANGED <<init, nRunning, nAnts, ui, stop, todo, holding, status,
                       posted, failed, downs>>
    BY <1>9 DEF Killed, counters, work, report, net, clicks
  <2>2. init = "done"
    BY <1>0, <2>1 DEF Owned, Alive
  <2>3. ui \in {"reap", "gone", "join"}
    BY <1>0, <2>1 DEF Handlers
  <2>4. ~Undisturbed'
    BY <1>0, <2>1, <2>2, <2>3 DEF Exact, Stopped, Undisturbed
  <2> QED
    BY <1>0, <2>1, <2>3, <2>4
    DEF JInv, Exact, Stopped, Fetching, ErrorHasCause
<1>10. CASE TryAgain(t)
  <2>1. Fetching'
    BY <1>0, <1>10, <1>a
    DEF TryAgain, At, TypeOK, Fetching, Undisturbed, work, clicks, Cancellable
  <2> QED
    BY <1>10, <1>b, <2>1
    DEF TryAgain, Alive, Cancellable, counters, report, clicks
<1>11. CASE Report(t)
  <2>1. Fetching'
    BY <1>0, <1>11, <1>a
    DEF Report, At, TypeOK, Fetching, Undisturbed, work, clicks, Cancellable
  <2> QED
    BY <1>11, <1>b, <2>1
    DEF Report, Alive, Cancellable, counters, report, clicks
<1>12. CASE ListEnter(t)
  <2>1. Fetching'
    BY <1>0, <1>12, <1>a
    DEF ListEnter, At, TypeOK, Fetching, Undisturbed, work, net, clicks, Cancellable
  <2> QED
    BY <1>12, <1>b, <2>1
    DEF ListEnter, Alive, Cancellable, counters, report, net, clicks
<1>13. CASE ListLeave(t)
  <2>1. Fetching'
    BY <1>0, <1>13, <1>a
    DEF ListLeave, At, TypeOK, Fetching, Undisturbed, work, net, clicks, Cancellable
  <2> QED
    BY <1>13, <1>b, <2>1
    DEF ListLeave, Alive, Cancellable, counters, report, net, clicks
<1>14. CASE Compare(t)
  <2>1. Fetching'
    BY <1>0, <1>14, <1>a
    DEF Compare, At, TypeOK, Fetching, Undisturbed, work, net, clicks, Cancellable
  <2> QED
    BY <1>14, <1>b, <2>1
    DEF Compare, Alive, Cancellable, counters, report, net, clicks
<1> QED
  BY <1>1, <1>2, <1>3, <1>4, <1>5, <1>6, <1>7, <1>8, <1>9, <1>10, <1>11, <1>12,
     <1>13, <1>14
  DEF AntStep, NetStep

LEMMA UserJInv ==
  IInv /\ JInv /\ (ClickDown \/ ClickUp \/ ClickMirror \/ Destroy \/ Handler) => JInv'
<1> SUFFICES ASSUME IInv, JInv,
                    ClickDown \/ ClickUp \/ ClickMirror \/ Destroy \/ Handler
             PROVE  JInv'
  OBVIOUS
<1>0. /\ TypeOK /\ Handlers /\ Owned
      /\ Exact /\ Stopped /\ Fetching /\ ErrorHasCause
  BY DEF IInv, JInv
<1>a. downs \in Nat /\ nAnts \in Nat /\ MaxAnts \in Nat /\ Live \subseteq Ants
  BY <1>0, SingleTaskAssumption DEF TypeOK, Live
<1>1. CASE ClickDown
  <2>1. downs' > 0 /\ ui = "idle" /\ ui' = "down" /\ stop' = stop
    BY <1>1, <1>a DEF ClickDown
  <2> QED
    BY <1>0, <2>1 DEF JInv, Exact, Stopped, Fetching, Undisturbed, ErrorHasCause
<1>2. CASE ClickUp \/ ClickMirror \/ Destroy
  <2>1. /\ UNCHANGED <<init, nRunning, pc, stop, todo, holding, status, posted,
                       failed, downs>>
        /\ ui = "idle" /\ ui' \in {"up", "pushed", "quit"}
        /\ IF ui' = "up" THEN ups' = ups + 1 ELSE ups' = ups
        /\ ups \in Nat
    BY <1>0, <1>2, SingleTaskAssumption
    DEF ClickUp, ClickMirror, Destroy, TypeOK, counters, work, report, net, clicks
  <2>2. Added' = Added /\ Live' = Live
    BY <2>1 DEF Added, Live
  <2> QED
    BY <1>0, <2>1, <2>2
    DEF JInv, Exact, Stopped, Fetching, Undisturbed, ErrorHasCause
<1>8. CASE TestFM \/ AddMirrorUrl
  <2>1. /\ UNCHANGED <<init, nRunning, pc, stop, todo, holding, status, posted,
                       failed, ups, downs>>
        /\ ui \in {"pushed", "mirror"} /\ ui' \in {"mirror", "idle"}
    BY <1>8 DEF TestFM, AddMirrorUrl, counters, work, report, net, clicks
  <2>2. Added' = Added /\ Live' = Live
    BY <2>1 DEF Added, Live
  <2> QED
    BY <1>0, <2>1, <2>2
    DEF JInv, Exact, Stopped, Fetching, Undisturbed, ErrorHasCause
<1>3. CASE DownCancel \/ DownJoin \/ DownRelease
  <2>1. downs > 0 /\ downs' = downs /\ stop' = stop /\ init' = init
          /\ ui \in {"down", "join", "release"}
          /\ ui' \in {"join", "release", "idle"}
    BY <1>0, <1>3, <1>a DEF DownCancel, DownJoin, DownRelease, Exact, clicks
  <2> QED
    BY <1>0, <2>1 DEF JInv, Exact, Stopped, Fetching, Undisturbed, ErrorHasCause
<1>4. CASE UpEarly
  BY <1>0, <1>4
  DEF UpEarly, JInv, Exact, Stopped, Fetching, Undisturbed, ErrorHasCause, Live,
      work, report, net, clicks
<1>5. CASE UpStart
  <2>1. /\ ui = "up" /\ ui' = "idle" /\ init = "done" /\ nAnts + 1 \notin pAnts
        /\ pc' = [pc EXCEPT ![nAnts + 1] = "work"] /\ nRunning' = nRunning + 1
        /\ UNCHANGED <<init, stop, todo, holding, status, posted, failed, ups,
                       downs>>
    BY <1>5 DEF UpStart, At, work, report, net, clicks
  <2>2. nAnts + 1 \in Ants
    BY <1>0, <1>a, <2>1 DEF Handlers, Ants
  <2>3. Live' = Live \cup {nAnts + 1} /\ nAnts + 1 \notin Live
    BY <1>0, <2>1, <2>2 DEF TypeOK, Live, Owned, Alive, Cancellable
  <2>4. Cardinality(Live') = Cardinality(Live) + 1 /\ Live' # {}
    BY <1>a, <2>2, <2>3, More
  <2>5. Exact' /\ Stopped' /\ ErrorHasCause'
    <3>1. ups \in Nat /\ posted \in Nat
      BY <1>0, SingleTaskAssumption DEF TypeOK
    <3> QED
      BY <1>0, <2>1, <2>4, <3>1 DEF Exact, Added, Stopped, ErrorHasCause
  <2>6. Fetching'
    BY <1>0, <2>1, <2>2 DEF Fetching, Undisturbed, TypeOK, Cancellable
  <2> QED
    BY <2>5, <2>6 DEF JInv
<1>6. CASE DestroyInit
  <2>1. /\ ui = "quit" /\ ui' = "reap" /\ (init' = "done" => stop')
        /\ init' = "failed" <=> init = "failed"
        /\ init' \notin {"info", "check", "mirrors", "start"}
        /\ UNCHANGED <<work, report, pc, failed, clicks>>
    BY <1>0, <1>6 DEF DestroyInit, InitJoinable, HasFM, net, TypeOK
  <2>2. ~stop
    BY <1>0, <2>1 DEF Stopped
  <2>3. Exact' /\ Stopped' /\ Fetching'
    BY <1>0, <2>1, <2>2 DEF Exact, Stopped, Fetching, Undisturbed, work, clicks
  <2>4. ErrorHasCause'
    BY <1>0, <2>1, <2>2 DEF ErrorHasCause, report, clicks
  <2> QED
    BY <2>3, <2>4 DEF JInv
<1>7. CASE ReapCancel \/ ReapJoin \/ Destroyed
  <2>1. /\ ui = "reap" /\ ui' \in {"reap", "gone"}
        /\ UNCHANGED <<init, stop, work, report, pc, failed, clicks>>
    BY <1>7 DEF ReapCancel, ReapJoin, Destroyed, net
  <2> QED
    BY <1>0, <2>1
    DEF JInv, Exact, Stopped, Fetching, Undisturbed, ErrorHasCause, work,
        report, clicks
<1> QED
  BY <1>1, <1>2, <1>3, <1>4, <1>5, <1>6, <1>7, <1>8 DEF Handler

LEMMA NextJInv == IInv /\ JInv /\ [Next]_vars => JInv'
<1> SUFFICES ASSUME IInv, JInv, [Next]_vars PROVE JInv'
  OBVIOUS
<1>1. CASE InitStep
  BY <1>1, InitStepJInv
<1>2. ASSUME NEW t \in Ants, AntStep(t) \/ NetStep(t)
      PROVE  JInv'
  BY <1>2, AntJInv
<1>3. CASE ClickDown \/ ClickUp \/ ClickMirror \/ Destroy \/ Handler
  BY <1>3, UserJInv
<1>4. CASE UNCHANGED vars
  BY <1>4
  DEF JInv, Exact, Added, Stopped, Fetching, Undisturbed, ErrorHasCause, Live,
      vars, counters, work, report, net, clicks
<1> QED
  BY <1>1, <1>2, <1>3, <1>4 DEF Next
-----------------------------------------------------------------------------
(* Once the init thread has handed the mirrors over, only the last one can *)
(* be missing, and only while the user interface thread is about to hand   *)
(* it over, too.                                                           *)
Mirrored ==
  init \in {"start", "done"} /\ ~torn =>
    1 .. pushed \subseteq
      given \cup (IF ui \in {"pushed", "mirror"} THEN {pushed} ELSE {})

LEMMA NextMirrored == IInv /\ Mirrored /\ [Next]_vars => Mirrored'
<1> SUFFICES ASSUME IInv, Mirrored, [Next]_vars PROVE Mirrored'
  OBVIOUS
<1>0. pushed \in Nat /\ torn \in BOOLEAN /\ given \subseteq 1 .. pushed
  BY SingleTaskAssumption DEF IInv, TypeOK
<1>1. CASE GiveMirrors
  BY <1>0, <1>1 DEF GiveMirrors, Mirrored
<1>2. CASE ClickMirror
  <2>1. CASE torn'
    BY <2>1 DEF Mirrored
  <2>2. CASE ~torn'
    <3>1. ~torn /\ init # "mirrors" /\ init' = init /\ given' = given
            /\ ui = "idle" /\ ui' = "pushed" /\ pushed' = pushed + 1
      BY <1>2, <2>2 DEF ClickMirror
    <3>2. 1 .. pushed' \subseteq (1 .. pushed) \cup {pushed'}
      BY <1>0, <3>1
    <3> QED
      BY <3>1, <3>2 DEF Mirrored
  <2> QED
    BY <2>1, <2>2
<1>3. CASE TestFM
  BY <1>3 DEF TestFM, HasFM, Mirrored, mirrors
<1>4. CASE AddMirrorUrl
  BY <1>4 DEF AddMirrorUrl, HasFM, Mirrored
<1>5. ASSUME UNCHANGED mirrors,
             init' \in {"start", "done"} => init \in {"start", "done"},
             ui' \notin {"pushed", "mirror"} => ui \notin {"pushed", "mirror"}
      PROVE  Mirrored'
  BY <1>5 DEF Mirrored, mirrors
<1>6. CASE InitStep
  <2>1. CASE GiveMirrors
    BY <1>1, <2>1
  <2>2. CASE InfoFails \/ CheckFails \/ CheckDone \/ InitAnts
    BY <1>5, <2>2 DEF InfoFails, CheckFails, CheckDone, InitAnts
  <2>3. ASSUME NEW single \in BOOLEAN, InfoDone(single)
        PROVE  Mirrored'
    BY <1>5, <2>3 DEF InfoDone
  <2> QED
    BY <1>6, <2>1, <2>2, <2>3 DEF InitStep, CheckStep
<1>7. ASSUME NEW t \in Ants, AntStep(t) \/ NetStep(t)
      PROVE  Mirrored'
  <2>1. UNCHANGED <<mirrors, init, ui>>
    BY <1>7
    DEF AntStep, NetStep, GetTask, GetTaskEnter, GetTaskLeave, ListEnter,
        ListLeave, FileData, Compare, QuitFileManager, ThreadQuit, Killed,
        TryAgain, Report, Received, GivesUp
  <2> QED
    BY <1>5, <2>1
<1>8. CASE ClickDown \/ ClickUp \/ Destroy
  BY <1>5, <1>8 DEF ClickDown, ClickUp, Destroy
<1>9. CASE DownCancel \/ DownJoin \/ DownRelease \/ UpEarly \/ UpStart
  BY <1>5, <1>9 DEF DownCancel, DownJoin, DownRelease, UpEarly, UpStart
<1>10. CASE DestroyInit \/ ReapCancel \/ ReapJoin \/ Destroyed
  BY <1>5, <1>10 DEF DestroyInit, ReapCancel, ReapJoin, Destroyed
<1>11. CASE UNCHANGED vars
  BY <1>5, <1>11 DEF vars
<1> QED
  BY <1>2, <1>3, <1>4, <1>6, <1>7, <1>8, <1>9, <1>10, <1>11 DEF Next, Handler
-----------------------------------------------------------------------------
(* The inductive invariants hold of every reachable state.                 *)
LEMMA Invariance == Spec => []IInv
BY InitIInv, NextIInv, PTL DEF Spec
-----------------------------------------------------------------------------
(* Type correctness: whatever is clicked before, while and after the ants  *)
(* start, m_nAnts stays within the table of ants.                          *)
THEOREM TypeCorrect == Spec => []TypeOK
<1>1. IInv => TypeOK
  BY DEF IInv
<1> QED
  BY <1>1, Invariance, PTL

(* m_nRunningAnts is never more than the threads that run, so that the     *)
(* last of them is taken for the last.                                     *)
THEOREM CountsNoDead == Spec => []NeverOvercounted
<1>1. IInv => NeverOvercounted
  BY DEF IInv, Counting, NeverOvercounted, Settled
<1> QED
  BY <1>1, Invariance, PTL

(* The destructor leaves no thread behind, even when it meets the init     *)
(* thread while that starts the ants.                                      *)
THEOREM NoOrphans == Spec => []ThreadsDieWithTask
<1>1. IInv => ThreadsDieWithTask
  BY DEF IInv, Handlers, Owned, ThreadsDieWithTask, Live
<1> QED
  BY <1>1, Invariance, PTL

LEMMA Reporting == Spec => []JInv
BY InitJInv, NextJInv, Invariance, PTL DEF Spec

(* As long as no ant is removed the count is exact, whatever the init      *)
(* thread and the clicks of the user do at the same time.                  *)
THEOREM CountsExactly == Spec => []CountedUntilDown
<1>1. JInv => CountedUntilDown
  BY DEF JInv, Exact, CountedUntilDown, RunningCounted, Settled
<1> QED
  BY <1>1, Reporting, PTL

(* As long as no ant was removed: when the ants have quit the main window  *)
(* has been told, and it is told only then; again only when an ant that    *)
(* was added has quit.                                                     *)
THEOREM TellsTheEnd == Spec => []Reported
<1>1. IInv /\ JInv => Reported
  <2> SUFFICES ASSUME IInv, JInv, Settled, downs = 0
               PROVE  IF Live = {} THEN posted \in 1 .. ups + 1 ELSE posted <= ups
    BY DEF Reported
  <2>1. posted \in Nat /\ ups \in Nat
    BY SingleTaskAssumption DEF IInv, TypeOK
  <2> QED
    BY <2>1 DEF JInv, Exact, Added, Settled
<1> QED
  BY <1>1, Invariance, Reporting, PTL

(* No task is reported as failed that merely had more ants than pieces.    *)
THEOREM FailsForAReason == Spec => []ErrorHasCause
<1>1. JInv => ErrorHasCause
  BY DEF JInv
<1> QED
  BY <1>1, Reporting, PTL

(* Every mirror gets into the list of URLs, whenever it is entered: unless *)
(* the init thread was just going through the list of the task.            *)
THEOREM GivesMirrors == Spec => []MirrorsGiven
<1>1. IInv /\ Mirrored => MirrorsGiven
  BY DEF IInv, TypeOK, Mirrored, MirrorsGiven, Settled
<1>2. Init => Mirrored
  BY DEF Init, Mirrored
<1> QED
  BY <1>1, <1>2, NextMirrored, Invariance, PTL DEF Spec
=============================================================================
