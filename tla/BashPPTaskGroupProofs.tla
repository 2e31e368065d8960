------------------------ MODULE BashPPTaskGroupProofs ------------------------
(***************************************************************************)
(* Proofs about BashPPTaskGroup, for every bound on the number of tasks,   *)
(* every set of statuses and both profiles: the join is complete, a        *)
(* sleeping owner is never forgotten, the launch handshake shows a fast    *)
(* failure, and nothing is registered after a failure or the join.         *)
(***************************************************************************)
EXTENDS BashPPTaskGroup, FiniteSetTheorems, WellFoundedInduction, TLAPS

\* The registered tasks are finitely many.
LEMMA TasksFinite == ASSUME TypeOK PROVE IsFiniteSet(tasks)
  <1>1. IsFiniteSet(0 .. (MaxTasks - 1))
    BY GroupAssumption, FS_Interval
  <1> QED
    BY <1>1, FS_Subset DEF TypeOK, TaskIds

\* newBashPPConcurrent establishes the invariant.
LEMMA InitIInv == Init => IInv
  <1> SUFFICES ASSUME Init PROVE IInv
    OBVIOUS
  <1> USE GroupAssumption DEF Init, Procs
  <1>1. TypeOK
    BY DEF TypeOK, OwnerPCs, TaskPCs, Status
  <1>2. ActiveCounts
    BY FS_EmptySet DEF ActiveCounts
  <1>3. LiveRegistered
    BY DEF LiveRegistered, Live
  <1>4. SnapshotsOwned /\ QuiescedEmpty /\ SleeperWaits
    BY DEF SnapshotsOwned, QuiescedEmpty, SleeperWaits
  <1>5. FailuresCancel
    BY DEF FailuresCancel
  <1> QED
    BY <1>1, <1>2, <1>3, <1>4, <1>5 DEF IInv

\* primaryFailureLocked finds the failure of the lowest ordinal if there is one.
LEMMA PrimaryIsLeast ==
    ASSUME failures \subseteq TaskIds, failures # {}
    PROVE  Primary \in failures /\ \A u \in failures : Primary <= u
  <1>1. failures \subseteq Nat
    BY GroupAssumption DEF TaskIds
  <1>2. PICK t \in failures : \A u \in failures : ~(<<u, t>> \in OpToRel(<, Nat))
    BY <1>1, WFMin, NatLessThanWellFounded
  <1>3. \A u \in failures : t <= u
    <2> SUFFICES ASSUME NEW u \in failures, u < t PROVE FALSE
      BY <1>1
    <2>1. <<u, t>> \in OpToRel(<, Nat)
      BY <1>1 DEF OpToRel
    <2> QED
      BY <1>2, <2>1
  <1> QED
    BY <1>3 DEF Primary

-----------------------------------------------------------------------------
(* Steps of a task that leave the registry alone.                          *)

\* A task's own step that keeps it live.
TaskLocal(t) ==
    \/ TaskEnter(t) \/ TaskSettled(t) \/ TaskStopped(t) \/ TaskArm(t)
    \/ TaskRecheck(t) \/ TaskCanceled(t) \/ TaskReturns(t) \/ TaskUnblocked(t)
    \/ \E code \in Codes : TaskFails(t, code)
    \/ \E code \in Codes \cup {0} : TaskOsExit(t, code)
    \/ TaskPanics(t) \/ TaskCleanup(t)

\* Such a step moves only its own task, which stays registered.
LEMMA TaskLocalShape ==
    ASSUME IInv, NEW t \in TaskIds, TaskLocal(t)
    PROVE  /\ pc[t] \in Live \ {"snap"}
           /\ pc' \in [Procs -> OwnerPCs \cup TaskPCs]
           /\ \A q \in Procs \ {t} : pc'[q] = pc[q]
           /\ pc'[t] \in {"run", "rearm", "blocked", "exit", "finish"}
           /\ UNCHANGED <<goSource, runDone, active, tasks, nextTask, quiesced, failures,
                          mainGoexit, child, status, cause>>
  <1> USE DEF IInv, TypeOK, Live, TaskPCs, Procs, At, groupVars
  <1>1. CASE TaskEnter(t) \/ TaskSettled(t) \/ TaskStopped(t) \/ TaskArm(t) \/ TaskRecheck(t)
    BY <1>1 DEF TaskEnter, TaskSettled, TaskStopped, TaskArm, TaskRecheck, Arm
  <1>2. CASE TaskCanceled(t) \/ TaskReturns(t) \/ TaskUnblocked(t) \/ TaskPanics(t) \/ TaskCleanup(t)
    BY <1>2 DEF TaskCanceled, TaskReturns, TaskUnblocked, TaskPanics, TaskCleanup
  <1>3. ASSUME NEW code \in Codes, TaskFails(t, code)
        PROVE  /\ pc[t] = "run" /\ pc' = [pc EXCEPT ![t] = "exit"]
               /\ UNCHANGED <<groupVars, child, status, cause>>
    BY <1>3 DEF TaskFails
  <1>4. ASSUME NEW code \in Codes \cup {0}, TaskOsExit(t, code)
        PROVE  /\ pc[t] = "run" /\ pc' = [pc EXCEPT ![t] = "exit"]
               /\ UNCHANGED <<goSource, runDone, active, tasks, nextTask, quiesced, failures,
                              mainGoexit, child, status, cause>>
    BY <1>4 DEF TaskOsExit
  <1> QED
    BY <1>1, <1>2, <1>3, <1>4 DEF TaskLocal

\* Such a step preserves the invariant.
LEMMA TaskLocalIInv ==
    ASSUME IInv, NEW t \in TaskIds, TaskLocal(t)
    PROVE  IInv'
  <1>0. /\ pc[t] \in Live \ {"snap"}
        /\ pc' \in [Procs -> OwnerPCs \cup TaskPCs]
        /\ \A q \in Procs \ {t} : pc'[q] = pc[q]
        /\ pc'[t] \in {"run", "rearm", "blocked", "exit", "finish"}
        /\ UNCHANGED <<goSource, runDone, active, tasks, nextTask, quiesced, failures,
                       mainGoexit, child, status, cause>>
    BY TaskLocalShape
  <1>a. Owner \in Procs /\ Owner # t /\ t \in Procs /\ \A u \in TaskIds : u \in Procs
    BY GroupAssumption DEF Procs
  <1>1. TypeOK'
    <2>1. /\ ready' \in [TaskIds -> BOOLEAN] /\ settled' \in [TaskIds -> BOOLEAN]
          /\ ctxDone' \in BOOLEAN /\ exitCalled' \in BOOLEAN /\ asleep' \in BOOLEAN
      BY DEF IInv, TypeOK, TaskLocal, TaskEnter, TaskSettled, TaskStopped, TaskArm,
             TaskRecheck, TaskCanceled, TaskReturns, TaskUnblocked, TaskPanics,
             TaskCleanup, TaskFails, TaskOsExit, Arm, groupVars
    <2>2. fail' \in [TaskIds -> Nat] /\ exitCode' \in Nat
      BY GroupAssumption
         DEF IInv, TypeOK, TaskLocal, TaskEnter, TaskSettled, TaskStopped, TaskArm,
             TaskRecheck, TaskCanceled, TaskReturns, TaskUnblocked, TaskPanics,
             TaskCleanup, TaskFails, TaskOsExit, groupVars, PanicStatus
    <2>3. pc'[Owner] \in OwnerPCs /\ \A u \in TaskIds : pc'[u] \in TaskPCs
      BY <1>0, <1>a DEF IInv, TypeOK, TaskPCs
    <2> QED
      BY <1>0, <2>1, <2>2, <2>3 DEF IInv, TypeOK
  <1>2. ActiveCounts' /\ QuiescedEmpty'
    BY <1>0 DEF IInv, ActiveCounts, QuiescedEmpty
  <1>3. LiveRegistered'
    BY <1>0, <1>a DEF IInv, LiveRegistered, Live
  <1>4. SnapshotsOwned'
    <2> SUFFICES ASSUME NEW q \in Procs, pc'[q] = "snap"
                 PROVE  /\ child[q] \in tasks /\ pc'[child[q]] = "unborn"
                        /\ \A r \in Procs : pc'[r] = "snap" /\ child[r] = child[q] => r = q
      BY <1>0 DEF SnapshotsOwned
    <2>1. pc[q] = "snap" /\ child[q] \in tasks /\ pc[child[q]] = "unborn"
      BY <1>0 DEF IInv, SnapshotsOwned
    <2>2. child[q] # t /\ child[q] \in TaskIds
      BY <1>0, <2>1 DEF Live, IInv, TypeOK
    <2> QED
      BY <1>0, <1>a, <2>1, <2>2 DEF IInv, SnapshotsOwned
  <1>5. FailuresCancel'
    <2>1. \A u \in TaskIds \ {t} : fail'[u] = fail[u] /\ ready'[u] = ready[u] /\ settled'[u] = settled[u]
      BY DEF IInv, TypeOK, TaskLocal, TaskEnter, TaskSettled, TaskStopped, TaskArm,
             TaskRecheck, TaskCanceled, TaskReturns, TaskUnblocked, TaskPanics,
             TaskCleanup, TaskFails, TaskOsExit, Arm, groupVars
    <2>2. ctxDone => ctxDone'
      BY DEF TaskLocal, TaskEnter, TaskSettled, TaskStopped, TaskArm,
             TaskRecheck, TaskCanceled, TaskReturns, TaskUnblocked, TaskPanics,
             TaskCleanup, TaskFails, TaskOsExit, groupVars
    <2>3. fail'[t] # 0 => pc'[t] \in {"exit", "finish"}
      BY DEF IInv, TypeOK, FailuresCancel, Ended, At, TaskLocal, TaskEnter, TaskSettled,
             TaskStopped, TaskArm, TaskRecheck, TaskCanceled, TaskReturns, TaskUnblocked,
             TaskPanics, TaskCleanup, TaskFails, TaskOsExit, Procs
    <2>4. ready'[t] /\ ~settled'[t] => ctxDone'
      BY <1>0, <2>2
         DEF IInv, TypeOK, FailuresCancel, Live, At, TaskLocal, TaskEnter, TaskSettled,
             TaskStopped, TaskArm, TaskRecheck, TaskCanceled, TaskReturns, TaskUnblocked,
             TaskPanics, TaskCleanup, TaskFails, TaskOsExit, Arm, groupVars
    <2> QED
      BY <1>0, <1>a, <2>1, <2>2, <2>3, <2>4 DEF IInv, FailuresCancel, Ended
  <1>6. SleeperWaits'
    <2>1. asleep' => asleep /\ (exitCalled' = exitCalled)
      BY DEF TaskLocal, TaskEnter, TaskSettled, TaskStopped, TaskArm,
             TaskRecheck, TaskCanceled, TaskReturns, TaskUnblocked, TaskPanics,
             TaskCleanup, TaskFails, TaskOsExit, groupVars
    <2> QED
      BY <1>0, <1>a, <2>1 DEF IInv, SleeperWaits
  <1> QED
    BY <1>1, <1>2, <1>3, <1>4, <1>5, <1>6 DEF IInv

\* done(): the critical section takes the task out of the registry.
LEMMA DoneIInv ==
    ASSUME IInv, NEW t \in TaskIds, Done(t)
    PROVE  IInv'
  <1> USE DEF IInv, Done, At
  <1>a. /\ Owner \in Procs /\ Owner # t /\ t \in Procs /\ \A u \in TaskIds : u \in Procs
        /\ pc[t] = "finish" /\ t \in tasks
        /\ \A q \in Procs \ {t} : pc'[q] = pc[q]
        /\ pc'[t] = "cancelrun"
    BY GroupAssumption DEF Procs, LiveRegistered, Live, TypeOK
  <1>b. /\ Cardinality(tasks \ {t}) = Cardinality(tasks) - 1
        /\ Cardinality(tasks \ {t}) \in Nat
    BY <1>a, TasksFinite, FS_RemoveElement, FS_CardinalityType
  <1>1. TypeOK'
    <2>1. active' \in Nat /\ tasks' \subseteq TaskIds /\ failures' \subseteq TaskIds
      BY <1>b DEF TypeOK, ActiveCounts
    <2>2. pc' \in [Procs -> OwnerPCs \cup TaskPCs] /\ pc'[Owner] \in OwnerPCs
          /\ \A u \in TaskIds : pc'[u] \in TaskPCs
      BY <1>a DEF TypeOK, TaskPCs
    <2> QED
      BY <2>1, <2>2 DEF TypeOK
  <1>2. ActiveCounts' /\ QuiescedEmpty'
    BY <1>b DEF ActiveCounts, QuiescedEmpty
  <1>3. LiveRegistered'
    BY <1>a DEF LiveRegistered, Live
  <1>4. SnapshotsOwned'
    <2> SUFFICES ASSUME NEW q \in Procs, pc'[q] = "snap"
                 PROVE  /\ child[q] \in tasks' /\ pc'[child[q]] = "unborn"
                        /\ \A r \in Procs : pc'[r] = "snap" /\ child[r] = child[q] => r = q
      BY DEF SnapshotsOwned
    <2>1. pc[q] = "snap" /\ child[q] \in tasks /\ pc[child[q]] = "unborn"
      BY <1>a DEF SnapshotsOwned
    <2>2. child[q] # t /\ child[q] \in TaskIds
      BY <1>a, <2>1 DEF TypeOK
    <2> QED
      BY <1>a, <2>1, <2>2 DEF SnapshotsOwned
  <1>5. FailuresCancel'
    BY <1>a DEF FailuresCancel, Ended
  <1>6. SleeperWaits'
    BY <1>a DEF SleeperWaits
  <1> QED
    BY <1>1, <1>2, <1>3, <1>4, <1>5, <1>6

\* done(): what follows the unlock, and the end of the task.
LEMMA DoneTailIInv ==
    ASSUME IInv, NEW t \in TaskIds, DoneCancelRun(t) \/ DoneArm(t)
    PROVE  IInv'
  <1> USE DEF IInv, DoneCancelRun, DoneArm, At, groupVars, Arm
  <1>a. /\ Owner \in Procs /\ Owner # t /\ t \in Procs /\ \A u \in TaskIds : u \in Procs
        /\ pc[t] \in {"cancelrun", "release"}
        /\ \A q \in Procs \ {t} : pc'[q] = pc[q]
        /\ pc'[t] \in {"release", "over"}
    BY GroupAssumption DEF Procs, TypeOK
  <1>1. TypeOK'
    <2>1. pc' \in [Procs -> OwnerPCs \cup TaskPCs] /\ pc'[Owner] \in OwnerPCs
          /\ \A u \in TaskIds : pc'[u] \in TaskPCs
      BY <1>a DEF TypeOK, TaskPCs
    <2>2. runDone' \in BOOLEAN /\ ready' \in [TaskIds -> BOOLEAN]
      BY DEF TypeOK
    <2> QED
      BY <2>1, <2>2 DEF TypeOK
  <1>2. ActiveCounts' /\ QuiescedEmpty'
    BY DEF ActiveCounts, QuiescedEmpty
  <1>3. LiveRegistered'
    BY <1>a DEF LiveRegistered, Live
  <1>4. SnapshotsOwned'
    <2> SUFFICES ASSUME NEW q \in Procs, pc'[q] = "snap"
                 PROVE  /\ child[q] \in tasks /\ pc'[child[q]] = "unborn"
                        /\ \A r \in Procs : pc'[r] = "snap" /\ child[r] = child[q] => r = q
      BY DEF SnapshotsOwned
    <2>1. pc[q] = "snap" /\ child[q] \in tasks /\ pc[child[q]] = "unborn"
      BY <1>a DEF SnapshotsOwned
    <2>2. child[q] # t /\ child[q] \in TaskIds
      BY <1>a, <2>1 DEF TypeOK
    <2> QED
      BY <1>a, <2>1, <2>2 DEF SnapshotsOwned
  <1>5. FailuresCancel'
    BY <1>a DEF FailuresCancel, Ended, TypeOK
  <1>6. SleeperWaits'
    BY <1>a DEF SleeperWaits
  <1> QED
    BY <1>1, <1>2, <1>3, <1>4, <1>5, <1>6

-----------------------------------------------------------------------------
(* The launcher.                                                           *)

\* go registers a child: the ordinal is new and the group is open.
LEMMA AddIInv ==
    ASSUME IInv, NEW p \in Procs, Add(p)
    PROVE  IInv'
  <1> USE DEF IInv, Add, At
  <1>a. /\ nextTask \in TaskIds /\ nextTask \in Nat /\ Owner \in Procs
        /\ \A u \in TaskIds : u \in Procs /\ u \in Nat
        /\ pc[p] = "run" /\ pc'[p] = "snap"
        /\ \A q \in Procs \ {p} : pc'[q] = pc[q]
        /\ pc[nextTask] = "unborn" /\ nextTask \notin tasks /\ nextTask # p
    BY GroupAssumption DEF Procs, TaskIds, TypeOK, LiveRegistered
  <1>b. Cardinality(tasks \cup {nextTask}) = Cardinality(tasks) + 1
    BY <1>a, TasksFinite, FS_AddElement
  <1>1. TypeOK'
    <2>1. pc' \in [Procs -> OwnerPCs \cup TaskPCs] /\ pc'[Owner] \in OwnerPCs
          /\ \A u \in TaskIds : pc'[u] \in TaskPCs
      BY <1>a DEF TypeOK, TaskPCs, OwnerPCs
    <2>2. child' \in [Procs -> Nat] /\ tasks' \subseteq TaskIds /\ active' \in Nat
          /\ nextTask' \in Nat
      BY <1>a DEF TypeOK
    <2> QED
      BY <2>1, <2>2 DEF TypeOK
  <1>2. ActiveCounts' /\ QuiescedEmpty'
    BY <1>b DEF ActiveCounts, QuiescedEmpty
  <1>3. LiveRegistered'
    <2> SUFFICES ASSUME NEW u \in TaskIds
                 PROVE  /\ pc'[u] \in Live => u \in tasks'
                        /\ u >= nextTask' => pc'[u] = "unborn" /\ u \notin tasks'
      BY DEF LiveRegistered
    <2>1. CASE u = p
      BY <1>a, <2>1 DEF LiveRegistered, Live
    <2>2. CASE u # p
      BY <1>a, <2>2 DEF LiveRegistered, Live
    <2> QED
      BY <2>1, <2>2
  <1>4. SnapshotsOwned'
    <2> SUFFICES ASSUME NEW q \in Procs, pc'[q] = "snap"
                 PROVE  /\ child'[q] \in tasks' /\ pc'[child'[q]] = "unborn"
                        /\ \A r \in Procs : pc'[r] = "snap" /\ child'[r] = child'[q] => r = q
      BY DEF SnapshotsOwned
    <2>0. child'[p] = nextTask /\ \A r \in Procs \ {p} : child'[r] = child[r]
      BY DEF TypeOK
    <2>1. \A r \in Procs \ {p} : pc'[r] = "snap" =>
              child[r] \in tasks /\ pc[child[r]] = "unborn" /\ child[r] # nextTask
      BY <1>a DEF SnapshotsOwned
    <2>2. CASE q = p
      BY <1>a, <2>0, <2>1, <2>2
    <2>3. CASE q # p
      <3>1. child[q] \in TaskIds /\ child[q] # p
        BY <1>a, <2>1, <2>3 DEF TypeOK
      <3> QED
        BY <1>a, <2>0, <2>1, <2>3, <3>1 DEF SnapshotsOwned
    <2> QED
      BY <2>2, <2>3
  <1>5. FailuresCancel'
    BY <1>a DEF FailuresCancel, Ended
  <1>6. SleeperWaits'
    <2>1. active \in Nat /\ active' # 0
      BY DEF TypeOK
    <2> QED
      BY <1>a, <2>1 DEF SleeperWaits
  <1> QED
    BY <1>1, <1>2, <1>3, <1>4, <1>5, <1>6

\* The launcher hands its child over: to done(), or to its goroutine.
LEMMA HandOverIInv ==
    ASSUME IInv, NEW p \in Procs, Unstarted(p) \/ StartTask(p)
    PROVE  IInv'
  <1> USE DEF IInv, Unstarted, StartTask, groupVars
  <1>0. PICK t \in TaskIds : t = child[p]
    BY DEF SnapshotsOwned, TypeOK
  <1>a. /\ t \in tasks /\ t \in Procs /\ pc[t] = "unborn" /\ t # p /\ pc[p] = "snap"
        /\ pc'[p] \in {"reap", "await"} /\ pc'[t] \in {"finish", "born"}
        /\ \A q \in Procs \ {p, t} : pc'[q] = pc[q]
        /\ \A u \in TaskIds : u \in Procs
        /\ Owner \in Procs /\ Owner # t
    BY <1>0, GroupAssumption DEF SnapshotsOwned, TypeOK, Procs
  <1>b. /\ fail' \in [TaskIds -> Nat]
        /\ \A u \in TaskIds \ {t} : fail'[u] = fail[u]
        /\ fail'[t] # 0 => pc'[t] = "finish"
    <2>1. fail \in [TaskIds -> Nat] /\ fail[t] = 0
      BY <1>a DEF TypeOK, FailuresCancel, Ended
    <2>2. CASE Unstarted(p)
      <3>1. pc' = [pc EXCEPT ![p] = "reap", ![t] = "finish"]
        BY <1>0, <2>2
      <3>2. pc'[t] = "finish"
        BY <1>a, <3>1 DEF TypeOK
      <3>3. fail' = [fail EXCEPT ![t] = PanicStatus] \/ fail' = fail
        BY <1>0, <2>2
      <3> QED
        BY <2>1, <3>2, <3>3 DEF PanicStatus
    <2>3. CASE StartTask(p)
      BY <2>1, <2>3
    <2> QED
      BY <2>2, <2>3
  <1>1. TypeOK'
    <2>1. pc' \in [Procs -> OwnerPCs \cup TaskPCs]
      BY <1>0, <1>a DEF TypeOK, TaskPCs, OwnerPCs
    <2>2. pc'[Owner] \in OwnerPCs
      BY <1>a DEF TypeOK, OwnerPCs
    <2>3. \A u \in TaskIds : pc'[u] \in TaskPCs
      BY <1>a DEF TypeOK, TaskPCs
    <2> QED
      BY <1>b, <2>1, <2>2, <2>3 DEF TypeOK
  <1>2. ActiveCounts' /\ QuiescedEmpty'
    BY DEF ActiveCounts, QuiescedEmpty
  <1>3. LiveRegistered'
    <2> SUFFICES ASSUME NEW u \in TaskIds
                 PROVE  /\ pc'[u] \in Live => u \in tasks
                        /\ u >= nextTask => pc'[u] = "unborn" /\ u \notin tasks
      BY DEF LiveRegistered
    <2>1. CASE u = t
      BY <1>a, <2>1 DEF LiveRegistered
    <2>2. CASE u = p
      BY <1>a, <2>2 DEF LiveRegistered, Live
    <2>3. CASE u # t /\ u # p
      BY <1>a, <2>3 DEF LiveRegistered
    <2> QED
      BY <2>1, <2>2, <2>3
  <1>4. SnapshotsOwned'
    <2> SUFFICES ASSUME NEW q \in Procs, pc'[q] = "snap"
                 PROVE  /\ child[q] \in tasks /\ pc'[child[q]] = "unborn"
                        /\ \A r \in Procs : pc'[r] = "snap" /\ child[r] = child[q] => r = q
      BY DEF SnapshotsOwned
    <2>1. q # p /\ q # t /\ pc[q] = "snap"
      BY <1>a
    <2>2. child[q] \in tasks /\ pc[child[q]] = "unborn" /\ child[q] # t /\ child[q] # p
          /\ child[q] \in Procs
      BY <1>0, <1>a, <2>1 DEF SnapshotsOwned, TypeOK
    <2>3. \A r \in Procs : pc'[r] = "snap" => pc[r] = "snap"
      BY <1>a
    <2> QED
      BY <1>a, <2>1, <2>2, <2>3 DEF SnapshotsOwned
  <1>5. FailuresCancel'
    <2> SUFFICES ASSUME NEW u \in TaskIds
                 PROVE  /\ fail'[u] # 0 => pc'[u] \in {"exit", "finish"} \cup Ended
                        /\ fail'[u] # 0 /\ pc'[u] \in Ended => ctxDone
                        /\ ready[u] /\ ~settled[u] => ctxDone \/ pc'[u] = "over"
      BY DEF FailuresCancel
    <2>1. CASE u = t
      BY <1>a, <1>b, <2>1 DEF FailuresCancel, Ended
    <2>2. CASE u # t
      BY <1>a, <1>b, <2>2 DEF FailuresCancel, Ended
    <2> QED
      BY <2>1, <2>2
  <1>6. SleeperWaits'
    BY <1>a DEF SleeperWaits
  <1> QED
    BY <1>1, <1>2, <1>3, <1>4, <1>5, <1>6

\* The launcher goes on.
LEMMA LaunchEndIInv ==
    ASSUME IInv, NEW p \in Procs, Reaped(p) \/ Launched(p)
    PROVE  IInv'
  <1> USE DEF IInv, Reaped, Launched, At, groupVars
  <1>a. /\ pc[p] \in {"reap", "await"} /\ pc'[p] = "run"
        /\ \A q \in Procs \ {p} : pc'[q] = pc[q]
        /\ \A u \in TaskIds : u \in Procs
        /\ Owner \in Procs
    BY DEF TypeOK, Procs
  <1>1. TypeOK'
    <2>1. pc' \in [Procs -> OwnerPCs \cup TaskPCs] /\ pc'[Owner] \in OwnerPCs
          /\ \A u \in TaskIds : pc'[u] \in TaskPCs
      BY <1>a DEF TypeOK, TaskPCs, OwnerPCs
    <2> QED
      BY <2>1 DEF TypeOK
  <1>2. ActiveCounts' /\ QuiescedEmpty'
    BY DEF ActiveCounts, QuiescedEmpty
  <1>3. LiveRegistered'
    BY <1>a DEF LiveRegistered, Live
  <1>4. SnapshotsOwned'
    <2> SUFFICES ASSUME NEW q \in Procs, pc'[q] = "snap"
                 PROVE  /\ child[q] \in tasks /\ pc'[child[q]] = "unborn"
                        /\ \A r \in Procs : pc'[r] = "snap" /\ child[r] = child[q] => r = q
      BY DEF SnapshotsOwned
    <2>1. pc[q] = "snap" /\ child[q] \in tasks /\ pc[child[q]] = "unborn"
      BY <1>a DEF SnapshotsOwned
    <2>2. child[q] # p /\ child[q] \in Procs
      BY <1>a, <2>1 DEF TypeOK
    <2> QED
      BY <1>a, <2>1, <2>2 DEF SnapshotsOwned
  <1>5. FailuresCancel'
    BY <1>a DEF FailuresCancel, Ended
  <1>6. SleeperWaits'
    BY <1>a DEF SleeperWaits
  <1> QED
    BY <1>1, <1>2, <1>3, <1>4, <1>5, <1>6

-----------------------------------------------------------------------------
(* The owner.                                                              *)

\* What the steps of the owner have in common.
OwnerMoves ==
    /\ pc[Owner] \notin {"snap"}
    /\ pc' \in [Procs -> OwnerPCs \cup TaskPCs]
    /\ \A q \in Procs \ {Owner} : pc'[q] = pc[q]
    /\ pc'[Owner] \in OwnerPCs \ {"snap"}
    /\ status' \in [code : Nat, err : {"nil", "canceled", "status", "panic"}]
    /\ cause' \in {"none", "own", "interrupt", "task", "exit"}
    /\ ctxDone' \in BOOLEAN /\ (ctxDone => ctxDone')
    /\ quiesced' \in BOOLEAN /\ mainGoexit' \in BOOLEAN /\ asleep' \in BOOLEAN
    /\ quiesced' => quiesced \/ active = 0
    /\ asleep' => /\ pc'[Owner] \in {"join", "goexit", "exitjoin"}
                  /\ active # 0
                  /\ pc'[Owner] = "goexit" => ~exitCalled
    /\ UNCHANGED <<goSource, runDone, active, tasks, nextTask, failures, exitCalled,
                   exitCode, ready, child, fail, settled>>

\* Such a step preserves the invariant.
LEMMA OwnerMovesIInv ==
    ASSUME IInv, OwnerMoves
    PROVE  IInv'
  <1> USE DEF IInv, OwnerMoves
  <1>a. Owner \in Procs /\ \A u \in TaskIds : u \in Procs /\ u # Owner /\ pc'[u] = pc[u]
    BY GroupAssumption DEF Procs
  <1>1. TypeOK'
    BY <1>a DEF TypeOK
  <1>2. ActiveCounts' /\ LiveRegistered' /\ SleeperWaits'
    BY <1>a DEF ActiveCounts, LiveRegistered, SleeperWaits
  <1>3. QuiescedEmpty'
    <2>1. active = 0 => tasks = {}
      BY TasksFinite, FS_EmptySet DEF ActiveCounts
    <2> QED
      BY <2>1 DEF QuiescedEmpty
  <1>4. SnapshotsOwned'
    <2> SUFFICES ASSUME NEW q \in Procs, pc'[q] = "snap"
                 PROVE  /\ child[q] \in tasks /\ pc'[child[q]] = "unborn"
                        /\ \A r \in Procs : pc'[r] = "snap" /\ child[r] = child[q] => r = q
      BY DEF SnapshotsOwned
    <2>1. pc[q] = "snap" /\ child[q] \in tasks /\ pc[child[q]] = "unborn"
      BY <1>a DEF SnapshotsOwned
    <2>2. child[q] \in TaskIds
      BY <2>1 DEF TypeOK
    <2> QED
      BY <1>a, <2>1, <2>2 DEF SnapshotsOwned
  <1>5. FailuresCancel'
    BY <1>a DEF FailuresCancel, Ended
  <1> QED
    BY <1>1, <1>2, <1>3, <1>4, <1>5

\* The owner's statements, the end of the file, the joins and the adoption.
LEMMA OwnerIInv ==
    ASSUME IInv, OwnerStep \/ OwnerUnblocked
    PROVE  IInv'
  <1> USE DEF IInv, At
  <1>a. /\ Owner \in Procs /\ pc \in [Procs -> OwnerPCs \cup TaskPCs]
        /\ pc[Owner] \in OwnerPCs /\ active \in Nat
        /\ ctxDone \in BOOLEAN /\ quiesced \in BOOLEAN /\ mainGoexit \in BOOLEAN
        /\ asleep \in BOOLEAN /\ fail \in [TaskIds -> Nat] /\ failures \subseteq TaskIds
        /\ status \in [code : Nat, err : {"nil", "canceled", "status", "panic"}]
        /\ cause \in {"none", "own", "interrupt", "task", "exit"}
        /\ exitCode \in Nat
    BY DEF TypeOK, Procs
  <1>1. CASE OwnerBlocks \/ OwnerCalls \/ OwnerUnblocked \/ OwnerChanCanceled
             \/ OwnerRunCanceled \/ OwnerEnds
    <2>1. /\ pc[Owner] \in {"run", "chan", "dep"}
          /\ \E to \in {"run", "chan", "dep", "eof"} : pc' = [pc EXCEPT ![Owner] = to]
      BY <1>1 DEF OwnerBlocks, OwnerCalls, OwnerUnblocked, OwnerChanCanceled,
                  OwnerRunCanceled, OwnerEnds
    <2>2. /\ status' \in [code : Nat, err : {"nil", "canceled", "status", "panic"}]
          /\ cause' \in {"none", "own", "interrupt", "task", "exit"}
      <3>1. CASE OwnerBlocks
        BY <1>a, <3>1 DEF OwnerBlocks, PanicStatus, Status
      <3>2. CASE OwnerCalls \/ OwnerUnblocked
        BY <1>a, <3>2 DEF OwnerCalls, OwnerUnblocked
      <3>3. CASE OwnerChanCanceled
        BY <1>a, <3>3 DEF OwnerChanCanceled, Status
      <3>4. CASE OwnerRunCanceled \/ OwnerEnds
        BY <1>a, <3>4 DEF OwnerRunCanceled, OwnerEnds, Status, PanicStatus
      <3> QED
        BY <1>1, <3>1, <3>2, <3>3, <3>4
    <2>3. OwnerFrame
      BY <1>1 DEF OwnerBlocks, OwnerCalls, OwnerUnblocked, OwnerChanCanceled,
                  OwnerRunCanceled, OwnerEnds
    <2>4. ~asleep
      BY <2>1 DEF SleeperWaits
    <2> QED
      BY <1>a, <2>1, <2>2, <2>3, <2>4, OwnerMovesIInv
         DEF OwnerMoves, OwnerFrame, groupVars, OwnerPCs
  <1>2. CASE OwnerGoexit \/ WaitCancel \/ GoexitExit
    <2>1. /\ pc[Owner] \in {"run", "eof", "goexit"}
          /\ \E to \in {"goexit", "join", "exitjoin"} : pc' = [pc EXCEPT ![Owner] = to]
          /\ ~asleep
      BY <1>2 DEF OwnerGoexit, WaitCancel, GoexitExit, SleeperWaits
    <2>2. /\ status' \in [code : Nat, err : {"nil", "canceled", "status", "panic"}]
          /\ cause' \in {"none", "own", "interrupt", "task", "exit"}
      BY <1>2, <1>a DEF OwnerGoexit, WaitCancel, GoexitExit, Status
    <2>3. /\ ctxDone' \in BOOLEAN /\ (ctxDone => ctxDone') /\ mainGoexit' \in BOOLEAN
          /\ UNCHANGED <<goSource, quiesced, asleep, runDone, active, tasks, nextTask, failures,
                         exitCalled, exitCode, ready, child, fail, settled>>
      BY <1>2, <1>a DEF OwnerGoexit, WaitCancel, GoexitExit
    <2> QED
      BY <1>a, <2>1, <2>2, <2>3, OwnerMovesIInv DEF OwnerMoves, OwnerPCs
  <1>3. ASSUME NEW from \in {"join", "goexit", "exitjoin"}, NEW to \in {"adopt", "over"},
               WaitJoin(from, to), from = "goexit" => ~exitCalled,
               status' \in [code : Nat, err : {"nil", "canceled", "status", "panic"}],
               cause' \in {"none", "own", "interrupt", "task", "exit"}
        PROVE  IInv'
    <2>1. CASE active # 0
      BY <1>a, <1>3, <2>1, OwnerMovesIInv DEF OwnerMoves, OwnerPCs, WaitJoin
    <2>2. CASE active = 0
      BY <1>a, <1>3, <2>2, OwnerMovesIInv DEF OwnerMoves, OwnerPCs, WaitJoin
    <2> QED
      BY <2>1, <2>2
  <1>4. CASE Join
    BY <1>3, <1>4, <1>a DEF Join
  <1>5. CASE GoexitJoin
    BY <1>3, <1>5, <1>a DEF GoexitJoin
  <1>6. CASE ExitJoin
    <2>1. /\ status' \in [code : Nat, err : {"nil", "canceled", "status", "panic"}]
          /\ cause' \in {"none", "own", "interrupt", "task", "exit"}
      BY <1>6, <1>a DEF ExitJoin, Status
    <2> QED
      BY <1>3, <1>6, <2>1 DEF ExitJoin
  <1>7. CASE Adopt
    <2>1. failures # {} => fail[Primary] \in Nat
      BY <1>a, PrimaryIsLeast
    <2>2. /\ status' \in [code : Nat, err : {"nil", "canceled", "status", "panic"}]
          /\ cause' \in {"none", "own", "interrupt", "task", "exit"}
      <3>1. CASE failures # {} /\ ~(status.code # 0 /\ ~Echo)
        BY <1>7, <1>a, <2>1, <3>1 DEF Adopt, Status
      <3>2. CASE ~(failures # {} /\ ~(status.code # 0 /\ ~Echo))
        BY <1>7, <1>a, <3>2 DEF Adopt, Status, PanicStatus
      <3> QED
        BY <3>1, <3>2
    <2>3. pc[Owner] = "adopt" /\ pc' = [pc EXCEPT ![Owner] = "over"] /\ OwnerFrame
      BY <1>7 DEF Adopt
    <2>4. ~asleep
      BY <2>3 DEF SleeperWaits
    <2> QED
      BY <1>a, <2>2, <2>3, <2>4, OwnerMovesIInv
         DEF OwnerMoves, OwnerFrame, groupVars, OwnerPCs
  <1> QED
    BY <1>1, <1>2, <1>4, <1>5, <1>6, <1>7 DEF OwnerStep

\* A cancellation from outside the tasks.
Canceling == HostCancel \/ \E p \in Procs : MalformedOperand(p)

\* It touches only the two contexts.
LEMMA CancelingIInv ==
    ASSUME IInv, Canceling
    PROVE  IInv'
  <1>0. /\ ctxDone' /\ runDone' \in BOOLEAN
        /\ UNCHANGED <<goSource, active, tasks, nextTask, quiesced, failures, mainGoexit,
                       exitCalled, exitCode, ready, pc, child, fail, status, asleep, settled, cause>>
    BY DEF IInv, TypeOK, Canceling, HostCancel, MalformedOperand
  <1>1. TypeOK'
    <2>1. ctxDone' \in BOOLEAN
      BY DEF Canceling, HostCancel, MalformedOperand
    <2> QED
      BY <1>0, <2>1 DEF IInv, TypeOK
  <1>2. ActiveCounts' /\ LiveRegistered' /\ SnapshotsOwned'
    BY <1>0 DEF IInv, ActiveCounts, LiveRegistered, SnapshotsOwned
  <1>3. QuiescedEmpty' /\ FailuresCancel' /\ SleeperWaits'
    BY <1>0 DEF IInv, QuiescedEmpty, FailuresCancel, SleeperWaits
  <1> QED
    BY <1>1, <1>2, <1>3 DEF IInv

\* Every step of the group preserves the invariant.
LEMMA NextIInv ==
    ASSUME IInv, [Next]_vars
    PROVE  IInv'
  <1>1. ASSUME NEW p \in Procs, Launch(p) PROVE IInv'
    BY <1>1, AddIInv, HandOverIInv, LaunchEndIInv DEF Launch
  <1>2. ASSUME NEW t \in TaskIds, TaskStep(t) \/ TaskUnblocked(t) PROVE IInv'
    <2>1. CASE TaskLocal(t)
      BY <2>1, TaskLocalIInv
    <2>2. CASE Done(t) \/ DoneCancelRun(t) \/ DoneArm(t)
      BY <2>2, DoneIInv, DoneTailIInv
    <2> QED
      BY <1>2, <2>1, <2>2 DEF TaskStep, TaskLocal
  <1>3. CASE UNCHANGED vars
    BY <1>3 DEF IInv, TypeOK, ActiveCounts, LiveRegistered, SnapshotsOwned,
                QuiescedEmpty, FailuresCancel, SleeperWaits, vars, groupVars
  <1> QED
    BY <1>1, <1>2, <1>3, OwnerIInv, CancelingIInv DEF Next, Canceling

-----------------------------------------------------------------------------
(* The theorems.                                                           *)

\* The registry, the launch handshake, the recorded failures and the joining
\* owner stay consistent in every behaviour of bashPPConcurrent.
THEOREM Inductive == Spec => []IInv
  <1> QED
    BY InitIInv, NextIInv, PTL DEF Spec

\* Every variable of the group keeps its type; c.active never underflows.
THEOREM TypeCorrect == Spec => []TypeOK
  <1>1. IInv => TypeOK
    BY DEF IInv
  <1> QED
    BY <1>1, Inductive, PTL

\* A quiesced group has no registered and no running task: bashPPWait and
\* stopAndJoin return only after every task's done().
THEOREM JoinComplete == Spec => []JoinIsComplete
  <1>1. IInv => JoinIsComplete
    <2> SUFFICES ASSUME IInv, quiesced PROVE JoinIsComplete
      BY DEF JoinIsComplete
    <2>1. tasks = {} /\ active = 0
      BY FS_EmptySet DEF IInv, QuiescedEmpty, ActiveCounts
    <2>2. \A t \in TaskIds : pc[t] \in TaskPCs /\ pc[t] \notin Live
      BY <2>1 DEF IInv, TypeOK, LiveRegistered
    <2> QED
      BY <2>1, <2>2 DEF JoinIsComplete, TaskPCs, Live
  <1> QED
    BY <1>1, Inductive, PTL

\* An owner asleep in c.changed.Wait() always has a registered task left to
\* broadcast: done() and os.Exit never lose its wakeup.
THEOREM OwnerNotForgotten == Spec => []JoinNotForgotten
  <1>1. IInv => JoinNotForgotten
    <2> SUFFICES ASSUME IInv, asleep PROVE JoinNotForgotten
      BY DEF JoinNotForgotten
    <2>1. active # 0 /\ (pc[Owner] = "goexit" => ~exitCalled)
      BY DEF IInv, SleeperWaits
    <2>2. tasks # {}
      BY <2>1, FS_EmptySet DEF IInv, ActiveCounts
    <2> QED
      BY <2>1, <2>2 DEF JoinNotForgotten
  <1> QED
    BY <1>1, Inductive, PTL

\* A launcher released by a task that never completed a command finds the
\* group canceled if that task failed.
THEOREM FastFailure == Spec => []FastFailureSeen
  <1>1. IInv => FastFailureSeen
    BY DEF IInv, FailuresCancel, FastFailureSeen, Ended
  <1> QED
    BY <1>1, Inductive, PTL

\* No `go` registers a task once a failure is recorded or the group quiesced.
THEOREM NothingLate == Spec => NoLateTask
  <1>1. IInv /\ [Next]_vars => [failures # {} \/ quiesced => nextTask' = nextTask]_vars
    <2> SUFFICES ASSUME IInv, Next, failures # {} \/ quiesced PROVE nextTask' = nextTask
      OBVIOUS
    <2>1. ctxDone \/ quiesced
      BY DEF IInv, FailuresCancel
    <2>2. ASSUME NEW p \in Procs, Launch(p) PROVE nextTask' = nextTask
      BY <2>1, <2>2 DEF Launch, Add, Unstarted, Reaped, StartTask, Launched, groupVars
    <2>3. ASSUME NEW t \in TaskIds, TaskStep(t) \/ TaskUnblocked(t)
          PROVE  nextTask' = nextTask
      BY <2>3 DEF TaskStep, TaskEnter, TaskSettled, TaskStopped, TaskArm, TaskRecheck,
                  TaskCanceled, TaskReturns, TaskUnblocked, TaskPanics, TaskCleanup,
                  TaskFails, TaskOsExit, Done, DoneCancelRun, DoneArm, groupVars
    <2>4. CASE OwnerStep \/ OwnerUnblocked \/ Canceling
      BY <2>4 DEF OwnerStep, OwnerBlocks, OwnerCalls, OwnerChanCanceled, OwnerRunCanceled,
                  OwnerEnds, OwnerGoexit, WaitCancel, Join, GoexitJoin, GoexitExit, ExitJoin,
                  WaitJoin, Adopt, OwnerUnblocked, OwnerFrame, Canceling, HostCancel,
                  MalformedOperand, groupVars
    <2> QED
      BY <2>2, <2>3, <2>4 DEF Next, Canceling, vars, groupVars
  <1> QED
    BY <1>1, Inductive, PTL DEF Spec, NoLateTask

-----------------------------------------------------------------------------
(* The status of the File.                                                 *)

\* Outside done() no step records a failure, ends a task or revives one.
EndedKept ==
    /\ failures' = failures
    /\ \A u \in TaskIds : (pc'[u] \in Ended) <=> (pc[u] \in Ended)
    /\ \A u \in TaskIds : pc[u] \in Ended => fail'[u] = fail[u]

\* Such a step keeps the recorded failures exact.
LEMMA EndedKeptExact ==
    ASSUME FailuresExact, EndedKept
    PROVE  FailuresExact'
  BY DEF FailuresExact, EndedKept, Ended

\* A launcher ends no task.
LEMMA LaunchKeeps ==
    ASSUME IInv, NEW p \in Procs, Launch(p)
    PROVE  EndedKept /\ (pc'[Owner] \in {"adopt", "over"} <=> pc[Owner] \in {"adopt", "over"})
           /\ (pc'[Owner] = "exitjoin" <=> pc[Owner] = "exitjoin")
           /\ (quiesced => fail' = fail)
           /\ UNCHANGED <<status, cause, exitCalled, quiesced>>
  <1> USE DEF IInv, Launch, groupVars, Ended, EndedKept
  <1>a. Owner \in Procs /\ \A u \in TaskIds : u \in Procs /\ u # Owner
    BY GroupAssumption DEF Procs
  <1>1. CASE Add(p) \/ Reaped(p) \/ Launched(p)
    BY <1>a, <1>1 DEF Add, Reaped, Launched, At, TypeOK
  <1>2. CASE Unstarted(p) \/ StartTask(p)
    <2>1. PICK t \in TaskIds : t = child[p]
      BY <1>2 DEF Unstarted, StartTask, SnapshotsOwned, TypeOK
    <2>2. pc[p] = "snap" /\ t \in tasks /\ pc[t] = "unborn" /\ t # p /\ ~quiesced
      BY <1>2, <2>1 DEF Unstarted, StartTask, SnapshotsOwned, QuiescedEmpty
    <2>3. \E a \in {"reap", "await"}, b \in {"finish", "born"} :
              pc' = [pc EXCEPT ![p] = a, ![t] = b]
      BY <1>2, <2>1 DEF Unstarted, StartTask
    <2>4. /\ UNCHANGED <<failures, status, cause, exitCalled, quiesced>>
          /\ \A u \in TaskIds \ {t} : fail'[u] = fail[u]
      <3>1. fail' = [fail EXCEPT ![t] = PanicStatus] \/ fail' = fail
        BY <1>2, <2>1 DEF Unstarted, StartTask
      <3> QED
        BY <1>2, <3>1 DEF Unstarted, StartTask, TypeOK
    <2>5. pc' \in [Procs -> OwnerPCs \cup TaskPCs] /\ pc'[t] \in {"finish", "born"}
          /\ pc'[p] \in {"reap", "await"} /\ \A q \in Procs \ {p, t} : pc'[q] = pc[q]
      BY <1>a, <2>2, <2>3 DEF TypeOK, OwnerPCs, TaskPCs
    <2> QED
      BY <1>a, <2>2, <2>4, <2>5
  <1> QED
    BY <1>1, <1>2

\* Before done() a task ends nothing, and after the join it does not run.
LEMMA TaskLocalKeeps ==
    ASSUME IInv, NEW t \in TaskIds, TaskLocal(t)
    PROVE  EndedKept /\ ~quiesced /\ pc'[Owner] = pc[Owner]
           /\ UNCHANGED <<status, cause, quiesced>> /\ (exitCalled => exitCalled')
  <1>0. /\ pc[t] \in Live \ {"snap"}
        /\ \A q \in Procs \ {t} : pc'[q] = pc[q]
        /\ pc'[t] \in {"run", "rearm", "blocked", "exit", "finish"}
        /\ UNCHANGED <<quiesced, failures, status, cause>>
    BY TaskLocalShape
  <1>1. \A u \in TaskIds \ {t} : fail'[u] = fail[u]
    BY DEF IInv, TypeOK, TaskLocal, TaskEnter, TaskSettled, TaskStopped, TaskArm,
           TaskRecheck, TaskCanceled, TaskReturns, TaskUnblocked, TaskPanics,
           TaskCleanup, TaskFails, TaskOsExit
  <1>2. exitCalled => exitCalled'
    BY DEF TaskLocal, TaskEnter, TaskSettled, TaskStopped, TaskArm,
           TaskRecheck, TaskCanceled, TaskReturns, TaskUnblocked, TaskPanics,
           TaskCleanup, TaskFails, TaskOsExit, groupVars
  <1>3. ~quiesced
    BY <1>0 DEF IInv, LiveRegistered, QuiescedEmpty
  <1>4. Owner \in Procs /\ \A u \in TaskIds : u \in Procs /\ u # Owner
    BY GroupAssumption DEF Procs
  <1> QED
    BY <1>0, <1>1, <1>2, <1>3, <1>4 DEF EndedKept, Ended, Live

\* done() records exactly the failure of the task it ends.
LEMMA DoneExact ==
    ASSUME IInv, FailuresExact, NEW t \in TaskIds, Done(t)
    PROVE  FailuresExact' /\ ~quiesced /\ pc'[Owner] = pc[Owner]
           /\ UNCHANGED <<status, cause, quiesced, exitCalled>>
  <1> USE DEF Done, At
  <1>1. /\ Owner # t /\ t \in Procs /\ \A u \in TaskIds \ {t} : u \in Procs /\ pc'[u] = pc[u]
        /\ pc[t] = "finish" /\ pc'[t] = "cancelrun" /\ pc'[Owner] = pc[Owner]
    BY GroupAssumption DEF Procs, IInv, TypeOK
  <1>2. ~quiesced
    BY <1>1 DEF IInv, LiveRegistered, QuiescedEmpty, Live
  <1>3. failures' = {u \in TaskIds : fail[u] # 0 /\ pc'[u] \in Ended}
    BY <1>1 DEF FailuresExact, Ended
  <1> QED
    BY <1>1, <1>2, <1>3 DEF FailuresExact, Ended

\* A step after which the owner is where it was, with the status it had,
\* keeps the invariant of the status.
LEMMA QuietSInv ==
    ASSUME IInv, SInv, FailuresExact', quiesced => fail' = fail,
           pc'[Owner] \in {"adopt", "over"} <=> pc[Owner] \in {"adopt", "over"},
           pc'[Owner] = "over" <=> pc[Owner] = "over",
           pc'[Owner] = "exitjoin" => pc[Owner] = "exitjoin",
           UNCHANGED <<status, cause, quiesced>>, exitCalled => exitCalled'
    PROVE  SInv'
  <1>1. AdoptsAfterJoin'
    BY DEF SInv, AdoptsAfterJoin
  <1>2. FileStatus'
    <2> SUFFICES ASSUME pc'[Owner] = "over", ~exitCalled' PROVE FileStatus'
      BY DEF FileStatus
    <2>1. pc[Owner] = "over" /\ ~exitCalled /\ fail' = fail /\ UNCHANGED <<status, cause>>
      BY DEF SInv, AdoptsAfterJoin
    <2> QED
      BY <2>1 DEF SInv, FileStatus
  <1> QED
    BY <1>1, <1>2 DEF SInv

\* The steps of the owner before its last one keep it too.
LEMMA OwnerSInv ==
    ASSUME IInv, SInv, (OwnerStep /\ ~Adopt) \/ OwnerUnblocked
    PROVE  SInv'
  <1> USE DEF At, SInv
  <1>a. Owner \in Procs /\ pc \in [Procs -> OwnerPCs \cup TaskPCs]
        /\ \A u \in TaskIds : u \in Procs /\ u # Owner
    BY GroupAssumption DEF IInv, TypeOK, Procs
  <1>1. /\ fail' = fail /\ failures' = failures /\ exitCalled' = exitCalled
        /\ quiesced => quiesced'
    BY DEF OwnerStep, OwnerBlocks, OwnerCalls, OwnerUnblocked, OwnerChanCanceled,
           OwnerRunCanceled, OwnerEnds, OwnerGoexit, WaitCancel, Join, GoexitJoin,
           GoexitExit, ExitJoin, WaitJoin, OwnerFrame, groupVars
  <1>2. FailuresExact'
    <2>1. \E to \in OwnerPCs : pc' = [pc EXCEPT ![Owner] = to] \/ pc' = pc
      BY DEF OwnerStep, OwnerBlocks, OwnerCalls, OwnerUnblocked, OwnerChanCanceled,
             OwnerRunCanceled, OwnerEnds, OwnerGoexit, WaitCancel, Join, GoexitJoin,
             GoexitExit, ExitJoin, WaitJoin, OwnerPCs
    <2>2. \A u \in TaskIds : pc'[u] = pc[u]
      BY <1>a, <2>1
    <2> QED
      BY <1>1, <2>2 DEF FailuresExact, Ended
  <1>3. CASE OwnerBlocks \/ OwnerCalls \/ OwnerUnblocked \/ OwnerChanCanceled
             \/ OwnerRunCanceled \/ OwnerEnds \/ OwnerGoexit \/ WaitCancel \/ GoexitExit
    <2>1. /\ pc[Owner] \notin {"adopt", "over"}
          /\ pc'[Owner] \notin {"adopt", "over"}
          /\ pc'[Owner] = "exitjoin" => exitCalled
          /\ cause' # "task"
      BY <1>3, <1>a
         DEF OwnerBlocks, OwnerCalls, OwnerUnblocked, OwnerChanCanceled, OwnerRunCanceled,
             OwnerEnds, OwnerGoexit, WaitCancel, GoexitExit, AdoptsAfterJoin
    <2> QED
      BY <1>1, <1>2, <2>1 DEF AdoptsAfterJoin, FileStatus
  <1>4. CASE Join \/ GoexitJoin \/ ExitJoin
    <2>1. CASE active # 0
      <3>1. UNCHANGED <<pc, quiesced, status, cause>>
        BY <1>4, <2>1 DEF Join, GoexitJoin, ExitJoin, WaitJoin
      <3> QED
        BY <1>1, <1>2, <3>1, QuietSInv
    <2>2. CASE active = 0
      <3>1. /\ quiesced' /\ pc'[Owner] \in {"adopt", "over"}
            /\ pc'[Owner] = "over" => exitCalled
            /\ cause' # "task"
        BY <1>4, <1>a, <2>2 DEF Join, GoexitJoin, ExitJoin, WaitJoin, AdoptsAfterJoin
      <3> QED
        BY <1>1, <1>2, <3>1 DEF AdoptsAfterJoin, FileStatus
    <2> QED
      BY <2>1, <2>2
  <1> QED
    BY <1>3, <1>4 DEF OwnerStep

\* bashPPAdoptTaskFailure decides the status of the File.
LEMMA AdoptSInv ==
    ASSUME IInv, SInv, Adopt
    PROVE  SInv'
  <1> USE DEF SInv
  <1>1. /\ Owner \in Procs /\ \A u \in TaskIds : u \in Procs /\ u # Owner
        /\ pc[Owner] = "adopt" /\ pc'[Owner] = "over" /\ quiesced
        /\ \A u \in TaskIds : pc'[u] = pc[u]
        /\ UNCHANGED <<fail, failures, quiesced, exitCalled>>
    BY GroupAssumption
       DEF IInv, TypeOK, Procs, Adopt, At, OwnerFrame, groupVars, AdoptsAfterJoin
  <1>2. failures = {t \in TaskIds : fail[t] # 0}
    <2>1. \A t \in TaskIds : fail[t] # 0 => pc[t] \in Ended
      BY <1>1 DEF IInv, FailuresCancel, LiveRegistered, QuiescedEmpty, Live
    <2> QED
      BY <2>1 DEF FailuresExact
  <1>3. FailuresExact' /\ AdoptsAfterJoin'
    BY <1>1 DEF FailuresExact, AdoptsAfterJoin, Ended
  <1>4. FileStatus'
    <2>1. CASE failures = {}
      BY <1>1, <1>2, <2>1 DEF FileStatus
    <2>2. CASE failures # {} /\ status.code # 0 /\ ~Echo
      <3>1. UNCHANGED <<status, cause>> /\ cause # "task"
        BY <1>1, <2>2 DEF Adopt, AdoptsAfterJoin
      <3> QED
        BY <1>1, <2>2, <3>1 DEF FileStatus
    <2>3. CASE failures # {} /\ ~(status.code # 0 /\ ~Echo)
      <3>1. Primary \in failures /\ \A u \in failures : Primary <= u
        BY <2>3, PrimaryIsLeast DEF IInv, TypeOK
      <3>2. status'.code = fail[Primary]
        BY <2>3 DEF Adopt, Status
      <3>3. status'.code # 0
        BY <1>2, <3>1, <3>2
      <3>4. \E t \in failures : status'.code = fail[t] /\ \A u \in failures : t <= u
        BY <3>1, <3>2
      <3> QED
        BY <1>1, <1>2, <3>3, <3>4 DEF FileStatus
    <2> QED
      BY <2>1, <2>2, <2>3
  <1> QED
    BY <1>3, <1>4

\* Every step of the group keeps the invariant of the status.
LEMMA NextSInv ==
    ASSUME IInv, SInv, [Next]_vars
    PROVE  SInv'
  <1>1. ASSUME NEW p \in Procs, Launch(p) PROVE SInv'
    <2>1. pc'[Owner] = "over" <=> pc[Owner] = "over"
      <3>1. p \in Procs /\ Owner \in Procs /\ \A u \in TaskIds : u # Owner
        BY GroupAssumption DEF Procs
      <3>2. ASSUME Unstarted(p) \/ StartTask(p) PROVE child[p] # Owner
        BY <3>1, <3>2 DEF IInv, TypeOK, SnapshotsOwned, Unstarted, StartTask
      <3> QED
        BY <1>1, <3>1, <3>2
           DEF Launch, Add, Unstarted, Reaped, StartTask, Launched, At, IInv, TypeOK
    <2> QED
      BY <1>1, <2>1, LaunchKeeps, EndedKeptExact, QuietSInv DEF SInv
  <1>2. ASSUME NEW t \in TaskIds, TaskStep(t) \/ TaskUnblocked(t) PROVE SInv'
    <2>1. CASE TaskLocal(t)
      BY <2>1, TaskLocalKeeps, EndedKeptExact, QuietSInv DEF SInv
    <2>2. CASE Done(t)
      BY <2>2, DoneExact, QuietSInv DEF SInv
    <2>3. CASE DoneCancelRun(t) \/ DoneArm(t)
      <3>1. /\ UNCHANGED <<failures, fail, status, cause, quiesced, exitCalled>>
            /\ pc[t] \in Ended
            /\ \E to \in Ended : pc' = [pc EXCEPT ![t] = to]
        BY <2>3 DEF DoneCancelRun, DoneArm, At, Ended, groupVars
      <3>2. t \in Procs /\ Owner # t /\ Owner \in Procs /\ \A u \in TaskIds : u \in Procs
        BY GroupAssumption DEF Procs
      <3>3. pc'[Owner] = pc[Owner] /\ EndedKept
        BY <3>1, <3>2 DEF EndedKept, IInv, TypeOK
      <3> QED
        BY <3>1, <3>3, EndedKeptExact, QuietSInv DEF SInv
    <2> QED
      BY <1>2, <2>1, <2>2, <2>3 DEF TaskStep, TaskLocal
  <1>3. CASE Canceling \/ UNCHANGED vars
    <2>1. UNCHANGED <<failures, fail, pc, status, cause, quiesced, exitCalled>>
      BY <1>3 DEF Canceling, HostCancel, MalformedOperand, vars, groupVars
    <2> QED
      BY <2>1, EndedKeptExact, QuietSInv DEF SInv, EndedKept
  <1> QED
    BY <1>1, <1>2, <1>3, OwnerSInv, AdoptSInv DEF Next, OwnerStep, Canceling

\* The File's status is never a success when a task failed, and a status
\* adopted from the tasks is that of the lowest ordinal among ALL the tasks
\* that failed: bashPPAdoptTaskFailure runs after the last done().
THEOREM StatusOfFile == Spec => []FileStatus
  <1>1. Init => SInv
    BY GroupAssumption
       DEF Init, SInv, FailuresExact, AdoptsAfterJoin, FileStatus, Procs, Ended
  <1>2. IInv /\ SInv /\ [Next]_vars => SInv'
    BY NextSInv
  <1>3. SInv => FileStatus
    BY DEF SInv
  <1> QED
    BY <1>1, <1>2, <1>3, Inductive, PTL DEF Spec

-----------------------------------------------------------------------------
(* The structured group.                                                   *)

\* The phase of a task, as Group maps it.
Phase == [t \in TaskIds |-> IF t \in tasks THEN "live"
                            ELSE IF t < nextTask THEN "ended" ELSE "none"]

\* A step that leaves the registry alone and at most cancels the group is a
\* stutter or a cancellation of the structured group.
LEMMA QuietStep ==
    ASSUME UNCHANGED <<tasks, nextTask, failures, quiesced>>, ctxDone' = ctxDone \/ ctxDone' = TRUE
    PROVE  [Group!Next]_(Group!vars)
  <1>1. Phase' = Phase
    BY DEF Phase
  <1>2. CASE ctxDone' = ctxDone
    BY <1>1, <1>2 DEF Group!vars, Phase
  <1>3. CASE ctxDone' = TRUE
    <2>1. Group!Cancel
      BY <1>1, <1>3 DEF Group!Cancel, Phase
    <2> QED
      BY <2>1 DEF Group!Next
  <1> QED
    BY <1>2, <1>3

\* Registering a task launches the next ordinal of an open group.
LEMMA AddLaunches ==
    ASSUME IInv, NEW p \in Procs, Add(p)
    PROVE  Group!Next
  <1>1. /\ nextTask \in TaskIds /\ nextTask \in Nat /\ nextTask \notin tasks
        /\ \A u \in TaskIds : u \in Nat /\ (u >= nextTask => u \notin tasks)
    BY GroupAssumption DEF IInv, TypeOK, LiveRegistered, Add, TaskIds
  <1>2. Phase[nextTask] = "none" /\ \A u \in TaskIds : u > nextTask => Phase[u] = "none"
    BY <1>1 DEF Phase
  <1>3. Phase' = [Phase EXCEPT ![nextTask] = "live"]
    <2>1. tasks' = tasks \cup {nextTask} /\ nextTask' = nextTask + 1
      BY DEF Add
    <2>2. \A u \in TaskIds : Phase'[u] = [Phase EXCEPT ![nextTask] = "live"][u]
      BY <1>1, <2>1 DEF Phase
    <2> QED
      BY <2>2 DEF Phase
  <1>4. PICK t \in TaskIds : t = nextTask
    BY <1>1
  <1>5. Group!Launch(t)
    <2>1. ~ctxDone /\ ~quiesced /\ UNCHANGED <<failures, ctxDone, quiesced>>
      BY DEF Add
    <2> QED
      BY <1>2, <1>3, <1>4, <2>1 DEF Group!Launch, Group!Move, Phase
  <1> QED
    BY <1>5 DEF Group!Next

\* The critical section of done() ends its task, and fails it if it failed.
LEMMA DoneEnds ==
    ASSUME IInv, NEW t \in TaskIds, Done(t)
    PROVE  Group!Next
  <1>1. t \in tasks /\ t \in Nat /\ nextTask \in Nat /\ t < nextTask
    BY GroupAssumption DEF IInv, TypeOK, LiveRegistered, Live, Done, At, TaskIds
  <1>2. Phase[t] = "live" /\ Phase' = [Phase EXCEPT ![t] = "ended"]
    <2>1. tasks' = tasks \ {t} /\ nextTask' = nextTask
      BY DEF Done
    <2>2. \A u \in TaskIds : Phase'[u] = [Phase EXCEPT ![t] = "ended"][u]
      BY <1>1, <2>1 DEF Phase
    <2> QED
      BY <1>1, <2>2 DEF Phase
  <1>3. CASE fail[t] # 0
    <2>1. failures' = failures \cup {t} /\ ctxDone' = TRUE /\ quiesced' = quiesced
      BY <1>3 DEF Done
    <2>2. Group!Fail(t)
      BY <1>2, <2>1 DEF Group!Fail, Group!Move, Phase
    <2> QED
      BY <2>2 DEF Group!Next
  <1>4. CASE fail[t] = 0
    <2>1. failures' = failures /\ ctxDone' = ctxDone /\ quiesced' = quiesced
      BY <1>4 DEF Done, IInv, TypeOK
    <2>2. Group!End(t)
      BY <1>2, <2>1 DEF Group!End, Group!Move, Phase
    <2> QED
      BY <2>2 DEF Group!Next
  <1> QED
    BY <1>3, <1>4

\* The owner that finds no active task joins the group, once.
LEMMA WaitJoins ==
    ASSUME IInv, Join \/ GoexitJoin \/ ExitJoin
    PROVE  [Group!Next]_(Group!vars)
  <1>1. UNCHANGED <<tasks, nextTask, failures, ctxDone>>
    BY DEF Join, GoexitJoin, ExitJoin, WaitJoin
  <1>2. CASE quiesced' = quiesced
    BY <1>1, <1>2, QuietStep
  <1>3. CASE quiesced' # quiesced
    <2>1. active = 0 /\ quiesced' = TRUE /\ ~quiesced
      BY <1>3 DEF Join, GoexitJoin, ExitJoin, WaitJoin, IInv, TypeOK
    <2>2. tasks = {}
      BY <2>1, TasksFinite, FS_EmptySet DEF IInv, ActiveCounts
    <2>3. Phase' = Phase /\ \A t \in TaskIds : Phase[t] # "live"
      BY <1>1, <2>2 DEF Phase
    <2>4. Group!Join
      BY <1>1, <2>1, <2>3 DEF Group!Join, Phase
    <2> QED
      BY <2>4 DEF Group!Next
  <1> QED
    BY <1>2, <1>3

\* Every step of the interpreter's group is a step of the structured group.
LEMMA NextImplements ==
    ASSUME IInv, [Next]_vars
    PROVE  [Group!Next]_(Group!vars)
  <1>1. ASSUME NEW p \in Procs, Launch(p) PROVE [Group!Next]_(Group!vars)
    <2>1. CASE Add(p)
      BY <2>1, AddLaunches
    <2>2. CASE Unstarted(p) \/ Reaped(p) \/ StartTask(p) \/ Launched(p)
      BY <2>2, QuietStep DEF Unstarted, Reaped, StartTask, Launched, groupVars
    <2> QED
      BY <1>1, <2>1, <2>2 DEF Launch
  <1>2. ASSUME NEW t \in TaskIds, TaskStep(t) \/ TaskUnblocked(t)
        PROVE  [Group!Next]_(Group!vars)
    <2>1. CASE TaskLocal(t)
      <3>1. ctxDone' = ctxDone \/ ctxDone' = TRUE
        BY <2>1 DEF TaskLocal, TaskEnter, TaskSettled, TaskStopped, TaskArm, TaskRecheck,
                    TaskUnblocked, TaskCanceled, TaskReturns, TaskFails, TaskOsExit, TaskPanics,
                    TaskCleanup, groupVars
      <3> QED
        BY <2>1, <3>1, TaskLocalShape, QuietStep
    <2>2. CASE Done(t)
      BY <2>2, DoneEnds
    <2>3. CASE DoneCancelRun(t) \/ DoneArm(t)
      BY <2>3, QuietStep DEF DoneCancelRun, DoneArm, groupVars
    <2> QED
      BY <1>2, <2>1, <2>2, <2>3 DEF TaskStep, TaskLocal
  <1>3. CASE OwnerStep \/ OwnerUnblocked
    <2>1. CASE Join \/ GoexitJoin \/ ExitJoin
      BY <2>1, WaitJoins
    <2>2. CASE ~(Join \/ GoexitJoin \/ ExitJoin)
      <3>1. UNCHANGED <<tasks, nextTask, failures, quiesced>>
        BY <1>3, <2>2
           DEF OwnerStep, OwnerBlocks, OwnerCalls, OwnerUnblocked, OwnerChanCanceled,
               OwnerRunCanceled, OwnerEnds, OwnerGoexit, WaitCancel, GoexitExit, Adopt,
               OwnerFrame, groupVars
      <3>2. ctxDone' = ctxDone \/ ctxDone' = TRUE
        BY <1>3, <2>2
           DEF OwnerStep, OwnerBlocks, OwnerCalls, OwnerUnblocked, OwnerChanCanceled,
               OwnerRunCanceled, OwnerEnds, OwnerGoexit, WaitCancel, GoexitExit, Adopt,
               OwnerFrame, groupVars
      <3> QED
        BY <3>1, <3>2, QuietStep
    <2> QED
      BY <2>1, <2>2
  <1>4. CASE Canceling \/ UNCHANGED vars
    BY <1>4, QuietStep DEF Canceling, HostCancel, MalformedOperand, vars, groupVars
  <1> QED
    BY <1>1, <1>2, <1>3, <1>4 DEF Next, Canceling

\* The task group of a File Run implements the structured group: ordered
\* launches into an open group only, failures that cancel as they end their
\* task, and one join after the last task.
THEOREM GroupRefinement == Spec => ImplementsGroup
  <1>1. Init => Group!Init
    BY GroupAssumption DEF Init, Group!Init, TaskIds
  <1>2. IInv /\ [Next]_vars => [Group!Next]_(Group!vars)
    BY NextImplements
  <1> QED
    BY <1>1, <1>2, Inductive, PTL DEF Spec, ImplementsGroup, Group!Spec
=============================================================================
