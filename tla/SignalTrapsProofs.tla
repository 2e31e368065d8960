--------------------------- MODULE SignalTrapsProofs ---------------------------
(***************************************************************************)
(* Proofs about SignalTraps, for any set of signals and any number of      *)
(* subscriptions, Runs and signals sent: a replaced disposition is over    *)
(* when trap returns, an owed trap runs before the next statement, and a   *)
(* Run is interrupted only for a signal that it will report.               *)
(***************************************************************************)
EXTENDS SignalTraps, WellFoundedInduction, TLAPS

Actions == {"default", "ignore", "action"}

\* Signals are numbers above zero, and so are subscriptions and Runs.
LEMMA Numbers ==
    /\ Sigs \subseteq Nat /\ 0 \notin Sigs /\ OsSigs \subseteq Sigs
    /\ Chld \in Sigs /\ Chld \notin OsSigs /\ \A n \in Sigs : n # Chld => n \in OsSigs
    /\ Subs \subseteq Nat /\ 0 \notin Subs /\ Runs \subseteq Nat /\ 0 \notin Runs
  BY SignalAssumption DEF Sigs, Subs, Runs

\* The program starts without traps, subscriptions and Runs.
LEMMA InitIInv == Init => IInv
  <1> SUFFICES ASSUME Init PROVE IInv
    OBVIOUS
  <1>1. TypeOK
    <2>1. /\ trap \in [Sigs -> {"default", "ignore", "action"}]
          /\ chldActive \in BOOLEAN /\ loop \in BOOLEAN
          /\ current \in [OsSigs -> {0} \cup Subs]
          /\ subSig \in [Subs -> {0} \cup OsSigs] /\ buffer \in [Subs -> {0, 1}]
          /\ stopped \in [Subs -> BOOLEAN]
          /\ worker \in [Subs -> {"none", "select", "queue", "wake", "finished"}]
      BY DEF Init
    <2>2. pending \in [Sigs -> Seq({"default", "ignore", "action"})]
      BY DEF Init
    <2>4. /\ hasPending \in BOOLEAN /\ wake \in BOOLEAN /\ receipt \in [OsSigs -> BOOLEAN]
          /\ canceled \in [Runs -> BOOLEAN] /\ handling \in BOOLEAN
          /\ during \in BOOLEAN /\ due \in BOOLEAN /\ owed \subseteq Sigs
      BY DEF Init
    <2>3. nextSub \in 1 .. (MaxSubs + 1) /\ nextRun \in 1 .. (MaxRuns + 1) /\ sent \in 0 .. MaxSends
      BY SignalAssumption DEF Init
    <2> QED
      BY <2>1, <2>2, <2>3, <2>4 DEF Init, TypeOK
  <1>2. RunsOrdered /\ CancelExplained /\ Replacing
    BY DEF Init, RunsOrdered, CancelExplained, Interrupted, Replacing
  <1>3. Subscriptions
    BY Numbers DEF Init, Subscriptions, Subs
  <1>4. QueueKept
    <2>1. Queued = {}
      BY DEF Init, Queued
    <2> QED
      BY <2>1 DEF Init, QueueKept
  <1> QED
    BY <1>1, <1>2, <1>3, <1>4 DEF IInv

-----------------------------------------------------------------------------
(* The queue.                                                              *)

\* The pending signal with the lowest number exists.
LEMMA LowestQueued ==
    ASSUME Queued # {}
    PROVE  Lowest \in Queued
  <1>1. Queued \subseteq Nat
    BY Numbers DEF Queued
  <1>2. PICK n \in Queued : \A k \in Queued : ~(<<k, n>> \in OpToRel(<, Nat))
    BY <1>1, WFMin, NatLessThanWellFounded
  <1>3. \A k \in Queued : n <= k
    <2> SUFFICES ASSUME NEW k \in Queued, k < n PROVE FALSE
      BY <1>1
    <2> QED
      BY <1>1, <1>2 DEF OpToRel
  <1> QED
    BY <1>3 DEF Lowest

\* queuePendingSignal adds its signal, publishes it and pays its receipt.
LEMMA EnqueueEffect ==
    ASSUME TypeOK, NEW n \in Sigs, NEW a \in Actions, Enqueue(n, a)
    PROVE  /\ pending' \in [Sigs -> Seq(Actions)] /\ Queued' = Queued \cup {n}
           /\ hasPending' = TRUE /\ receipt' \in [OsSigs -> BOOLEAN] /\ during' \in BOOLEAN
           /\ \A k \in OsSigs : receipt[k] => receipt'[k] \/ k = n
  <1>1. pending \in [Sigs -> Seq(Actions)] /\ receipt \in [OsSigs -> BOOLEAN]
    BY DEF TypeOK, Actions
  <1>2. pending' = [pending EXCEPT ![n] = Append(@, a)]
    BY DEF Enqueue
  <1>3. /\ pending' \in [Sigs -> Seq(Actions)] /\ pending'[n] # <<>>
        /\ \A k \in Sigs \ {n} : pending'[k] = pending[k]
    BY <1>1, <1>2
  <1>4. Queued' = Queued \cup {n}
    BY <1>3 DEF Queued
  <1>5. receipt' \in [OsSigs -> BOOLEAN] /\ \A k \in OsSigs : receipt[k] => receipt'[k] \/ k = n
    BY <1>1 DEF Enqueue
  <1>6. hasPending' = TRUE /\ during' \in BOOLEAN
    BY DEF Enqueue, TypeOK
  <1> QED
    BY <1>3, <1>4, <1>5, <1>6

\* nextPendingSignal takes one entry of the lowest signal.
LEMMA NextPendingEffect ==
    ASSUME TypeOK, NextPending
    PROVE  \E n \in Queued :
             /\ pending' \in [Sigs -> Seq(Actions)]
             /\ \A k \in Queued \ {n} : k \in Queued'
             /\ hasPending' = (Queued' # {}) /\ owed' = owed \ {n} /\ due' = (due /\ n # Chld)
             /\ \/ pc' = "boundary" /\ handling' = TRUE
                \/ UNCHANGED <<pc, handling>>
  <1>1. PICK n \in Queued :
          /\ n = Lowest
          /\ pending' = [pending EXCEPT ![n] = Tail(@)]
          /\ hasPending' = (\E k \in Sigs : pending'[k] # <<>>)
          /\ owed' = owed \ {n} /\ due' = (due /\ n # Chld)
          /\ \/ pc' = "boundary" /\ handling' = TRUE
             \/ UNCHANGED <<pc, handling>>
    BY LowestQueued DEF NextPending
  <1>2. n \in Sigs /\ pending[n] # <<>> /\ pending \in [Sigs -> Seq(Actions)]
    BY DEF Queued, TypeOK, Actions
  <1>3. pending' \in [Sigs -> Seq(Actions)] /\ \A k \in Sigs \ {n} : pending'[k] = pending[k]
    BY <1>1, <1>2
  <1>4. \A k \in Queued \ {n} : k \in Queued'
    BY <1>3 DEF Queued
  <1>5. hasPending' = (Queued' # {})
    BY <1>1 DEF Queued
  <1> QED
    BY <1>1, <1>3, <1>4, <1>5

-----------------------------------------------------------------------------
(* Types.                                                                  *)

\* A step that queues a signal: of the worker, of kill, of the job.
Queues(n, a) ==
    \/ \E i \in Subs : WorkerQueues(i) /\ n = subSig[i] /\ a = "action"
    \/ n \in OsSigs /\ KillSelf(n) /\ a = trap[n]
    \/ RouteQueues /\ n = jobSig /\ a = jobAct
    \/ JobQueues /\ n = Chld /\ a = jobAct

\* It queues a signal with an action, and leaves its subscriptions alone.
LEMMA QueuesEffect ==
    ASSUME IInv, NEW n, NEW a, Queues(n, a)
    PROVE  n \in Sigs /\ a \in Actions /\ Enqueue(n, a)
  <1> USE DEF IInv
  <1>1. ASSUME NEW i \in Subs, WorkerQueues(i), n = subSig[i], a = "action"
        PROVE  n \in Sigs /\ a \in Actions /\ Enqueue(n, a)
    BY <1>1, Numbers DEF WorkerQueues, Subscriptions, Actions
  <1>2. CASE n \in OsSigs /\ KillSelf(n) /\ a = trap[n]
    BY <1>2, Numbers DEF KillSelf, TypeOK, Actions
  <1>3. CASE RouteQueues /\ n = jobSig /\ a = jobAct
    BY <1>3 DEF RouteQueues, TypeOK, Actions, QueueKept
  <1>4. CASE JobQueues /\ n = Chld /\ a = jobAct
    BY <1>4, Numbers DEF JobQueues, TypeOK, Actions
  <1> QED
    BY <1>1, <1>2, <1>3, <1>4 DEF Queues

\* The values that no step takes out of their sets.
LEMMA TypeStep ==
    ASSUME IInv, [Next]_vars
    PROVE  TypeOK'
  <1> USE DEF IInv
  <1> USE DEF subVars, trapVars, queueVars, runVars, shellVars, jobVars, history
  <1>1. ASSUME NEW n, NEW a, Queues(n, a) PROVE TypeOK'
    <2>1. /\ pending' \in [Sigs -> Seq({"default", "ignore", "action"})]
          /\ hasPending' \in BOOLEAN /\ receipt' \in [OsSigs -> BOOLEAN] /\ during' \in BOOLEAN
      BY <1>1, QueuesEffect, EnqueueEffect DEF Actions
    <2>2. ASSUME NEW i \in Subs, WorkerQueues(i) PROVE TypeOK'
      BY <2>1, <2>2 DEF WorkerQueues, TypeOK
    <2>3. CASE n \in OsSigs /\ KillSelf(n)
      <3>1. sent' \in 0 .. MaxSends
        BY <2>3, SignalAssumption DEF KillSelf, TypeOK
      <3> QED
        BY <2>1, <2>3, <3>1 DEF KillSelf, Go, TypeOK
    <2>4. CASE RouteQueues \/ JobQueues
      BY <2>1, <2>4 DEF RouteQueues, JobQueues, TypeOK
    <2> QED
      BY <1>1, <2>2, <2>3, <2>4 DEF Queues
  <1>2. CASE NextPending
    <2>1. PICK n \in Queued :
            /\ pending' \in [Sigs -> Seq(Actions)]
            /\ hasPending' = (Queued' # {}) /\ owed' = owed \ {n} /\ due' = (due /\ n # Chld)
            /\ \/ pc' = "boundary" /\ handling' = TRUE
               \/ UNCHANGED <<pc, handling>>
      BY <1>2, NextPendingEffect
    <2>2. hasPending' \in BOOLEAN /\ due' \in BOOLEAN /\ handling' \in BOOLEAN
      BY <2>1 DEF TypeOK
    <2> QED
      BY <1>2, <2>1, <2>2 DEF NextPending, TypeOK, Actions
  <1>3. CASE TrapDisposition
    <2>0. pc = "trapos" /\ nextSub \in Subs /\ arg \in Sigs /\ (arg # Chld => arg \in OsSigs)
      BY <1>3, Numbers DEF TrapDisposition, Go, Replacing
    <2>1. /\ current' \in [OsSigs -> {0} \cup Subs] /\ subSig' \in [Subs -> {0} \cup OsSigs]
          /\ worker' \in [Subs -> {"none", "select", "queue", "wake", "finished"}]
          /\ old' \in {0} \cup Subs
      <3>1. CASE arg = Chld
        BY <1>3, <3>1 DEF TrapDisposition, TypeOK
      <3>2. CASE arg # Chld /\ trap[arg] = "action"
        BY <1>3, <2>0, <3>2 DEF TrapDisposition, TypeOK
      <3>3. CASE arg # Chld /\ trap[arg] # "action"
        BY <1>3, <2>0, <3>3 DEF TrapDisposition, TypeOK
      <3> QED
        BY <3>1, <3>2, <3>3
    <2>2. chldActive' \in BOOLEAN /\ loop' \in BOOLEAN /\ stopped' \in [Subs -> BOOLEAN]
      BY <1>3 DEF TrapDisposition, TypeOK
    <2>3. nextSub' \in 1 .. (MaxSubs + 1) /\ buffer' = buffer
      BY <1>3, SignalAssumption DEF TrapDisposition, Go, TypeOK, Replacing, Subs
    <2> QED
      BY <1>3, <2>1, <2>2, <2>3 DEF TrapDisposition, Go, TypeOK
  <1>4. CASE BeginRun \/ EndRun
    <2>1. nextRun' \in 1 .. (MaxRuns + 1) /\ run' \in {0} \cup Runs
      BY <1>4, SignalAssumption DEF BeginRun, EndRun, TypeOK, Runs
    <2>2. canceled' \in [Runs -> BOOLEAN]
      BY <1>4 DEF BeginRun, EndRun, BeginCanceled, TypeOK
    <2> QED
      BY <1>4, <2>1, <2>2 DEF BeginRun, EndRun, Go, TypeOK
  <1>5. CASE Boundary \/ After \/ NonePending \/ Stop \/ HandlerEnds \/ LastStatement
    <2>1. handling' \in BOOLEAN /\ hasPending' \in BOOLEAN
      BY <1>5 DEF Boundary, After, NonePending, Stop, HandlerEnds, LastStatement, TypeOK
    <2>2. ret' \in {"stop", "boundary"} /\ owed' \subseteq Sigs
      BY <1>5 DEF Boundary, After, NonePending, Stop, HandlerEnds, LastStatement, TypeOK
    <2>3. pc' \in {"boundary", "deliver", "stop", "end", "stmt", "after"}
      BY <1>5 DEF Boundary, After, NonePending, Stop, HandlerEnds, LastStatement, TypeOK
    <2> QED
      BY <1>5, <2>1, <2>2, <2>3
         DEF Boundary, After, NonePending, Stop, HandlerEnds, LastStatement, TypeOK
  <1>6. CASE Plain \/ WaitBegins \/ FinishOwnerSignal \/ TrapReturns
    BY <1>6 DEF Plain, WaitBegins, FinishOwnerSignal, TrapReturns, Go, TypeOK
  <1>7. ASSUME NEW n \in Sigs, NEW action \in {"default", "ignore", "action"}, TrapSet(n, action)
        PROVE  TypeOK'
    BY <1>7 DEF TrapSet, Go, TypeOK
  <1>8. CASE WaitDone \/ WaitCanceled
    <2>1. handling' \in BOOLEAN /\ during' \in BOOLEAN
      BY <1>8 DEF WaitDone, WaitCanceled, TypeOK
    <2>2. owed' \subseteq Sigs
      BY <1>8, Numbers DEF WaitDone, WaitCanceled, TypeOK
    <2>3. CASE WaitDone
      BY <2>1, <2>2, <2>3 DEF WaitDone, Go, TypeOK
    <2>4. CASE WaitCanceled
      BY <2>1, <2>2, <2>4 DEF WaitCanceled, Go, TypeOK
    <2> QED
      BY <1>8, <2>3, <2>4
  <1>9. CASE WaitWoken
    <2>1. Queued # {} => Lowest \in Sigs
      BY LowestQueued DEF Queued
    <2> QED
      <3>1. wake' \in BOOLEAN /\ during' \in BOOLEAN
        BY <1>9 DEF WaitWoken, TypeOK
      <3>2. owed' \subseteq Sigs
        BY <1>9, <2>1 DEF WaitWoken, TypeOK
      <3> QED
        BY <1>9, <3>1, <3>2 DEF WaitWoken, TypeOK
  <1>10. ASSUME NEW n \in OsSigs, KillGroup(n) \/ OsSignal(n) PROVE TypeOK'
    <2>1. sent' \in 0 .. MaxSends
      BY <1>10, SignalAssumption DEF KillGroup, OsSignal, TypeOK
    <2>2. receipt' \in [OsSigs -> BOOLEAN] /\ buffer' \in [Subs -> {0, 1}]
      BY <1>10 DEF KillGroup, OsSignal, Deliver, TypeOK
    <2> QED
      <3>1. arg' \in {0} \cup Sigs
        BY <1>10, Numbers DEF KillGroup, OsSignal, TypeOK
      <3> QED
        BY <1>10, <2>1, <2>2, <3>1 DEF KillGroup, OsSignal, Go, TypeOK
  <1>11. CASE KillSelfWakes \/ KillSend \/ KillReceipt
    <2>1. wake' \in BOOLEAN /\ buffer' \in [Subs -> {0, 1}]
      BY <1>11 DEF KillSelfWakes, KillSend, KillReceipt, Wakeup, Deliver, TypeOK
    <2>2. owed' \subseteq Sigs /\ arg' \in {0} \cup Sigs
      BY <1>11, Numbers DEF KillSelfWakes, KillSend, KillReceipt, Go, Replacing, TypeOK
    <2> QED
      BY <1>11, <2>1, <2>2 DEF KillSelfWakes, KillSend, KillReceipt, Wakeup, Go, TypeOK
  <1>12. ASSUME NEW n \in Sigs, RouteDrops(n) \/ RouteTraps(n) \/ RouteDefault(n) PROVE TypeOK'
    <2>1. sent' \in 0 .. MaxSends
      BY <1>12, SignalAssumption DEF RouteDrops, RouteTraps, RouteDefault, TypeOK
    <2>2. /\ ownerSig' \in {0} \cup Sigs /\ jobSig' \in {0} \cup Sigs /\ jobRun' \in {0} \cup Runs
          /\ jobAct' \in {"default", "ignore", "action"} /\ job' \in {job, "queue", "cancel"}
      BY <1>12 DEF RouteDrops, RouteTraps, RouteDefault, TypeOK
    <2> QED
      BY <1>12, <2>1, <2>2 DEF RouteDrops, RouteTraps, RouteDefault, TypeOK
  <1>13. CASE RouteWakes \/ JobReaped \/ JobMarks \/ JobWakes \/ JobDone
    <2>1. wake' \in BOOLEAN /\ due' \in BOOLEAN
      BY <1>13 DEF RouteWakes, JobReaped, JobMarks, JobWakes, JobDone, Wakeup, TypeOK
    <2>2. /\ jobAct' \in {"default", "ignore", "action"} /\ jobSig' \in {0} \cup Sigs
          /\ job' \in {"run", "mark", "close", "chld", "done"}
      BY <1>13, Numbers DEF RouteWakes, JobReaped, JobMarks, JobWakes, JobDone, TypeOK
    <2> QED
      BY <1>13, <2>1, <2>2 DEF RouteWakes, JobReaped, JobMarks, JobWakes, JobDone, Wakeup, TypeOK
  <1>14. CASE RouteCancels
    <2>1. canceled' \in [Runs -> BOOLEAN]
      BY <1>14 DEF RouteCancels, TypeOK
    <2> QED
      BY <1>14, <2>1 DEF RouteCancels, TypeOK
  <1>15. ASSUME NEW i \in Subs, WorkerTakes(i) \/ WorkerWakes(i) \/ WorkerEnds(i) PROVE TypeOK'
    <2>1. /\ worker' \in [Subs -> {"none", "select", "queue", "wake", "finished"}]
          /\ buffer' \in [Subs -> {0, 1}] /\ wake' \in BOOLEAN
      BY <1>15 DEF WorkerTakes, WorkerWakes, WorkerEnds, Wakeup, TypeOK
    <2> QED
      BY <1>15, <2>1 DEF WorkerTakes, WorkerWakes, WorkerEnds, Wakeup, TypeOK
  <1>16. CASE UNCHANGED vars
    BY <1>16 DEF vars, TypeOK
  <1>17. ASSUME RunnerStep \/ Statement PROVE TypeOK'
    <2>1. ASSUME NEW n \in OsSigs, KillSelf(n) PROVE TypeOK'
      BY <1>1, <2>1 DEF Queues
    <2> QED
      BY <1>2, <1>3, <1>4, <1>5, <1>6, <1>7, <1>8, <1>9, <1>10, <1>11, <1>17, <2>1
         DEF RunnerStep, Statement
  <1>18. ASSUME JobStep PROVE TypeOK'
    BY <1>1, <1>13, <1>14, <1>18 DEF JobStep, Queues
  <1>19. ASSUME NEW i \in Subs, WorkerStep(i) PROVE TypeOK'
    BY <1>1, <1>15, <1>19 DEF WorkerStep, Queues
  <1> QED
    BY <1>4, <1>5, <1>10, <1>12, <1>13, <1>16, <1>17, <1>18, <1>19 DEF Next

-----------------------------------------------------------------------------
(* Runs and the owner's signal.                                            *)

\* Runs keep their order, and no Run is interrupted without a recorded signal.
LEMMA RunsStep ==
    ASSUME IInv, [Next]_vars
    PROVE  RunsOrdered' /\ CancelExplained'
  <1> USE DEF IInv
  <1> USE DEF runVars, shellVars, jobVars
  <1>0. /\ run \in Nat /\ nextRun \in Nat /\ jobRun \in Nat /\ run \in {0} \cup Runs
        /\ canceled \in [Runs -> BOOLEAN] /\ ownerSig \in {0} \cup Sigs
    BY SignalAssumption, Numbers DEF TypeOK
  <1>1. ASSUME UNCHANGED <<run, nextRun, canceled, ownerSig>>,
               jobRun' = jobRun, job' = "cancel" => job = "cancel",
               pc' = "idle" <=> pc = "idle",
               pc' \notin {"exit", "idle"} => pc \notin {"exit", "idle"}
        PROVE  RunsOrdered' /\ CancelExplained'
    BY <1>1 DEF RunsOrdered, CancelExplained, Interrupted
  <1>2. CASE BeginRun
    <2>1. /\ pc' = "boundary" /\ run' = nextRun /\ nextRun' = nextRun + 1
          /\ canceled' = [canceled EXCEPT ![nextRun] = (ownerSig # 0)]
          /\ UNCHANGED <<ownerSig, job, jobRun>> /\ nextRun \in Runs
      BY <1>2 DEF BeginRun, Go, BeginCanceled
    <2>2. RunsOrdered'
      BY <1>0, <2>1, Numbers DEF RunsOrdered
    <2>3. canceled'[run'] = (ownerSig # 0)
      BY <1>0, <2>1
    <2> QED
      BY <2>1, <2>2, <2>3 DEF CancelExplained, Interrupted
  <1>3. CASE FinishOwnerSignal
    <2>1. pc = "end" /\ pc' = "exit" /\ UNCHANGED <<run, nextRun, canceled, job, jobRun>>
      BY <1>3 DEF FinishOwnerSignal, Go
    <2> QED
      BY <2>1 DEF RunsOrdered, CancelExplained
  <1>4. CASE EndRun
    <2>1. pc' = "idle" /\ run' = 0 /\ UNCHANGED <<nextRun, ownerSig, job, jobRun>>
      BY <1>4 DEF EndRun, Go
    <2>2. nextRun > 0
      BY <1>0 DEF RunsOrdered
    <2> QED
      BY <1>0, <2>1, <2>2 DEF RunsOrdered, CancelExplained
  <1>5. ASSUME NEW n \in Sigs, RouteDefault(n) PROVE RunsOrdered' /\ CancelExplained'
    <2>1. /\ jobRun' = run /\ ownerSig' # 0 /\ UNCHANGED <<run, nextRun, canceled, pc>>
      BY <1>5, Numbers DEF RouteDefault
    <2> QED
      BY <2>1 DEF RunsOrdered, CancelExplained
  <1>6. CASE RouteCancels
    <2>1. /\ job = "cancel" /\ job' = "run" /\ jobRun' = 0
          /\ canceled' = [k \in Runs |-> canceled[k] \/ k = jobRun]
          /\ UNCHANGED <<run, nextRun, ownerSig, pc>>
      BY <1>6 DEF RouteCancels, RouteTarget
    <2>2. RunsOrdered'
      BY <1>0, <2>1 DEF RunsOrdered
    <2>3. ASSUME run # 0, canceled'[run], pc \notin {"exit", "idle"} PROVE ownerSig # 0
      <3>1. canceled[run] \/ run = jobRun
        BY <1>0, <2>1, <2>3
      <3> QED
        BY <2>1, <2>3, <3>1 DEF RunsOrdered, CancelExplained, Interrupted
    <2> QED
      BY <2>1, <2>2, <2>3 DEF CancelExplained, Interrupted
  <1>7. CASE RunnerStep \/ HandlerEnds \/ LastStatement
    <2>1. CASE EndRun \/ FinishOwnerSignal
      BY <1>3, <1>4, <2>1
    <2>2. CASE ~(EndRun \/ FinishOwnerSignal)
      <3>1. UNCHANGED <<run, nextRun, canceled, ownerSig, job, jobRun>>
        BY <1>7, <2>2 DEF RunnerStep, HandlerEnds, LastStatement, Boundary, After, NextPending,
             NonePending, Stop, TrapDisposition, TrapReturns, WaitDone, WaitCanceled, WaitWoken,
             KillSelfWakes, KillSend, KillReceipt
      <3>2. pc \notin {"idle", "exit"} /\ pc' # "idle"
        BY <1>7, <2>2 DEF RunnerStep, HandlerEnds, LastStatement, Boundary, After, NextPending,
             NonePending, Stop, TrapDisposition, TrapReturns, WaitDone, WaitCanceled, WaitWoken,
             KillSelfWakes, KillSend, KillReceipt, Go, TypeOK
      <3> QED
        BY <1>1, <3>1, <3>2
    <2> QED
      BY <2>1, <2>2
  <1>8. CASE Statement
    <2>1. UNCHANGED <<run, nextRun, canceled, ownerSig, jobRun>> /\ job' \in {job, "run"}
      BY <1>8 DEF Statement, Plain, WaitBegins, TrapSet, KillSelf, KillGroup
    <2>2. pc = "stmt" /\ pc' \notin {"idle", "exit"}
      BY <1>8 DEF Statement, Plain, WaitBegins, TrapSet, KillSelf, KillGroup, Go
    <2> QED
      BY <1>1, <2>1, <2>2
  <1>9. ASSUME NEW n \in Sigs, RouteDrops(n) \/ RouteTraps(n)
        PROVE  RunsOrdered' /\ CancelExplained'
    <2>1. UNCHANGED <<run, nextRun, canceled, ownerSig, jobRun, pc>> /\ job' \in {job, "queue"}
      BY <1>9 DEF RouteDrops, RouteTraps
    <2> QED
      BY <1>1, <2>1
  <1>10. CASE JobReaped \/ RouteQueues \/ RouteWakes \/ JobMarks \/ JobQueues \/ JobWakes \/ JobDone
    <2>1. UNCHANGED <<run, nextRun, canceled, ownerSig, jobRun, pc>> /\ job' # "cancel"
      BY <1>10 DEF JobReaped, RouteQueues, RouteWakes, JobMarks, JobQueues, JobWakes, JobDone
    <2> QED
      BY <1>1, <2>1
  <1>11. CASE (\E n \in OsSigs : OsSignal(n)) \/ (\E i \in Subs : WorkerStep(i)) \/ UNCHANGED vars
    <2>1. UNCHANGED <<run, nextRun, canceled, ownerSig, jobRun, pc, job>>
      BY <1>11 DEF OsSignal, WorkerStep, WorkerTakes, WorkerQueues, WorkerWakes, WorkerEnds, vars
    <2> QED
      BY <1>1, <2>1
  <1> QED
    BY <1>2, <1>5, <1>6, <1>7, <1>8, <1>9, <1>10, <1>11 DEF Next, JobStep

-----------------------------------------------------------------------------
(* Subscriptions.                                                          *)

\* What trap and kill work on stays in place until they are through.
LEMMA ReplacingStep ==
    ASSUME IInv, [Next]_vars
    PROVE  Replacing'
  <1> USE DEF IInv
  <1> USE DEF shellVars, subVars
  <1>1. ASSUME pc' \notin {"trapos", "killsend", "killwait"} PROVE Replacing'
    BY <1>1 DEF Replacing
  <1>2. ASSUME UNCHANGED <<pc, arg, nextSub>> PROVE Replacing'
    BY <1>2 DEF Replacing
  <1>3. CASE BeginRun \/ RunnerStep \/ HandlerEnds \/ LastStatement
    <2>1. CASE KillSend
      BY <2>1 DEF KillSend, Go, Replacing
    <2>2. CASE WaitWoken \/ NextPending
      <3>1. pc' \notin {"trapos", "killsend", "killwait"}
        BY <2>2 DEF WaitWoken, NextPending
      <3> QED
        BY <1>1, <3>1
    <2>3. CASE ~(KillSend \/ WaitWoken \/ NextPending)
      <3>1. pc' \notin {"trapos", "killsend", "killwait"}
        BY <1>3, <2>3 DEF RunnerStep, BeginRun, HandlerEnds, LastStatement, Boundary, After,
             NonePending, Stop, TrapDisposition, TrapReturns, WaitDone, WaitCanceled,
             KillSelfWakes, KillReceipt, FinishOwnerSignal, EndRun, Go, TypeOK
      <3> QED
        BY <1>1, <3>1
    <2> QED
      BY <2>1, <2>2, <2>3
  <1>4. CASE Statement
    <2>1. CASE Plain \/ WaitBegins \/ \E n \in OsSigs : KillSelf(n)
      BY <1>1, <2>1 DEF Plain, WaitBegins, KillSelf, Go
    <2>2. ASSUME NEW n \in OsSigs, KillGroup(n) PROVE Replacing'
      BY <2>2 DEF KillGroup, Go, Replacing
    <2>3. ASSUME NEW n \in Sigs, NEW action, TrapSet(n, action) PROVE Replacing'
      BY <2>3 DEF TrapSet, Go, Replacing
    <2> QED
      BY <1>4, <2>1, <2>2, <2>3 DEF Statement
  <1>5. CASE (\E n \in Sigs : RouteDrops(n) \/ RouteTraps(n) \/ RouteDefault(n))
             \/ JobReaped \/ JobStep
    BY <1>2, <1>5 DEF RouteDrops, RouteTraps, RouteDefault, JobReaped, JobStep, RouteQueues,
       RouteWakes, RouteCancels, JobMarks, JobQueues, JobWakes, JobDone
  <1>6. CASE (\E n \in OsSigs : OsSignal(n)) \/ (\E i \in Subs : WorkerStep(i)) \/ UNCHANGED vars
    BY <1>2, <1>6 DEF OsSignal, WorkerStep, WorkerTakes, WorkerQueues, WorkerWakes, WorkerEnds,
       vars
  <1> QED
    BY <1>3, <1>4, <1>5, <1>6 DEF Next

\* One subscription, as Subscriptions has it.
Subscription(i) ==
    /\ worker[i] = "none" <=> i >= nextSub
    /\ worker[i] = "none" => ~stopped[i] /\ buffer[i] = 0
    /\ worker[i] # "none" => subSig[i] \in OsSigs
    /\ worker[i] = "finished" => stopped[i] /\ buffer[i] = 0
    /\ worker[i] # "none" /\ current[subSig[i]] # i =>
         worker[i] = "finished" \/ (pc = "trapjoin" /\ i = old)

Subscribed(n) ==
    current[n] # 0 =>
        worker[current[n]] # "none" /\ subSig[current[n]] = n /\ ~stopped[current[n]]

\* Subscriptions, one subscription and one signal at a time.
LEMMA SubscriptionParts ==
    Subscriptions <=> (\A i \in Subs : Subscription(i)) /\ (\A n \in OsSigs : Subscribed(n))
  BY DEF Subscriptions, Subscription, Subscribed

\* A disposition is replaced: the old subscription is told to stop, the new one
\* has a number of its own.
LEMMA DispositionStep ==
    ASSUME IInv, TrapDisposition
    PROVE  Subscriptions'
  <1> USE DEF IInv
  <1>1. pc = "trapos" /\ pc' = "trapjoin" /\ nextSub \in Subs /\ arg \in Sigs
    BY DEF TrapDisposition, Go, Replacing
  <1>2. /\ \A i \in Subs : Subscription(i)
        /\ \A n \in OsSigs : Subscribed(n)
    BY SubscriptionParts
  <1>3. CASE arg = Chld
    <2>1. UNCHANGED <<current, nextSub, subSig, buffer, stopped, worker>>
      BY <1>3 DEF TrapDisposition, subVars
    <2>2. ASSUME NEW i \in Subs PROVE Subscription(i)'
      BY <1>1, <1>2, <2>1 DEF Subscription
    <2>3. ASSUME NEW n \in OsSigs PROVE Subscribed(n)'
      BY <1>2, <2>1 DEF Subscribed
    <2> QED
      BY <2>2, <2>3 DEF Subscriptions, Subscription, Subscribed
  <1>4. CASE arg # Chld
    <2>0. /\ arg \in OsSigs /\ current[arg] \in {0} \cup Subs /\ 0 \notin Subs
          /\ nextSub \in Nat /\ Subs \subseteq Nat
      BY <1>1, <1>4, Numbers DEF TypeOK
    <2>1. /\ old' = current[arg] /\ buffer' = buffer
          /\ stopped' = [i \in Subs |-> stopped[i] \/ i = current[arg]]
      BY <1>4 DEF TrapDisposition
    <2>2. /\ worker[nextSub] = "none" /\ current[arg] # nextSub /\ Subscribed(arg)
          /\ stopped \in [Subs -> BOOLEAN]
      BY <1>1, <1>2, <2>0 DEF Subscription, Subscribed, TypeOK
    <2>3. CASE trap[arg] = "action"
      <3>1. /\ current' = [current EXCEPT ![arg] = nextSub]
            /\ subSig' = [subSig EXCEPT ![nextSub] = arg]
            /\ worker' = [worker EXCEPT ![nextSub] = "select"]
            /\ nextSub' = nextSub + 1
        BY <1>4, <2>3 DEF TrapDisposition
      <3>2. /\ current'[arg] = nextSub /\ \A n \in OsSigs \ {arg} : current'[n] = current[n]
            /\ subSig'[nextSub] = arg /\ \A i \in Subs \ {nextSub} : subSig'[i] = subSig[i]
            /\ worker'[nextSub] = "select" /\ \A i \in Subs \ {nextSub} : worker'[i] = worker[i]
            /\ \A i \in Subs : stopped'[i] = (stopped[i] \/ i = current[arg])
        BY <1>1, <2>0, <2>1, <3>1 DEF TypeOK
      <3>3. ASSUME NEW i \in Subs PROVE Subscription(i)'
        <4>1. CASE i = nextSub
          BY <1>1, <2>0, <3>1, <3>2, <4>1 DEF Subscription
        <4>2. CASE i # nextSub
          <5>1. Subscription(i) /\ i \in Nat
            BY <1>2, <2>0
          <5>2. worker'[i] = worker[i] /\ subSig'[i] = subSig[i] /\ buffer'[i] = buffer[i]
            BY <2>1, <3>2, <4>2
          <5>3. stopped'[i] = (stopped[i] \/ i = current[arg])
            BY <3>2
          <5>4. worker'[i] = "none" <=> i >= nextSub'
            BY <2>0, <3>1, <4>2, <5>1, <5>2 DEF Subscription
          <5>5. /\ worker'[i] = "none" => ~stopped'[i] /\ buffer'[i] = 0
                /\ worker'[i] # "none" => subSig'[i] \in OsSigs
                /\ worker'[i] = "finished" => stopped'[i] /\ buffer'[i] = 0
            BY <2>0, <2>2, <5>1, <5>2, <5>3 DEF Subscription, Subscribed
          <5>6. ASSUME worker'[i] # "none", current'[subSig'[i]] # i
                PROVE  worker'[i] = "finished" \/ i = old'
            BY <1>1, <2>1, <3>2, <5>1, <5>2, <5>6 DEF Subscription
          <5> QED
            BY <1>1, <5>4, <5>5, <5>6 DEF Subscription
        <4> QED
          BY <4>1, <4>2
      <3>4. ASSUME NEW n \in OsSigs PROVE Subscribed(n)'
        <4>1. CASE n = arg
          <5>1. Subscription(nextSub)
            BY <1>1, <1>2
          <5> QED
            BY <1>1, <2>2, <3>2, <4>1, <5>1 DEF Subscribed, Subscription
        <4>2. CASE n # arg
          <5>1. Subscribed(n) /\ current'[n] = current[n] /\ current[n] \in {0} \cup Subs
            BY <1>2, <3>2, <4>2 DEF TypeOK
          <5>2. current[n] # 0 => current[n] # current[arg] /\ current[n] # nextSub
            BY <2>2, <4>2, <5>1 DEF Subscribed
          <5> QED
            BY <3>2, <5>1, <5>2 DEF Subscribed
        <4> QED
          BY <4>1, <4>2
      <3> QED
        BY <3>3, <3>4 DEF Subscriptions, Subscription, Subscribed
    <2>4. CASE trap[arg] # "action"
      <3>1. /\ current' = [current EXCEPT ![arg] = 0]
            /\ UNCHANGED <<subSig, worker, nextSub>>
        BY <1>4, <2>4 DEF TrapDisposition
      <3>2. /\ current'[arg] = 0 /\ \A n \in OsSigs \ {arg} : current'[n] = current[n]
            /\ \A i \in Subs : stopped'[i] = (stopped[i] \/ i = current[arg])
        BY <2>0, <2>1, <3>1 DEF TypeOK
      <3>3. ASSUME NEW i \in Subs PROVE Subscription(i)'
        <4>1. Subscription(i)
          BY <1>2
        <4>2. /\ worker'[i] = "none" <=> i >= nextSub'
              /\ worker'[i] = "none" => ~stopped'[i] /\ buffer'[i] = 0
              /\ worker'[i] # "none" => subSig'[i] \in OsSigs
              /\ worker'[i] = "finished" => stopped'[i] /\ buffer'[i] = 0
          BY <2>0, <2>1, <2>2, <3>1, <3>2, <4>1 DEF Subscription, Subscribed
        <4>3. ASSUME worker'[i] # "none", current'[subSig'[i]] # i
              PROVE  worker'[i] = "finished" \/ i = old'
          BY <1>1, <2>1, <3>1, <3>2, <4>1, <4>3 DEF Subscription
        <4> QED
          BY <1>1, <4>2, <4>3 DEF Subscription
      <3>4. ASSUME NEW n \in OsSigs PROVE Subscribed(n)'
        <4>1. CASE n = arg
          BY <3>2, <4>1 DEF Subscribed
        <4>2. CASE n # arg
          <5>1. Subscribed(n) /\ current'[n] = current[n] /\ current[n] \in {0} \cup Subs
            BY <1>2, <3>2, <4>2 DEF TypeOK
          <5>2. current[n] # 0 => current[n] # current[arg]
            BY <2>2, <4>2, <5>1 DEF Subscribed
          <5> QED
            BY <3>1, <3>2, <5>1, <5>2 DEF Subscribed
        <4> QED
          BY <4>1, <4>2
      <3> QED
        BY <3>3, <3>4 DEF Subscriptions, Subscription, Subscribed
    <2> QED
      BY <2>3, <2>4
  <1> QED
    BY <1>3, <1>4

\* A worker and the OS work on a subscription within what it may do.
LEMMA WorkerSubscription ==
    ASSUME IInv, UNCHANGED <<nextSub, subSig, stopped, current, pc, old>>, NEW i \in Subs,
           \/ WorkerTakes(i) \/ WorkerQueues(i) \/ WorkerWakes(i) \/ WorkerEnds(i)
    PROVE  Subscriptions'
  <1> USE DEF IInv
  <1>1. PICK w \in {"select", "queue", "wake", "finished"} :
          /\ worker' = [worker EXCEPT ![i] = w] /\ worker[i] \notin {"none", "finished"}
          /\ w = "finished" => stopped[i] /\ buffer[i] = 0
    BY DEF WorkerTakes, WorkerQueues, WorkerWakes, WorkerEnds, WorkerDrained
  <1>2. \A j \in Subs : buffer'[j] = buffer[j] \/ buffer'[j] = 0
    BY DEF WorkerTakes, WorkerQueues, WorkerWakes, WorkerEnds, TypeOK
  <1>3. worker'[i] = w /\ \A j \in Subs \ {i} : worker'[j] = worker[j]
    BY <1>1 DEF TypeOK
  <1>4. ASSUME NEW j \in Subs PROVE Subscription(j)'
    <2>1. Subscription(j) /\ (buffer'[j] = buffer[j] \/ buffer'[j] = 0)
      BY <1>2, SubscriptionParts
    <2>2. CASE j = i
      BY <1>1, <1>3, <2>1, <2>2 DEF Subscription
    <2>3. CASE j # i
      BY <1>3, <2>1, <2>3 DEF Subscription
    <2> QED
      BY <2>2, <2>3
  <1>5. ASSUME NEW n \in OsSigs PROVE Subscribed(n)'
    <2>1. Subscribed(n) /\ current[n] \in {0} \cup Subs
      BY SubscriptionParts DEF TypeOK
    <2> QED
      BY <1>1, <1>3, <2>1 DEF Subscribed
  <1> QED
    BY <1>4, <1>5 DEF Subscriptions, Subscription, Subscribed

\* A delivery reaches the current subscription only.
LEMMA DeliverSubscription ==
    ASSUME IInv, UNCHANGED <<nextSub, subSig, stopped, current, worker, old>>, NEW n \in OsSigs,
           Deliver(n), pc' = "trapjoin" <=> pc = "trapjoin"
    PROVE  Subscriptions'
  <1> USE DEF IInv
  <1>1. Subscribed(n) /\ current[n] \in {0} \cup Subs
    BY SubscriptionParts DEF TypeOK
  <1>2. \A j \in Subs : j # current[n] => buffer'[j] = buffer[j]
    BY DEF Deliver, TypeOK
  <1>3. ASSUME NEW j \in Subs PROVE Subscription(j)'
    <2>1. Subscription(j)
      BY SubscriptionParts
    <2>2. worker[j] \in {"none", "finished"} => j # current[n]
      BY <1>1, <2>1, Numbers DEF Subscribed, Subscription
    <2> QED
      BY <1>2, <2>1, <2>2 DEF Subscription
  <1>4. \A k \in OsSigs : Subscribed(k)'
    BY SubscriptionParts DEF Subscribed
  <1> QED
    BY <1>3, <1>4 DEF Subscriptions, Subscription, Subscribed

\* Subscriptions keep their order.
LEMMA SubscriptionsStep ==
    ASSUME IInv, [Next]_vars
    PROVE  Subscriptions'
  <1> USE DEF IInv
  <1> USE DEF shellVars, subVars, trapVars
  <1>1. ASSUME UNCHANGED <<nextSub, subSig, buffer, stopped, worker, current, old>>,
               pc = "trapjoin" => pc' = "trapjoin"
        PROVE  Subscriptions'
    BY <1>1 DEF Subscriptions
  <1>2. CASE BeginRun \/ RunnerStep \/ HandlerEnds \/ LastStatement
    <2>1. CASE TrapDisposition
      BY <2>1, DispositionStep
    <2>2. CASE TrapReturns
      <3>1. /\ pc = "trapjoin" /\ old # 0 => worker[old] = "finished"
            /\ UNCHANGED <<nextSub, subSig, buffer, stopped, worker, current>>
        BY <2>2 DEF TrapReturns, TrapJoined, Go
      <3>2. ASSUME NEW i \in Subs PROVE Subscription(i)'
        BY <3>1, SubscriptionParts, Numbers DEF Subscription
      <3>3. \A n \in OsSigs : Subscribed(n)'
        BY <3>1, SubscriptionParts DEF Subscribed
      <3> QED
        BY <3>2, <3>3 DEF Subscriptions, Subscription, Subscribed
    <2>3. CASE KillSend
      <3>1. PICK n \in OsSigs : n = arg
        BY <2>3 DEF KillSend, Go, Replacing
      <3> QED
        BY <2>3, <3>1, DeliverSubscription DEF KillSend, Go
    <2>4. CASE ~(TrapDisposition \/ TrapReturns \/ KillSend)
      <3>1. UNCHANGED <<nextSub, subSig, buffer, stopped, worker, current, old>>
        BY <1>2, <2>4 DEF RunnerStep, BeginRun, HandlerEnds, LastStatement, Boundary, After,
             NextPending, NonePending, Stop, WaitDone, WaitCanceled, WaitWoken, KillSelfWakes,
             KillReceipt, FinishOwnerSignal, EndRun
      <3>2. pc # "trapjoin"
        BY <1>2, <2>4 DEF RunnerStep, BeginRun, HandlerEnds, LastStatement, Boundary, After,
             NextPending, NonePending, Stop, WaitDone, WaitCanceled, WaitWoken, KillSelfWakes,
             KillReceipt, FinishOwnerSignal, EndRun, Go
      <3> QED
        BY <1>1, <3>1, <3>2
    <2> QED
      BY <2>1, <2>2, <2>3, <2>4
  <1>3. CASE Statement
    <2>1. /\ UNCHANGED <<nextSub, subSig, buffer, stopped, worker, current, old>>
          /\ pc # "trapjoin"
      BY <1>3 DEF Statement, Plain, WaitBegins, TrapSet, KillSelf, KillGroup, Go
    <2> QED
      BY <1>1, <2>1
  <1>4. CASE (\E n \in Sigs : RouteDrops(n) \/ RouteTraps(n) \/ RouteDefault(n))
             \/ JobReaped \/ JobStep \/ UNCHANGED vars
    <2>1. UNCHANGED <<nextSub, subSig, buffer, stopped, worker, current, old, pc>>
      BY <1>4 DEF RouteDrops, RouteTraps, RouteDefault, JobReaped, JobStep, RouteQueues,
         RouteWakes, RouteCancels, JobMarks, JobQueues, JobWakes, JobDone, vars
    <2> QED
      BY <1>1, <2>1
  <1>5. ASSUME NEW n \in OsSigs, OsSignal(n) PROVE Subscriptions'
    BY <1>5, DeliverSubscription DEF OsSignal
  <1>6. ASSUME NEW i \in Subs, WorkerStep(i) PROVE Subscriptions'
    <2>1. UNCHANGED <<nextSub, subSig, stopped, current, pc, old>>
      BY <1>6 DEF WorkerStep, WorkerTakes, WorkerQueues, WorkerWakes, WorkerEnds
    <2> QED
      BY <1>6, <2>1, WorkerSubscription DEF WorkerStep
  <1> QED
    BY <1>2, <1>3, <1>4, <1>5, <1>6 DEF Next

-----------------------------------------------------------------------------
(* What is owed is queued.                                                 *)

\* A step that leaves the queue alone, or adds to it, keeps what is owed.
LEMMA QueueFrame ==
    ASSUME IInv, Queued \subseteq Queued', hasPending' <=> Queued' # {},
           due' => due \/ job' = "mark",
           owed' \subseteq owed \/ owed' \subseteq Queued',
           job \in {"mark", "chld"} => job' \in {"mark", "chld"} \/ Chld \in Queued',
           job' = "queue" => jobSig' \in Sigs,
           pc' \in {"killsend", "killwait"} => receipt'[arg'] \/ arg' \in Queued',
           pc' \in {"stop", "stmt"} /\ ~handling' => owed' = {}
    PROVE  QueueKept'
  BY DEF IInv, QueueKept

\* The steps that queue a signal.
LEMMA QueuesKept ==
    ASSUME IInv, NEW n, NEW a, Queues(n, a)
    PROVE  QueueKept'
  <1> USE DEF IInv
  <1>1. n \in Sigs /\ a \in Actions /\ Enqueue(n, a)
    BY QueuesEffect
  <1>2. /\ Queued' = Queued \cup {n} /\ hasPending' = TRUE
        /\ \A k \in OsSigs : receipt[k] => receipt'[k] \/ k = n
    BY <1>1, EnqueueEffect
  <1>3. /\ UNCHANGED <<due, owed, handling, arg, jobSig>>
        /\ pc' = pc \/ pc' = "wakeup"
        /\ \/ job' = job
           \/ job = "queue" /\ job' = "wake"
           \/ job = "chld" /\ job' = "chldwake" /\ n = Chld
    BY DEF Queues, WorkerQueues, KillSelf, RouteQueues, JobQueues, Go, shellVars, jobVars
  <1>4. pc' \in {"killsend", "killwait"} => receipt'[arg'] \/ arg' \in Queued'
    BY <1>2, <1>3 DEF Replacing, QueueKept
  <1>5. (pc' \in {"stop", "stmt"} /\ ~handling' => owed' = {}) /\ (job' = "queue" => jobSig' \in Sigs)
    BY <1>3 DEF QueueKept
  <1> QED
    BY <1>2, <1>3, <1>4, <1>5, QueueFrame

\* A turn of deliverPendingSignals pays what it takes.
LEMMA NextPendingKept ==
    ASSUME IInv, NextPending
    PROVE  QueueKept'
  <1> USE DEF IInv
  <1>1. PICK n \in Queued :
          /\ \A k \in Queued \ {n} : k \in Queued'
          /\ hasPending' = (Queued' # {}) /\ owed' = owed \ {n} /\ due' = (due /\ n # Chld)
          /\ \/ pc' = "boundary" /\ handling' = TRUE
             \/ UNCHANGED <<pc, handling>>
    BY NextPendingEffect
  <1>2. pc = "deliver" /\ UNCHANGED <<receipt, arg, job, jobSig>>
    BY DEF NextPending, jobVars
  <1>3. pc' \in {"boundary", "deliver"}
    BY <1>1, <1>2
  <1>4. owed' \subseteq Queued'
    BY <1>1 DEF QueueKept
  <1>5. due' => job' \in {"mark", "chld"} \/ Chld \in Queued'
    BY <1>1, <1>2 DEF QueueKept
  <1> QED
    BY <1>1, <1>2, <1>3, <1>4, <1>5 DEF QueueKept

\* The queue holds what is owed, in every step.
LEMMA QueueStep ==
    ASSUME IInv, [Next]_vars
    PROVE  QueueKept'
  <1> USE DEF IInv
  <1> USE DEF shellVars, queueVars, jobVars, history
  <1>0. \A n, a : Queues(n, a) => QueueKept'
    BY QueuesKept
  <1>1. ASSUME UNCHANGED <<pending, hasPending>>, due' => due \/ job' = "mark",
               owed' \subseteq owed \/ owed' \subseteq Queued,
               job \in {"mark", "chld"} => job' \in {"mark", "chld"},
               job' = "queue" => jobSig' \in Sigs,
               pc' \in {"killsend", "killwait"} => receipt'[arg'] \/ arg' \in Queued,
               pc' \in {"stop", "stmt"} /\ ~handling' => owed' = {}
        PROVE  QueueKept'
    <2>1. Queued' = Queued
      BY <1>1 DEF Queued
    <2>2. hasPending' <=> Queued' # {}
      BY <1>1, <2>1 DEF QueueKept
    <2> QED
      BY <1>1, <2>1, <2>2, QueueFrame
  <1>2. CASE BeginRun \/ HandlerEnds \/ LastStatement
    <2>1. /\ UNCHANGED <<pending, hasPending, due, job, jobSig>> /\ owed' \subseteq owed
          /\ pc' \in {"boundary", "deliver", "after", "end"}
      BY <1>2 DEF BeginRun, HandlerEnds, LastStatement, Go
    <2> QED
      BY <1>1, <2>1 DEF QueueKept
  <1>3. CASE RunnerStep
    <2>1. CASE Boundary
      <3>1. /\ UNCHANGED <<pending, hasPending, due, owed, job, jobSig, handling>>
            /\ pc' \in {"deliver", "stop"} /\ (pc' = "stop" /\ ~handling => ~hasPending)
        BY <2>1 DEF Boundary
      <3>2. pc' = "stop" /\ ~handling => owed = {}
        BY <3>1 DEF QueueKept
      <3> QED
        BY <1>1, <3>1, <3>2 DEF QueueKept
    <2>2. CASE NextPending
      BY <2>2, NextPendingKept
    <2>3. CASE NonePending
      <3>1. /\ Queued = {} /\ pending' = pending /\ hasPending' = FALSE
            /\ UNCHANGED <<due, owed, job, jobSig>> /\ pc' \in {"stop", "boundary"}
        BY <2>3 DEF NonePending, TypeOK
      <3>2. Queued' = {}
        BY <3>1 DEF Queued
      <3>3. owed = {}
        BY <3>1 DEF QueueKept
      <3> QED
        BY <3>1, <3>2, <3>3 DEF QueueKept
    <2>4. CASE Stop
      <3>1. /\ UNCHANGED <<pending, hasPending, due, job, jobSig>> /\ owed' \subseteq owed
            /\ pc = "stop" /\ pc' \in {"end", "stmt"}
            /\ pc' = "stmt" => handling' = handling
        BY <2>4 DEF Stop
      <3> QED
        BY <1>1, <3>1 DEF QueueKept
    <2>5. CASE WaitDone
      <3>1. /\ UNCHANGED <<pending, hasPending, due, job, jobSig>> /\ pc' = "after" /\ job = "done"
            /\ owed' = owed \/ (due /\ owed' = owed \cup {Chld})
        BY <2>5 DEF WaitDone, Go
      <3>2. owed' \subseteq Queued
        BY <3>1 DEF QueueKept
      <3> QED
        BY <1>1, <3>1, <3>2 DEF QueueKept
    <2>6. CASE WaitWoken
      <3>1. /\ UNCHANGED <<pending, hasPending, due, job, jobSig>> /\ pc' \in {"after", "waiting"}
            /\ owed' = owed \/ (Queued # {} /\ owed' = owed \cup {Lowest})
        BY <2>6 DEF WaitWoken
      <3>2. owed' \subseteq Queued
        BY <3>1, LowestQueued DEF QueueKept
      <3> QED
        BY <1>1, <3>1, <3>2 DEF QueueKept
    <2>7. CASE KillReceipt
      <3>1. /\ UNCHANGED <<pending, hasPending, due, job, jobSig>> /\ pc' = "after"
            /\ pc = "killwait"
            /\ owed' = owed \/ (~receipt[arg] /\ owed' = owed \cup {arg})
        BY <2>7 DEF KillReceipt, Go
      <3>2. owed' \subseteq Queued
        BY <3>1 DEF QueueKept
      <3> QED
        BY <1>1, <3>1, <3>2 DEF QueueKept
    <2>8. CASE KillSend
      <3>1. /\ UNCHANGED <<pending, hasPending, due, owed, job, jobSig, receipt, arg>>
            /\ pc = "killsend" /\ pc' = "killwait"
        BY <2>8 DEF KillSend, Go
      <3> QED
        BY <1>1, <3>1 DEF QueueKept
    <2>9. CASE After \/ TrapDisposition \/ TrapReturns \/ WaitCanceled \/ KillSelfWakes
               \/ FinishOwnerSignal \/ EndRun
      <3>1. /\ UNCHANGED <<pending, hasPending, due, job, jobSig>> /\ owed' \subseteq owed
            /\ pc' \notin {"stop", "stmt", "killsend", "killwait"}
        BY <2>9 DEF After, TrapDisposition, TrapReturns, WaitCanceled, KillSelfWakes,
                    FinishOwnerSignal, EndRun, Wakeup, Go
      <3> QED
        BY <1>1, <3>1 DEF QueueKept
    <2> QED
      BY <1>3, <2>1, <2>2, <2>3, <2>4, <2>5, <2>6, <2>7, <2>8, <2>9 DEF RunnerStep
  <1>4. CASE Statement
    <2>1. ASSUME NEW n \in OsSigs, KillSelf(n) PROVE QueueKept'
      BY <1>0, <2>1 DEF Queues
    <2>2. ASSUME NEW n \in OsSigs, KillGroup(n) PROVE QueueKept'
      <3>1. /\ UNCHANGED <<pending, hasPending, due, owed, job, jobSig>>
            /\ pc' = "killsend" /\ arg' = n
            /\ receipt' = [receipt EXCEPT ![n] = @ \/ pending[n] = <<>>]
        BY <2>2 DEF KillGroup, Go
      <3>2. receipt'[n] \/ n \in Queued
        BY <3>1, Numbers DEF Queued, TypeOK
      <3> QED
        BY <1>1, <3>1, <3>2 DEF QueueKept
    <2>3. CASE Plain \/ WaitBegins \/ \E n \in Sigs, action \in Actions : TrapSet(n, action)
      <3>1. /\ UNCHANGED <<pending, hasPending, due, owed, jobSig>> /\ job' \in {job, "run"}
            /\ job \in {"mark", "chld"} => job' = job
            /\ pc' \in {"after", "waiting", "trapos"}
        BY <2>3 DEF Plain, WaitBegins, TrapSet, Go
      <3> QED
        BY <1>1, <3>1 DEF QueueKept
    <2> QED
      BY <1>4, <2>1, <2>2, <2>3 DEF Statement, Actions
  <1>5. ASSUME NEW n \in Sigs, RouteDrops(n) \/ RouteTraps(n) \/ RouteDefault(n) PROVE QueueKept'
    <2>1. /\ UNCHANGED <<pending, hasPending, receipt, due, owed, pc, handling, arg>>
          /\ job \in {"mark", "chld"} => job' = job
          /\ job' = "queue" => jobSig' \in Sigs
      BY <1>5 DEF RouteDrops, RouteTraps, RouteDefault
    <2> QED
      BY <1>1, <2>1 DEF QueueKept
  <1>6. CASE JobReaped \/ RouteWakes \/ RouteCancels \/ JobMarks \/ JobWakes \/ JobDone
    <2>1. /\ UNCHANGED <<pending, hasPending, receipt, owed, pc, handling, arg>>
          /\ job \in {"mark", "chld"} => job' \in {"mark", "chld"}
          /\ job' # "queue" /\ (due' => due \/ job' = "mark")
      BY <1>6 DEF JobReaped, RouteWakes, RouteCancels, JobMarks, JobWakes, JobDone, Wakeup
    <2> QED
      BY <1>1, <2>1 DEF QueueKept
  <1>7. CASE RouteQueues \/ JobQueues
    BY <1>0, <1>7 DEF Queues
  <1>8. ASSUME NEW i \in Subs, WorkerStep(i) PROVE QueueKept'
    <2>1. CASE WorkerQueues(i)
      BY <1>0, <2>1 DEF Queues
    <2>2. CASE WorkerTakes(i) \/ WorkerWakes(i) \/ WorkerEnds(i)
      <3>1. UNCHANGED <<pending, hasPending, receipt, due, owed, pc, handling, arg, job, jobSig>>
        BY <2>2 DEF WorkerTakes, WorkerWakes, WorkerEnds, Wakeup
      <3> QED
        BY <1>1, <3>1 DEF QueueKept
    <2> QED
      BY <1>8, <2>1, <2>2 DEF WorkerStep
  <1>9. CASE (\E n \in OsSigs : OsSignal(n)) \/ UNCHANGED vars
    <2>1. UNCHANGED <<pending, hasPending, receipt, due, owed, pc, handling, arg, job, jobSig>>
      BY <1>9 DEF OsSignal, vars
    <2> QED
      BY <1>1, <2>1 DEF QueueKept
  <1> QED
    BY <1>2, <1>3, <1>4, <1>5, <1>6, <1>7, <1>8, <1>9 DEF Next, JobStep

-----------------------------------------------------------------------------
\* IInv is an inductive invariant.
THEOREM Inductive == Spec => []IInv
  <1>1. IInv /\ [Next]_vars => IInv'
    BY TypeStep, RunsStep, ReplacingStep, SubscriptionsStep, QueueStep DEF IInv
  <1> QED
    BY <1>1, InitIInv, PTL DEF Spec

\* Type correctness.
THEOREM TypeCorrect == Spec => []TypeOK
  <1>1. IInv => TypeOK
    BY DEF IInv
  <1> QED
    BY <1>1, Inductive, PTL

\* When trap has returned, every subscription but the current ones is drained
\* and its worker gone, however many were replaced.
THEOREM ReplacedAreOver == Spec => []ReplacedIsOver
  <1>1. IInv => ReplacedIsOver
    BY DEF IInv, ReplacedIsOver, Subscriptions
  <1> QED
    BY <1>1, Inductive, PTL

\* Before the next statement of the script no trap is owed.
THEOREM OwedTrapsRan == Spec => []TrapBeforeNext
  <1>1. IInv => TrapBeforeNext
    BY DEF IInv, TrapBeforeNext, QueueKept
  <1> QED
    BY <1>1, Inductive, PTL

\* An interrupted Run has a signal to report until the end of its statements.
THEOREM InterruptsExplained == Spec => []CancelExplained
  <1>1. IInv => CancelExplained
    BY DEF IInv
  <1> QED
    BY <1>1, Inductive, PTL

=============================================================================
