----------------------------- MODULE SignalTraps -----------------------------
(***************************************************************************)
(* Signals of one shell: the trap command with the OS subscriptions and    *)
(* their forwarding workers, the queue of pending signals, its delivery at *)
(* statement boundaries, the wait and kill builtins, SIGCHLD driven by     *)
(* reaped jobs, and a signal that an asynchronous job sends to its owner,  *)
(* which interrupts the owner's current or next Run.                       *)
(*                                                                         *)
(* Processes: the runner's goroutine, one background job, one worker per   *)
(* subscription, and the operating system.  A critical section of sigMu or *)
(* of execReplacement.mu is one step.  Proxied exec replacements, carriers *)
(* and signals ignored at start-up are left out.                           *)
(***************************************************************************)
EXTENDS Naturals, Sequences

CONSTANTS
    OsSigs,     \* numbers of the signals with an OS subscription
    Chld,       \* the number of SIGCHLD
    Harmless,   \* the signals whose default action does not terminate
    MaxSubs,    \* bound: subscriptions ever started
    MaxSends,   \* bound: signals sent by the OS, by kill and by the job
    MaxRuns     \* bound: calls of Runner.Run

Sigs == OsSigs \cup {Chld}
Subs == 1 .. MaxSubs
Runs == 1 .. MaxRuns

ASSUME SignalAssumption ==
    /\ Sigs \subseteq Nat \ {0} /\ Chld \notin OsSigs
    /\ Chld \in Harmless
    /\ MaxSubs \in Nat /\ MaxSends \in Nat /\ MaxRuns \in Nat

VARIABLES
    trap,       \* trapCallbacks: "default" (no entry), "ignore" (''), "action"
    chldActive, \* chldTrapActive
    loop,       \* sigWake exists: some OS trap was set before
    current,    \* sigNotifyCh: the subscription of a signal, 0 for none
    nextSub, subSig, buffer, stopped, worker,   \* subscriptions, per number
    pending,    \* pendingSig with pendingSigCallback, per signal
    hasPending, \* the fast-path bit
    wake,       \* sigWake holds a token
    receipt,    \* groupSignalReceipt has an open channel for the signal
    run, nextRun, canceled,     \* s.run, Runs begun, Runs whose foreground is canceled
    ownerSig,   \* s.pending, 0 for nil
    pc, handling, ret, arg, old,    \* the runner's goroutine
    job, jobSig, jobAct, jobRun,    \* the background job's goroutine
    sent,       \* signals sent so far
    during,     \* history: a signal other than SIGCHLD was queued during this wait
    due,        \* history: SIGCHLD of the reaped job was found trapped and has not run
    owed        \* history: signals whose trap is to run before the next statement

subVars == <<nextSub, subSig, buffer, stopped, worker>>
trapVars == <<trap, chldActive, loop, current>>
queueVars == <<pending, hasPending, wake, receipt>>
runVars == <<run, nextRun, canceled, ownerSig>>
shellVars == <<pc, handling, ret, arg, old>>
jobVars == <<job, jobSig, jobAct, jobRun>>
history == <<during, due, owed>>
vars == <<trapVars, subVars, queueVars, runVars, shellVars, jobVars, sent, history>>

Init ==
    /\ trap = [n \in Sigs |-> "default"] /\ chldActive = FALSE /\ loop = FALSE
    /\ current = [n \in OsSigs |-> 0]
    /\ nextSub = 1
    /\ subSig = [i \in Subs |-> 0] /\ buffer = [i \in Subs |-> 0]
    /\ stopped = [i \in Subs |-> FALSE] /\ worker = [i \in Subs |-> "none"]
    /\ pending = [n \in Sigs |-> <<>>] /\ hasPending = FALSE
    /\ wake = FALSE /\ receipt = [n \in OsSigs |-> FALSE]
    /\ run = 0 /\ nextRun = 1 /\ canceled = [k \in Runs |-> FALSE] /\ ownerSig = 0
    /\ pc = "idle" /\ handling = FALSE /\ ret = "stop" /\ arg = 0 /\ old = 0
    /\ job = "none" /\ jobSig = 0 /\ jobAct = "default" /\ jobRun = 0
    /\ sent = 0
    /\ during = FALSE /\ due = FALSE /\ owed = {}

Go(from, to) == pc = from /\ pc' = to

\* The foreground context of the current Run.
Interrupted == run # 0 /\ canceled[run]

-----------------------------------------------------------------------------
(* The queue of pending signals.                                           *)

\* Mutant of Enqueue: the fast-path bit is not published with the entry.
EnqueueUnpublished(n, action) ==
    /\ pending' = [pending EXCEPT ![n] = Append(@, action)]
    /\ receipt' = [k \in OsSigs |-> receipt[k] /\ k # n]
    /\ during' = (during \/ (pc = "waiting" /\ n # Chld))
    /\ UNCHANGED hasPending

\* Mutant of Enqueue: a waiter for the receipt is not told.
EnqueueUnreceipted(n, action) ==
    /\ pending' = [pending EXCEPT ![n] = Append(@, action)]
    /\ hasPending' = TRUE
    /\ during' = (during \/ (pc = "waiting" /\ n # Chld))
    /\ UNCHANGED receipt

\* queuePendingSignal up to its unlock; Wakeup follows as a step of its own.
Enqueue(n, action) ==
    /\ pending' = [pending EXCEPT ![n] = Append(@, action)]
    /\ hasPending' = TRUE
    /\ receipt' = [k \in OsSigs |-> receipt[k] /\ k # n]
    /\ during' = (during \/ (pc = "waiting" /\ n # Chld))

\* Mutant of Wakeup: no token.
WakeupNothing == UNCHANGED <<wake, hasPending>>

\* wakeSignalWaiters: one token, unless the channel does not exist yet.
Wakeup == wake' = loop /\ UNCHANGED hasPending

Queued == {n \in Sigs : pending[n] # <<>>}

\* The lowest number, for nextPendingSignal and for peekPendingSignal.
Lowest == CHOOSE n \in Queued : \A k \in Queued : n <= k

-----------------------------------------------------------------------------
(* Subscriptions.                                                          *)

\* The OS (or kill) sends n: the subscription's channel holds one delivery.
Deliver(n) == buffer' = IF current[n] = 0 THEN buffer ELSE [buffer EXCEPT ![current[n]] = 1]

OsSignal(n) ==
    /\ sent < MaxSends /\ current[n] # 0
    /\ sent' = sent + 1
    /\ Deliver(n)
    /\ UNCHANGED <<trapVars, nextSub, subSig, stopped, worker, queueVars, runVars, shellVars,
                   jobVars, history>>

WorkerTakes(i) ==
    /\ worker[i] = "select" /\ buffer[i] = 1
    /\ buffer' = [buffer EXCEPT ![i] = 0]
    /\ worker' = [worker EXCEPT ![i] = "queue"]
    /\ UNCHANGED <<trapVars, nextSub, subSig, stopped, queueVars, runVars, shellVars, jobVars,
                   sent, history>>

\* handleSignalDelivery, with the action the subscription was made for.
WorkerQueues(i) ==
    /\ worker[i] = "queue"
    /\ worker' = [worker EXCEPT ![i] = "wake"]
    /\ Enqueue(subSig[i], "action")
    /\ UNCHANGED <<trapVars, nextSub, subSig, buffer, stopped, wake, runVars, shellVars, jobVars,
                   sent, due, owed>>

WorkerWakes(i) ==
    /\ worker[i] = "wake"
    /\ worker' = [worker EXCEPT ![i] = "select"]
    /\ Wakeup
    /\ UNCHANGED <<trapVars, nextSub, subSig, buffer, stopped, pending, receipt, runVars,
                   shellVars, jobVars, sent, history>>

\* After done is closed the worker leaves when its channel is empty.
WorkerDrained(i) == stopped[i] /\ buffer[i] = 0

WorkerEnds(i) ==
    /\ worker[i] = "select" /\ WorkerDrained(i)
    /\ worker' = [worker EXCEPT ![i] = "finished"]
    /\ UNCHANGED <<trapVars, nextSub, subSig, buffer, stopped, queueVars, runVars, shellVars,
                   jobVars, sent, history>>

-----------------------------------------------------------------------------
(* The runner's goroutine: a Run is a list of statements.                  *)

\* Mutant of BeginCanceled: a signal recorded before the Run is not looked at.
BeginUnaware == FALSE

\* beginAsyncSignalRun: a pending owner signal cancels the new foreground.
BeginCanceled == ownerSig # 0

BeginRun ==
    /\ Go("idle", "boundary")
    /\ nextRun \in Runs
    /\ run' = nextRun /\ nextRun' = nextRun + 1
    /\ canceled' = [canceled EXCEPT ![nextRun] = BeginCanceled]
    /\ UNCHANGED <<trapVars, subVars, queueVars, ownerSig, handling, ret, arg, old, jobVars, sent,
                   history>>

\* Runner.stmt before the statement: deliver what is pending, outside handlers.
Boundary ==
    /\ pc = "boundary"
    /\ pc' = IF hasPending /\ ~handling THEN "deliver" ELSE "stop"
    /\ UNCHANGED <<trapVars, subVars, queueVars, runVars, handling, ret, arg, old, jobVars, sent,
                   history>>

\* ... and after it.
After ==
    /\ pc = "after"
    /\ IF hasPending /\ ~handling
       THEN pc' = "deliver" /\ ret' = "boundary"
       ELSE pc' = "boundary" /\ UNCHANGED ret
    /\ UNCHANGED <<trapVars, subVars, queueVars, runVars, handling, arg, old, jobVars, sent,
                   history>>

\* deliverPendingSignals, one turn: nextPendingSignal takes the lowest number.
NextPending ==
    /\ pc = "deliver" /\ Queued # {}
    /\ LET n == Lowest IN
         /\ pending' = [pending EXCEPT ![n] = Tail(@)]
         /\ hasPending' = (\E k \in Sigs : pending'[k] # <<>>)
         /\ owed' = owed \ {n}
         /\ due' = (due /\ n # Chld)
         /\ IF Head(pending[n]) = "action"
            THEN pc' = "boundary" /\ handling' = TRUE
            ELSE UNCHANGED <<pc, handling>>
    /\ UNCHANGED <<trapVars, subVars, wake, receipt, runVars, ret, arg, old, jobVars, sent,
                   during>>

NonePending ==
    /\ pc = "deliver" /\ Queued = {}
    /\ pc' = ret /\ ret' = "stop"
    /\ hasPending' = FALSE
    /\ UNCHANGED <<trapVars, subVars, pending, wake, receipt, runVars, handling, arg, old,
                   jobVars, sent, history>>

\* The handler's last statement; or it leaves with `return`, `break` or `continue`,
\* which end the delivery and unwind the interrupted code to the end of an enclosing
\* statement; or with `exit`, which unwinds the Run.
HandlerEnds ==
    /\ pc = "boundary" /\ handling
    /\ handling' = FALSE
    /\ \/ pc' = "deliver" /\ UNCHANGED <<owed, ret>>
       \/ pc' = "after" /\ ret' = "stop" /\ UNCHANGED owed
       \/ pc' = "end" /\ owed' = {} /\ ret' = "stop"
    /\ UNCHANGED <<trapVars, subVars, queueVars, runVars, arg, old, jobVars, sent, during, due>>

\* Runner.stop
Stop ==
    /\ pc = "stop"
    /\ IF Interrupted THEN pc' = "end" /\ handling' = FALSE /\ owed' = {} /\ ret' = "stop"
       ELSE pc' = "stmt" /\ UNCHANGED <<handling, owed, ret>>
    /\ UNCHANGED <<trapVars, subVars, queueVars, runVars, arg, old, jobVars, sent, during, due>>

\* A statement that has nothing to do with signals, or starts the job.
Plain ==
    /\ Go("stmt", "after")
    /\ \/ UNCHANGED job
       \/ job = "none" /\ job' = "run"
    /\ UNCHANGED <<trapVars, subVars, queueVars, runVars, handling, ret, arg, old, jobSig,
                   jobAct, jobRun, sent, history>>

\* trap: the callback first, in a critical section of its own ...
TrapSet(n, action) ==
    /\ Go("stmt", "trapos")
    /\ nextSub \in Subs
    /\ trap' = [trap EXCEPT ![n] = action]
    /\ arg' = n
    /\ UNCHANGED <<chldActive, loop, current, subVars, queueVars, runVars, handling, ret, old,
                   jobVars, sent, history>>

\* ... then the disposition: enableSignalTrap, ignoreSignalTrap or
\* disableSignalTrap replace the subscription; SIGCHLD has none.
TrapDisposition ==
    /\ Go("trapos", "trapjoin")
    /\ IF arg = Chld
       THEN /\ chldActive' = (trap[Chld] = "action")
            /\ old' = 0
            /\ UNCHANGED <<loop, current, subVars>>
       ELSE /\ old' = current[arg]
            /\ stopped' = [i \in Subs |-> stopped[i] \/ i = current[arg]]
            /\ IF trap[arg] = "action"
               THEN /\ current' = [current EXCEPT ![arg] = nextSub]
                    /\ subSig' = [subSig EXCEPT ![nextSub] = arg]
                    /\ worker' = [worker EXCEPT ![nextSub] = "select"]
                    /\ nextSub' = nextSub + 1
                    /\ loop' = TRUE
               ELSE /\ current' = [current EXCEPT ![arg] = 0]
                    /\ UNCHANGED <<subSig, worker, nextSub, loop>>
            /\ UNCHANGED <<chldActive, buffer>>
    /\ UNCHANGED <<trap, queueVars, runVars, handling, ret, arg, jobVars, sent, history>>

\* Mutant of TrapJoined: trap returns without its old worker.
TrapUnjoined == TRUE

\* waitSignalSubscription
TrapJoined == old # 0 => worker[old] = "finished"

TrapReturns ==
    /\ Go("trapjoin", "after")
    /\ TrapJoined
    /\ old' = 0 /\ arg' = 0
    /\ UNCHANGED <<trapVars, subVars, queueVars, runVars, handling, ret, jobVars, sent,
                   history>>

\* wait, for the job: the builtin returns at once if the job is done.
WaitBegins ==
    /\ Go("stmt", "waiting")
    /\ job # "none"
    /\ UNCHANGED <<trapVars, subVars, queueVars, runVars, handling, ret, arg, old, jobVars, sent,
                   history>>

WaitDone ==
    /\ Go("waiting", "after")
    /\ job = "done"
    /\ owed' = IF due /\ ~handling THEN owed \cup {Chld} ELSE owed
    /\ during' = FALSE
    /\ UNCHANGED <<trapVars, subVars, queueVars, runVars, handling, ret, arg, old, jobVars, sent,
                   due>>

\* The context ends the wait and, as a fatal error, the Run.
WaitCanceled ==
    /\ Go("waiting", "end")
    /\ Interrupted
    /\ handling' = FALSE /\ ret' = "stop" /\ owed' = {} /\ during' = FALSE
    /\ UNCHANGED <<trapVars, subVars, queueVars, runVars, arg, old, jobVars, sent, due>>

\* A token: any signal but SIGCHLD at the head of the queue interrupts.
WaitWoken ==
    /\ pc = "waiting" /\ wake
    /\ wake' = FALSE
    /\ IF Queued # {} /\ Lowest # Chld
       THEN /\ pc' = "after" /\ during' = FALSE
            /\ owed' = IF handling THEN owed ELSE owed \cup {Lowest}
       ELSE UNCHANGED <<pc, owed, during>>
    /\ UNCHANGED <<trapVars, subVars, pending, hasPending, receipt, runVars, handling, ret, arg,
                   old, jobVars, sent, due>>

\* kill -n $$ with the trap's owner in this goroutine: markPendingSignal, whose
\* two critical sections no trap command can separate.
KillSelf(n) ==
    /\ Go("stmt", "wakeup")
    /\ sent < MaxSends /\ current[n] # 0
    /\ sent' = sent + 1
    /\ Enqueue(n, trap[n])
    /\ UNCHANGED <<trapVars, subVars, wake, runVars, handling, ret, arg, old, jobVars, due, owed>>

KillSelfWakes ==
    /\ Go("wakeup", "after")
    /\ Wakeup
    /\ UNCHANGED <<trapVars, subVars, pending, receipt, runVars, handling, ret, arg, old, jobVars,
                   sent, history>>

\* kill -n 0: groupSignalReceiptChan, unless the signal is pending already ...
KillGroup(n) ==
    /\ Go("stmt", "killsend")
    /\ sent < MaxSends /\ current[n] # 0
    /\ sent' = sent + 1
    /\ arg' = n
    /\ receipt' = [receipt EXCEPT ![n] = @ \/ pending[n] = <<>>]
    /\ UNCHANGED <<trapVars, subVars, pending, hasPending, wake, runVars, handling, ret, old,
                   jobVars, history>>

\* ... then kill(2), which reaches this process too ...
KillSend ==
    /\ Go("killsend", "killwait")
    /\ Deliver(arg)
    /\ UNCHANGED <<trapVars, nextSub, subSig, stopped, worker, queueVars, runVars, handling, ret,
                   arg, old, jobVars, sent, history>>

\* ... then the receipt.  The trap is to run before the next statement.
KillReceipt ==
    /\ Go("killwait", "after")
    /\ ~receipt[arg] \/ Interrupted
    /\ arg' = 0
    /\ owed' = IF handling \/ Interrupted THEN owed ELSE owed \cup {arg}
    /\ UNCHANGED <<trapVars, subVars, queueVars, runVars, handling, ret, old, jobVars, sent,
                   during, due>>

\* The end of the statements.
LastStatement ==
    /\ pc = "boundary" /\ ~handling /\ ~hasPending
    /\ pc' = "end" /\ owed' = {}
    /\ UNCHANGED <<trapVars, subVars, queueVars, runVars, handling, ret, arg, old, jobVars, sent,
                   during, due>>

\* finishAsyncOwnerSignal takes the signal; the EXIT trap runs after it.
FinishOwnerSignal ==
    /\ Go("end", "exit")
    /\ ownerSig' = 0
    /\ UNCHANGED <<trapVars, subVars, queueVars, run, nextRun, canceled, handling, ret, arg, old,
                   jobVars, sent, history>>

\* The deferred end of beginAsyncSignalRun, which also cancels the foreground.
EndRun ==
    /\ Go("exit", "idle")
    /\ run' = 0
    /\ canceled' = [canceled EXCEPT ![run] = TRUE]
    /\ UNCHANGED <<trapVars, subVars, queueVars, nextRun, ownerSig, handling, ret, arg, old,
                   jobVars, sent, history>>

-----------------------------------------------------------------------------
(* The background job.                                                     *)

\* kill -n $$ in the job, routeAsyncOwnerSignal.  A signal that is ignored, or
\* untrapped and harmless, is dropped, ...
RouteDrops(n) ==
    /\ job = "run" /\ sent < MaxSends
    /\ trap[n] = "ignore" \/ (trap[n] = "default" /\ n \in Harmless)
    /\ sent' = sent + 1
    /\ UNCHANGED <<trapVars, subVars, queueVars, runVars, shellVars, jobVars, history>>

\* ... a trapped one is queued for the owner with the callback read here, ...
RouteTraps(n) ==
    /\ job = "run" /\ job' = "queue"
    /\ sent < MaxSends /\ trap[n] = "action"
    /\ sent' = sent + 1
    /\ jobSig' = n /\ jobAct' = trap[n]
    /\ UNCHANGED <<trapVars, subVars, queueVars, runVars, shellVars, jobRun, history>>

\* ... and any other is recorded, the first one only, and interrupts the Run
\* found here.
RouteDefault(n) ==
    /\ job = "run" /\ job' = "cancel"
    /\ sent < MaxSends /\ trap[n] = "default" /\ n \notin Harmless
    /\ sent' = sent + 1
    /\ ownerSig' = IF ownerSig = 0 THEN n ELSE ownerSig
    /\ jobRun' = run
    /\ UNCHANGED <<trapVars, subVars, queueVars, run, nextRun, canceled, shellVars, jobSig,
                   jobAct, history>>

RouteQueues ==
    /\ job = "queue" /\ job' = "wake"
    /\ Enqueue(jobSig, jobAct)
    /\ UNCHANGED <<trapVars, subVars, wake, runVars, shellVars, jobSig, jobAct, jobRun, sent,
                   due, owed>>

RouteWakes ==
    /\ job = "wake" /\ job' = "run"
    /\ jobSig' = 0 /\ jobAct' = "default"
    /\ Wakeup
    /\ UNCHANGED <<trapVars, subVars, pending, receipt, runVars, shellVars, jobRun, sent,
                   history>>

\* Mutant of RouteTarget: s.run is read when it is needed, after the unlock.
RouteTargetLate == run

\* The Run that was current under the lock.
RouteTarget == jobRun

RouteCancels ==
    /\ job = "cancel" /\ job' = "run"
    /\ canceled' = [k \in Runs |-> canceled[k] \/ k = RouteTarget]
    /\ jobRun' = 0
    /\ UNCHANGED <<trapVars, subVars, queueVars, run, nextRun, ownerSig, shellVars, jobSig,
                   jobAct, sent, history>>

\* The job ends: notifyChildReaped looks at the trap, ...
JobReaped ==
    /\ job = "run"
    /\ job' = IF chldActive THEN "mark" ELSE "close"
    /\ due' = chldActive
    /\ UNCHANGED <<trapVars, subVars, queueVars, runVars, shellVars, jobSig, jobAct, jobRun,
                   sent, during, owed>>

\* ... markPendingSignal reads the callback and queues it, ...
JobMarks ==
    /\ job = "mark" /\ job' = "chld"
    /\ jobAct' = trap[Chld]
    /\ UNCHANGED <<trapVars, subVars, queueVars, runVars, shellVars, jobSig, jobRun, sent,
                   history>>

JobQueues ==
    /\ job = "chld" /\ job' = "chldwake"
    /\ Enqueue(Chld, jobAct)
    /\ UNCHANGED <<trapVars, subVars, wake, runVars, shellVars, jobSig, jobAct, jobRun, sent,
                   due, owed>>

JobWakes ==
    /\ job = "chldwake" /\ job' = "close"
    /\ jobAct' = "default"
    /\ Wakeup
    /\ UNCHANGED <<trapVars, subVars, pending, receipt, runVars, shellVars, jobSig, jobRun, sent,
                   history>>

\* ... and only then the job is done.
JobDone ==
    /\ job = "close" /\ job' = "done"
    /\ UNCHANGED <<trapVars, subVars, queueVars, runVars, shellVars, jobSig, jobAct, jobRun, sent,
                   history>>

-----------------------------------------------------------------------------
Statement ==
    \/ Plain \/ WaitBegins
    \/ \E n \in Sigs, action \in {"default", "ignore", "action"} : TrapSet(n, action)
    \/ \E n \in OsSigs : KillSelf(n) \/ KillGroup(n)

RunnerStep ==
    \/ Boundary \/ After \/ NextPending \/ NonePending \/ Stop
    \/ TrapDisposition \/ TrapReturns \/ WaitDone \/ WaitCanceled \/ WaitWoken
    \/ KillSelfWakes \/ KillSend \/ KillReceipt \/ FinishOwnerSignal \/ EndRun

JobStep == RouteQueues \/ RouteWakes \/ RouteCancels \/ JobMarks \/ JobQueues \/ JobWakes \/ JobDone

WorkerStep(i) == WorkerTakes(i) \/ WorkerQueues(i) \/ WorkerWakes(i) \/ WorkerEnds(i)

Next ==
    \/ BeginRun \/ RunnerStep \/ Statement \/ HandlerEnds \/ LastStatement
    \/ (\E n \in Sigs : RouteDrops(n) \/ RouteTraps(n) \/ RouteDefault(n)) \/ JobReaped \/ JobStep
    \/ (\E n \in OsSigs : OsSignal(n))
    \/ \E i \in Subs : WorkerStep(i)

Spec == Init /\ [][Next]_vars

\* Goroutines that can run do run.  What the script does next, when the job
\* ends and when signals are sent are choices and carry no fairness.
FairSpec ==
    /\ Spec
    /\ WF_vars(RunnerStep) /\ WF_vars(JobStep)
    /\ \A i \in Subs : WF_vars(WorkerStep(i))

-----------------------------------------------------------------------------
(* Properties.                                                             *)

TypeOK ==
    /\ trap \in [Sigs -> {"default", "ignore", "action"}]
    /\ chldActive \in BOOLEAN /\ loop \in BOOLEAN
    /\ current \in [OsSigs -> {0} \cup Subs]
    /\ nextSub \in 1 .. (MaxSubs + 1)
    /\ subSig \in [Subs -> {0} \cup OsSigs] /\ buffer \in [Subs -> {0, 1}]
    /\ stopped \in [Subs -> BOOLEAN]
    /\ worker \in [Subs -> {"none", "select", "queue", "wake", "finished"}]
    /\ pending \in [Sigs -> Seq({"default", "ignore", "action"})]
    /\ hasPending \in BOOLEAN /\ wake \in BOOLEAN /\ receipt \in [OsSigs -> BOOLEAN]
    /\ run \in {0} \cup Runs /\ nextRun \in 1 .. (MaxRuns + 1)
    /\ canceled \in [Runs -> BOOLEAN] /\ ownerSig \in {0} \cup Sigs
    /\ pc \in {"idle", "boundary", "deliver", "stop", "stmt", "after", "trapos", "trapjoin",
               "waiting", "wakeup", "killsend", "killwait", "end", "exit"}
    /\ handling \in BOOLEAN /\ ret \in {"stop", "boundary"}
    /\ arg \in {0} \cup Sigs /\ old \in {0} \cup Subs
    /\ job \in {"none", "run", "queue", "wake", "cancel", "mark", "chld", "chldwake",
                "close", "done"}
    /\ jobSig \in {0} \cup Sigs /\ jobAct \in {"default", "ignore", "action"}
    /\ jobRun \in {0} \cup Runs
    /\ sent \in 0 .. MaxSends
    /\ during \in BOOLEAN /\ due \in BOOLEAN /\ owed \subseteq Sigs

\* A trap command leaves nothing of the disposition it replaced: when it has
\* returned, the old worker is gone, so a late delivery cannot run the old
\* action, and the delivery its channel had accepted was queued, not dropped.
ReplacedIsOver ==
    pc \notin {"trapos", "trapjoin"} =>
        \A i \in Subs : worker[i] # "none" /\ current[subSig[i]] # i =>
            worker[i] = "finished" /\ buffer[i] = 0

\* Comments of queuePendingSignal, kill and the job's end: when wait was
\* interrupted by a trapped signal, when wait returned for a job whose SIGCHLD
\* was trapped, and when kill signaled its own group, the trap runs before the
\* next statement does.
TrapBeforeNext == pc = "stmt" /\ ~handling => owed = {}

\* A Run is interrupted only on behalf of a signal that it will report: until
\* the end of its statements the signal is still recorded.
CancelExplained == Interrupted /\ pc \notin {"exit", "idle"} => ownerSig # 0

\* wait returns for a signal other than SIGCHLD that is trapped and arrives
\* while it waits, even if the job never ends; unless a SIGCHLD is pending too,
\* which peekPendingSignal prefers to every signal with a higher number.
WaitInterrupted == pc = "waiting" /\ during ~> pc # "waiting" \/ pending[Chld] # <<>>

\* A default signal that a job sends to its owner ends a wait of the owner,
\* also when it was recorded before the Run began.
OwnerSignalEndsWait == pc = "waiting" /\ ownerSig # 0 ~> pc # "waiting"

\* trap waits for the worker it replaces and kill for the receipt of its own
\* signal; both return.
CommandsReturn == pc \in {"trapos", "trapjoin", "killsend", "killwait"} ~> pc = "after"

-----------------------------------------------------------------------------
(* The inductive invariant of the proofs (SignalTrapsProofs).              *)

\* A Run is known by its number: the job cancels the Run it found under the
\* lock, and while that one is current its signal has not been taken.
RunsOrdered ==
    /\ run = 0 <=> pc = "idle"
    /\ run < nextRun /\ jobRun < nextRun
    /\ job = "cancel" /\ jobRun = run /\ pc \notin {"exit", "idle"} => ownerSig # 0

\* What a trap command works on while it replaces a disposition.
Replacing ==
    /\ pc = "trapos" => nextSub \in Subs /\ arg \in Sigs
    /\ pc \in {"killsend", "killwait"} => arg \in OsSigs

\* The subscription of a signal is the only one that can still accept a
\* delivery; besides it only the one that trap is waiting for is at work.
Subscriptions ==
    /\ \A i \in Subs :
         /\ worker[i] = "none" <=> i >= nextSub
         /\ worker[i] = "none" => ~stopped[i] /\ buffer[i] = 0
         /\ worker[i] # "none" => subSig[i] \in OsSigs
         /\ worker[i] = "finished" => stopped[i] /\ buffer[i] = 0
         /\ worker[i] # "none" /\ current[subSig[i]] # i =>
              worker[i] = "finished" \/ (pc = "trapjoin" /\ i = old)
    /\ \A n \in OsSigs : current[n] # 0 =>
         worker[current[n]] # "none" /\ subSig[current[n]] = n /\ ~stopped[current[n]]

\* The fast-path bit tells the truth, and a trap that is owed is queued: by
\* the reaped job before it is done, by the receipt before kill returns.
QueueKept ==
    /\ hasPending <=> Queued # {}
    /\ owed \subseteq Queued
    /\ due => job \in {"mark", "chld"} \/ Chld \in Queued
    /\ job = "queue" => jobSig \in Sigs
    /\ pc \in {"killsend", "killwait"} => receipt[arg] \/ arg \in Queued
    /\ pc \in {"stop", "stmt"} /\ ~handling => owed = {}

IInv ==
    /\ TypeOK /\ RunsOrdered /\ CancelExplained /\ Replacing /\ Subscriptions /\ QueueKept
=============================================================================
