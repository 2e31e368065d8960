--------------------------- MODULE BashPPTaskGroup ---------------------------
(***************************************************************************)
(* The structured task group of one File Run (bashPPConcurrent): `go`      *)
(* registers a task, snapshots the runner, starts the goroutine and waits  *)
(* for the launch handshake; a task that ends reports through done(); the  *)
(* owner joins at the end of the file (bashPPWait) or at Reset             *)
(* (stopAndJoin), or waits without cancelling when main called             *)
(* runtime.Goexit.  A failure cancels the group and, for Go source, the    *)
(* whole run.                                                              *)
(*                                                                         *)
(* A critical section of bashPPConcurrent.mu is one step; what done() does *)
(* after it unlocks (cancel the run, release the launcher) are steps of    *)
(* their own.  What the program's statements are is its own choice; a      *)
(* statement either settles, blocks cancellably, launches or ends its task.*)
(***************************************************************************)
EXTENDS Naturals, FiniteSets

CONSTANTS
    Owner,      \* the runner of the File Run
    MaxTasks,   \* bound: tasks ever registered in the group
    Codes       \* the nonzero statuses a task's function may end with

TaskIds == 0 .. (MaxTasks - 1)
Procs == {Owner} \cup TaskIds

\* bashPPPanicStatus, which is also the status of a recovered panic.
PanicStatus == 2

ASSUME GroupAssumption ==
    /\ MaxTasks \in Nat
    /\ Owner \notin TaskIds
    /\ Codes \subseteq Nat \ {0}

VARIABLES
    goSource,   \* r.bashPPGoSource: the profile of the run, set before it starts
    ctxDone,    \* c.ctx is done
    runDone,    \* the context of the owning Run is done
    active,     \* c.active
    tasks,      \* the ordinals in c.tasks
    nextTask,   \* c.nextTask
    quiesced,   \* c.quiesced
    failures,   \* the ordinals in c.failures
    mainGoexit, \* c.mainGoexit
    exitCalled, \* c.exitCalled
    exitCode,   \* c.exitStatus
    ready,      \* ready[t]: state.ready is closed
    pc,         \* where each process is
    child,      \* child[p]: the task p is launching
    fail,       \* fail[t]: the status of t's failure, 0 for none
    status,     \* the owner's r.exit: its code and what its err says
    asleep,     \* the owner sleeps in c.changed.Wait()
    settled,    \* history: t completed a command or committed to a block
    cause       \* history: where the owner's nonzero status comes from

groupVars == <<goSource, ctxDone, runDone, active, tasks, nextTask, quiesced,
               failures, mainGoexit, exitCalled, exitCode>>
vars == <<groupVars, ready, pc, child, fail, status, asleep, settled, cause>>

OwnerPCs == {"run", "snap", "reap", "await", "chan", "dep", "eof", "join",
             "goexit", "exitjoin", "adopt", "over"}
TaskPCs == {"unborn", "born", "run", "snap", "reap", "await", "rearm",
            "blocked", "exit", "finish", "cancelrun", "release", "over"}

Status(code, err) == [code |-> code, err |-> err]

Init ==
    /\ goSource \in BOOLEAN
    /\ ctxDone = FALSE /\ runDone = FALSE
    /\ active = 0 /\ tasks = {} /\ nextTask = 0
    /\ quiesced = FALSE /\ failures = {}
    /\ mainGoexit = FALSE /\ exitCalled = FALSE /\ exitCode = 0
    /\ ready = [t \in TaskIds |-> FALSE]
    /\ pc = [p \in Procs |-> IF p = Owner THEN "run" ELSE "unborn"]
    /\ child = [p \in Procs |-> 0]
    /\ fail = [t \in TaskIds |-> 0]
    /\ status = Status(0, "nil")
    /\ asleep = FALSE
    /\ settled = [t \in TaskIds |-> FALSE]
    /\ cause = "none"

At(p, from, to) == pc[p] = from /\ pc' = [pc EXCEPT ![p] = to]

Arm(t) == ready' = [ready EXCEPT ![t] = TRUE]

-----------------------------------------------------------------------------
(* bashPPGo in the launcher p, which is the owner or a task.               *)

\* c.add(): a canceled or quiesced group refuses, without any effect.
Add(p) ==
    /\ At(p, "run", "snap")
    /\ ~quiesced /\ ~ctxDone
    /\ nextTask < MaxTasks
    /\ child' = [child EXCEPT ![p] = nextTask]
    /\ nextTask' = nextTask + 1
    /\ tasks' = tasks \cup {nextTask}
    /\ active' = active + 1
    /\ UNCHANGED <<goSource, ctxDone, runDone, quiesced, failures, mainGoexit, exitCalled,
                   exitCode, ready, fail, status, asleep, settled, cause>>

\* The snapshot fails, or the group is canceled before the goroutine starts:
\* the launcher itself closes the child's resources and runs done(), whose
\* steps are those of the task below, and does not wait for the handshake.
Unstarted(p) ==
    /\ pc[p] = "snap"
    /\ pc' = [pc EXCEPT ![p] = "reap", ![child[p]] = "finish"]
    /\ \/ fail' = [fail EXCEPT ![child[p]] = PanicStatus]
       \/ ctxDone /\ UNCHANGED fail
    /\ UNCHANGED <<groupVars, ready, child, status, asleep, settled, cause>>

Reaped(p) ==
    /\ At(p, "reap", "run")
    /\ pc[child[p]] = "over"
    /\ UNCHANGED <<groupVars, ready, child, fail, status, asleep, settled, cause>>

StartTask(p) ==
    /\ pc[p] = "snap"
    /\ ~ctxDone
    /\ pc' = [pc EXCEPT ![p] = "await", ![child[p]] = "born"]
    /\ UNCHANGED <<groupVars, ready, child, fail, status, asleep, settled, cause>>

\* <-state.ready
Launched(p) ==
    /\ At(p, "await", "run")
    /\ ready[child[p]]
    /\ UNCHANGED <<groupVars, ready, child, fail, status, asleep, settled, cause>>

-----------------------------------------------------------------------------
(* The goroutine of a task t.                                              *)

\* The goroutine's first look at the context.
TaskEnter(t) ==
    /\ pc[t] = "born"
    /\ pc' = [pc EXCEPT ![t] = IF ctxDone THEN "exit" ELSE "run"]
    /\ UNCHANGED <<groupVars, ready, child, fail, status, asleep, settled, cause>>

\* cmdGoTaskSettled: a command completed, not failing and not returning.
TaskSettled(t) ==
    /\ pc[t] = "run"
    /\ ~settled[t]
    /\ Arm(t)
    /\ settled' = [settled EXCEPT ![t] = TRUE]
    /\ UNCHANGED <<groupVars, pc, child, fail, status, asleep, cause>>

\* Runner.stop and the first check of bashPPArmBeforeBlock: the next command
\* of a canceled task does not run, and its launcher is released.
TaskStopped(t) ==
    /\ At(t, "run", "exit")
    /\ ctxDone
    /\ Arm(t)
    /\ UNCHANGED <<groupVars, child, fail, status, asleep, settled, cause>>

\* bashPPArmBeforeBlock: the launcher is released just before the block...
TaskArm(t) ==
    /\ At(t, "run", "rearm")
    /\ ~ctxDone
    /\ Arm(t)
    /\ settled' = [settled EXCEPT ![t] = TRUE]
    /\ UNCHANGED <<groupVars, child, fail, status, asleep, cause>>

\* ...and the context is looked at once more.
TaskRecheck(t) ==
    /\ pc[t] = "rearm"
    /\ pc' = [pc EXCEPT ![t] = IF ctxDone THEN "exit" ELSE "blocked"]
    /\ UNCHANGED <<groupVars, ready, child, fail, status, asleep, settled, cause>>

\* A peer, a process or a timer lets the blocked operation finish.
TaskUnblocked(t) ==
    /\ At(t, "blocked", "run")
    /\ UNCHANGED <<groupVars, ready, child, fail, status, asleep, settled, cause>>

\* The blocked operation observes the context: a canceled task is no failure.
TaskCanceled(t) ==
    /\ At(t, "blocked", "exit")
    /\ ctxDone
    /\ UNCHANGED <<groupVars, ready, child, fail, status, asleep, settled, cause>>

\* The function returns, or Goexit ends the task, with status zero.
TaskReturns(t) ==
    /\ At(t, "run", "exit")
    /\ UNCHANGED <<groupVars, ready, child, fail, status, asleep, settled, cause>>

\* Mutant of TaskFails: a failing command arms the launcher like any other.
TaskFailsArmed(t, code) ==
    /\ At(t, "run", "exit")
    /\ fail' = [fail EXCEPT ![t] = code]
    /\ Arm(t)
    /\ UNCHANGED <<groupVars, child, status, asleep, settled, cause>>

\* The function ends with a nonzero status.  bashPPTaskRunCanceled forgives a
\* fatal status seen only after the group was canceled, which is how Go source
\* ends a failing statement; the shell profile records it.
TaskFails(t, code) ==
    /\ At(t, "run", "exit")
    /\ fail' = IF goSource /\ ctxDone THEN fail ELSE [fail EXCEPT ![t] = code]
    /\ UNCHANGED <<groupVars, ready, child, status, asleep, settled, cause>>

\* A panic of the interpreter itself reaches the goroutine's recover.
TaskPanics(t) ==
    /\ At(t, "run", "exit")
    /\ fail' = [fail EXCEPT ![t] = PanicStatus]
    /\ UNCHANGED <<groupVars, ready, child, status, asleep, settled, cause>>

\* os.Exit from a task (bashPPNativeExitStatus).  After main's Goexit the first
\* one decides the program's status and wakes the owner; otherwise it is the
\* status of the task.
TaskOsExit(t, code) ==
    /\ goSource
    /\ At(t, "run", "exit")
    /\ IF mainGoexit /\ ~exitCalled
       THEN /\ exitCalled' = TRUE /\ exitCode' = code /\ ctxDone' = TRUE
            /\ asleep' = FALSE
            /\ UNCHANGED fail
       ELSE /\ fail' = IF ctxDone THEN fail ELSE [fail EXCEPT ![t] = code]
            /\ UNCHANGED <<exitCalled, exitCode, ctxDone, asleep>>
    /\ UNCHANGED <<goSource, runDone, active, tasks, nextTask, quiesced, failures, mainGoexit,
                   ready, child, status, settled, cause>>

\* The deferred EXIT trap, outside the cancellation, and the release of the
\* task's jobs, FIFOs and files.  A panic in the trap counts if nothing else did.
TaskCleanup(t) ==
    /\ At(t, "exit", "finish")
    /\ \/ UNCHANGED fail
       \/ fail[t] = 0 /\ fail' = [fail EXCEPT ![t] = PanicStatus]
    /\ UNCHANGED <<groupVars, ready, child, status, asleep, settled, cause>>

\* Mutant of Done: the last task does not broadcast.
DoneSilent(t) ==
    /\ At(t, "finish", "cancelrun")
    /\ failures' = IF fail[t] # 0 THEN failures \cup {t} ELSE failures
    /\ ctxDone' = (ctxDone \/ fail[t] # 0)
    /\ tasks' = tasks \ {t}
    /\ active' = active - 1
    /\ UNCHANGED <<goSource, runDone, nextTask, quiesced, mainGoexit, exitCalled, exitCode,
                   ready, child, fail, status, asleep, settled, cause>>

\* Mutant of Done: the failure is recorded and the group is not canceled.
DoneUncanceled(t) ==
    /\ At(t, "finish", "cancelrun")
    /\ failures' = IF fail[t] # 0 THEN failures \cup {t} ELSE failures
    /\ tasks' = tasks \ {t}
    /\ active' = active - 1
    /\ asleep' = (asleep /\ active' # 0)
    /\ UNCHANGED <<goSource, ctxDone, runDone, nextTask, quiesced, mainGoexit, exitCalled,
                   exitCode, ready, child, fail, status, settled, cause>>

\* done(): the critical section.  The last task broadcasts.
Done(t) ==
    /\ At(t, "finish", "cancelrun")
    /\ failures' = IF fail[t] # 0 THEN failures \cup {t} ELSE failures
    /\ ctxDone' = (ctxDone \/ fail[t] # 0)
    /\ tasks' = tasks \ {t}
    /\ active' = active - 1
    /\ asleep' = (asleep /\ active' # 0)
    /\ UNCHANGED <<goSource, runDone, nextTask, quiesced, mainGoexit, exitCalled, exitCode,
                   ready, child, fail, status, settled, cause>>

\* Mutant of DoneCancelRun: a failure does not cancel the run.
DoneKeepsRun(t) ==
    /\ At(t, "cancelrun", "release")
    /\ UNCHANGED <<groupVars, ready, child, fail, status, asleep, settled, cause>>

\* done(): failureCancel, which only a Go-source run has.
DoneCancelRun(t) ==
    /\ At(t, "cancelrun", "release")
    /\ runDone' = (runDone \/ (goSource /\ fail[t] # 0))
    /\ UNCHANGED <<goSource, ctxDone, active, tasks, nextTask, quiesced, failures, mainGoexit,
                   exitCalled, exitCode, ready, child, fail, status, asleep, settled,
                   cause>>

\* Mutant of DoneArm: a task that never completed a command keeps its launcher.
DoneUnarmed(t) ==
    /\ At(t, "release", "over")
    /\ UNCHANGED <<groupVars, ready, child, fail, status, asleep, settled, cause>>

\* done(): the launcher is always released.
DoneArm(t) ==
    /\ At(t, "release", "over")
    /\ Arm(t)
    /\ UNCHANGED <<groupVars, child, fail, status, asleep, settled, cause>>

-----------------------------------------------------------------------------
(* The owner.                                                              *)

OwnerFrame == UNCHANGED <<groupVars, ready, child, fail, asleep, settled>>

\* A channel operation that may block: bashPPDeadlockIfNoTasks looks once.
OwnerBlocks ==
    /\ pc[Owner] = "run"
    /\ IF goSource /\ ~ctxDone /\ active = 0
       THEN /\ pc' = [pc EXCEPT ![Owner] = "eof"]
            /\ status' = Status(PanicStatus, "status") /\ cause' = "own"
       ELSE /\ pc' = [pc EXCEPT ![Owner] = "chan"]
            /\ UNCHANGED <<status, cause>>
    /\ OwnerFrame

\* A call into a dependency, a sleep or an external command.
OwnerCalls ==
    /\ At(Owner, "run", "dep")
    /\ OwnerFrame /\ UNCHANGED <<status, cause>>

\* A running task is the peer that completes a channel operation.
OwnerUnblocked ==
    /\ \/ At(Owner, "chan", "run") /\ \E t \in tasks : pc[t] \in {"run", "exit"}
       \/ At(Owner, "dep", "run")
    /\ OwnerFrame /\ UNCHANGED <<status, cause>>

\* The group's context ends the owner's channel operation with status 1.  Go
\* source makes that status fatal; the shell goes on to its next command.
OwnerChanCanceled ==
    /\ At(Owner, "chan", IF goSource THEN "eof" ELSE "run")
    /\ ctxDone
    /\ status' = Status(1, IF goSource THEN "status" ELSE "nil")
    /\ cause' = "interrupt"
    /\ OwnerFrame

\* The run's context ends the call, or the next statement (Runner.stop).
OwnerRunCanceled ==
    /\ At(Owner, "dep", "eof") \/ At(Owner, "run", "eof")
    /\ runDone
    /\ status' = Status(1, "canceled")
    /\ cause' = "interrupt"
    /\ OwnerFrame

\* The owner's last command: success, a status of its own, a panic, or the interrupted
\* operation after which a shell owner had nothing more to run.
OwnerEnds ==
    /\ At(Owner, "run", "eof")
    /\ \/ status' = Status(0, "nil") /\ cause' = "none"
       \/ status' = Status(1, IF goSource THEN "status" ELSE "nil") /\ cause' = "own"
       \/ status' = Status(PanicStatus, "panic") /\ cause' = "own"
       \/ cause = "interrupt" /\ UNCHANGED <<status, cause>>
    /\ OwnerFrame

\* runtime.Goexit left the main function.
OwnerGoexit ==
    /\ goSource
    /\ At(Owner, "run", "goexit")
    /\ mainGoexit' = TRUE
    /\ status' = Status(0, "nil") /\ cause' = "none"
    /\ UNCHANGED <<goSource, ctxDone, runDone, active, tasks, nextTask, quiesced, failures,
                   exitCalled, exitCode, ready, child, fail, asleep, settled>>

\* Mutant of WaitCancel: the end of the file joins without cancelling.
WaitUncanceled ==
    /\ At(Owner, "eof", "join")
    /\ UNCHANGED <<groupVars, ready, child, fail, status, asleep, settled, cause>>

\* bashPPWait at the end of the file, and stopAndJoin: cancel, then join.
WaitCancel ==
    /\ At(Owner, "eof", "join")
    /\ ctxDone' = TRUE
    /\ UNCHANGED <<goSource, runDone, active, tasks, nextTask, quiesced, failures, mainGoexit,
                   exitCalled, exitCode, ready, child, fail, status, asleep, settled,
                   cause>>

\* Mutant of WaitJoin: the group quiesces without waiting.
WaitNothing(from, to) ==
    /\ pc[Owner] = from
    /\ pc' = [pc EXCEPT ![Owner] = to]
    /\ quiesced' = TRUE
    /\ UNCHANGED <<goSource, ctxDone, runDone, active, tasks, nextTask, failures, mainGoexit,
                   exitCalled, exitCode, ready, child, fail, asleep, settled>>

\* for c.active != 0 { c.changed.Wait() }, then quiesce.
WaitJoin(from, to) ==
    /\ pc[Owner] = from
    /\ ~asleep
    /\ IF active # 0
       THEN /\ asleep' = TRUE
            /\ UNCHANGED <<pc, quiesced>>
       ELSE /\ pc' = [pc EXCEPT ![Owner] = to]
            /\ quiesced' = TRUE
            /\ UNCHANGED asleep
    /\ UNCHANGED <<goSource, ctxDone, runDone, active, tasks, nextTask, failures, mainGoexit,
                   exitCalled, exitCode, ready, child, fail, settled>>

Join == WaitJoin("join", "adopt") /\ UNCHANGED <<status, cause>>

\* After Goexit the tasks run on: no cancellation, until one calls os.Exit.
GoexitJoin ==
    /\ ~exitCalled
    /\ WaitJoin("goexit", "adopt") /\ UNCHANGED <<status, cause>>

GoexitExit ==
    /\ At(Owner, "goexit", "exitjoin")
    /\ exitCalled /\ ~asleep
    /\ ctxDone' = TRUE
    /\ UNCHANGED <<goSource, runDone, active, tasks, nextTask, quiesced, failures, mainGoexit,
                   exitCalled, exitCode, ready, child, fail, status, asleep, settled,
                   cause>>

ExitJoin ==
    /\ WaitJoin("exitjoin", "over")
    /\ IF active = 0
       THEN status' = Status(exitCode, IF exitCode = 0 THEN "nil" ELSE "status")
            /\ cause' = "exit"
       ELSE UNCHANGED <<status, cause>>

\* Mutant of Primary: the failure of the task launched last.
LatestFailure == CHOOSE t \in failures : \A u \in failures : t >= u

\* primaryFailureLocked: the failure of the lowest launch ordinal.
Primary == CHOOSE t \in failures : \A u \in failures : t <= u

\* bashPPAdoptTaskFailure, which reads the run's context after the unlock.
Echo ==
    /\ status.code # 0 /\ status.err # "panic"
    /\ status.err = "canceled" \/ runDone

Adopt ==
    /\ At(Owner, "adopt", "over")
    /\ IF failures # {}
       THEN IF status.code # 0 /\ ~Echo
            THEN UNCHANGED <<status, cause>>
            ELSE /\ status' = Status(fail[Primary], IF Echo THEN "status" ELSE status.err)
                 /\ cause' = "task"
       ELSE IF mainGoexit
            THEN status' = Status(PanicStatus, "nil") /\ cause' = "own"
            ELSE UNCHANGED <<status, cause>>
    /\ OwnerFrame

\* bashPPChannel and bashPPChannelOperation: a shell operand that is no channel
\* of this group, or has the wrong direction, cancels the group by itself.
MalformedOperand(p) ==
    /\ ~goSource
    /\ pc[p] = "run"
    /\ ctxDone' = TRUE
    /\ UNCHANGED <<goSource, runDone, active, tasks, nextTask, quiesced, failures, mainGoexit,
                   exitCalled, exitCode, ready, pc, child, fail, status, asleep, settled,
                   cause>>

\* The host cancels the context it gave to Run.
HostCancel ==
    /\ ~runDone
    /\ runDone' = TRUE /\ ctxDone' = TRUE
    /\ UNCHANGED <<goSource, active, tasks, nextTask, quiesced, failures, mainGoexit, exitCalled,
                   exitCode, ready, pc, child, fail, status, asleep, settled, cause>>

-----------------------------------------------------------------------------
Launch(p) == Add(p) \/ Unstarted(p) \/ Reaped(p) \/ StartTask(p) \/ Launched(p)

TaskStep(t) ==
    \/ TaskEnter(t) \/ TaskSettled(t) \/ TaskStopped(t) \/ TaskArm(t)
    \/ TaskRecheck(t) \/ TaskCanceled(t) \/ TaskReturns(t)
    \/ \E code \in Codes : TaskFails(t, code)
    \/ \E code \in Codes \cup {0} : TaskOsExit(t, code)
    \/ TaskPanics(t) \/ TaskCleanup(t) \/ Done(t) \/ DoneCancelRun(t) \/ DoneArm(t)

OwnerStep ==
    \/ OwnerBlocks \/ OwnerCalls \/ OwnerChanCanceled \/ OwnerRunCanceled
    \/ OwnerEnds \/ OwnerGoexit \/ WaitCancel \/ Join \/ GoexitJoin \/ GoexitExit
    \/ ExitJoin \/ Adopt

Next ==
    \/ \E p \in Procs : Launch(p) \/ MalformedOperand(p)
    \/ \E t \in TaskIds : TaskStep(t) \/ TaskUnblocked(t)
    \/ OwnerStep \/ OwnerUnblocked
    \/ HostCancel
    \/ pc[Owner] = "over" /\ (\A t \in TaskIds : pc[t] \in {"unborn", "over"})
         /\ UNCHANGED vars

Spec == Init /\ [][Next]_vars

\* The Go scheduler runs every goroutine that can run, a statement ends, and a
\* sync.Cond broadcast wakes its sleeper.  Launching, unblocking a peer and the
\* host's cancellation are choices and carry no fairness.
LaunchStep(p) == Unstarted(p) \/ Reaped(p) \/ StartTask(p) \/ Launched(p)

FairSpec ==
    /\ Spec
    /\ WF_vars(OwnerStep) /\ WF_vars(LaunchStep(Owner))
    /\ \A t \in TaskIds : WF_vars(TaskStep(t)) /\ WF_vars(LaunchStep(t))

-----------------------------------------------------------------------------
(* Properties.                                                             *)

TypeOK ==
    /\ goSource \in BOOLEAN
    /\ ctxDone \in BOOLEAN /\ runDone \in BOOLEAN
    /\ active \in Nat
    /\ tasks \subseteq TaskIds
    /\ nextTask \in Nat
    /\ quiesced \in BOOLEAN
    /\ failures \subseteq TaskIds
    /\ mainGoexit \in BOOLEAN /\ exitCalled \in BOOLEAN /\ exitCode \in Nat
    /\ ready \in [TaskIds -> BOOLEAN]
    /\ pc \in [Procs -> OwnerPCs \cup TaskPCs]
    /\ pc[Owner] \in OwnerPCs
    /\ \A t \in TaskIds : pc[t] \in TaskPCs
    /\ child \in [Procs -> Nat]
    /\ fail \in [TaskIds -> Nat]
    /\ status \in [code : Nat, err : {"nil", "canceled", "status", "panic"}]
    /\ asleep \in BOOLEAN
    /\ settled \in [TaskIds -> BOOLEAN]
    /\ cause \in {"none", "own", "interrupt", "task", "exit"}

\* The join is complete: once bashPPWait or stopAndJoin has quiesced the group,
\* no task is registered and none is still running its body, its EXIT trap or
\* its clean-up, so nothing uses the cloned runners after the File Run.
JoinIsComplete ==
    quiesced =>
        /\ active = 0 /\ tasks = {}
        /\ \A t \in TaskIds : pc[t] \in {"unborn", "cancelrun", "release", "over"}

\* An owner asleep in the join always has a task whose done() will wake it, or
\* (after Goexit) is awake as soon as os.Exit was called.
JoinNotForgotten ==
    asleep => active # 0 /\ tasks # {} /\ (pc[Owner] = "goexit" => ~exitCalled)

\* Nothing is registered in a group that a failure has canceled or that has
\* quiesced: a later `go` has no side effects.
NoLateTask == [][failures # {} \/ quiesced => nextTask' = nextTask]_vars

\* The launch handshake: a task that fails in its first command never releases
\* its launcher before the group is canceled, so a fast failure cannot race
\* the statements after the `go`.
FastFailureSeen ==
    \A t \in TaskIds : ready[t] /\ ~settled[t] /\ fail[t] # 0 => ctxDone

\* The File's status: if a task failed the run does not end in success, and a
\* status taken from the tasks is that of the lowest ordinal of ALL tasks that
\* failed, whatever the order in which they finished.
FileStatus ==
    LET failed == {t \in TaskIds : fail[t] # 0}
    IN pc[Owner] = "over" /\ failed # {} /\ ~exitCalled =>
         /\ status.code # 0
         /\ cause = "task" => \E t \in failed :
                status.code = fail[t] /\ \A u \in failed : t <= u

\* What the comment of bashPPAdoptTaskFailure promises of Go source, where a
\* failure cancels the owning run: an owner interrupted because a task failed
\* ends with the task's status, not with its own echo of it.
InterruptedOwnerAdopts ==
    goSource /\ pc[Owner] = "over" /\ cause = "interrupt" => failures = {}

\* The end of the file always joins: tasks blocked for good are canceled.
JoinReturns == pc[Owner] = "eof" ~> pc[Owner] = "over"

\* `go` always returns: a task that blocks, fails, panics or is canceled
\* before its first command releases its launcher too.
LaunchReturns ==
    \A p \in Procs : pc[p] \in {"snap", "reap", "await"} ~> pc[p] = "run"

\* A failed task interrupts an owner that is blocked on a channel or in a
\* dependency call, so the failure is not held back by it (Go source).
FailureInterruptsOwner ==
    goSource /\ failures # {} /\ pc[Owner] \in {"chan", "dep"}
        ~> pc[Owner] \notin {"chan", "dep"}

\* The group as the program sees it: what is left of the state when the launch
\* handshake, the snapshots and the steps of done() are forgotten.
Group == INSTANCE StructuredGroup WITH
    Tasks <- TaskIds,
    phase <- [t \in TaskIds |-> IF t \in tasks THEN "live"
                                ELSE IF t < nextTask THEN "ended" ELSE "none"],
    failed <- failures,
    canceled <- ctxDone,
    joined <- quiesced

\* The interpreter's group implements the structured group: launches in order
\* and never after a cancellation, a failure that is recorded and cancels the
\* group in the step that ends its task, and one join, after which nothing moves.
ImplementsGroup == Group!Spec

\* What docs/s374-resident-channels.md says of blocking operations: deadlock
\* is detected when no interpreted task can make progress.
DeadlockDetected ==
    goSource /\ pc[Owner] = "chan" /\ tasks = {} ~> pc[Owner] # "chan"

-----------------------------------------------------------------------------
(* The inductive invariant behind the safety properties.                   *)

\* A task between its registration and the end of done()'s critical section,
\* once its goroutine (or the launcher in its place) has taken it over.
Live == {"born", "run", "snap", "reap", "await", "rearm", "blocked", "exit", "finish"}

Ended == {"cancelrun", "release", "over"}

\* c.active counts c.tasks.
ActiveCounts == active = Cardinality(tasks)

\* Every live task is registered; ordinals not yet handed out are unborn.
LiveRegistered ==
    \A t \in TaskIds :
        /\ pc[t] \in Live => t \in tasks
        /\ t >= nextTask => pc[t] = "unborn" /\ t \notin tasks

\* A launcher at work on a snapshot has a registered child of its own.
SnapshotsOwned ==
    \A p \in Procs : pc[p] = "snap" =>
        /\ child[p] \in tasks /\ pc[child[p]] = "unborn"
        /\ \A q \in Procs : pc[q] = "snap" /\ child[q] = child[p] => q = p

QuiescedEmpty == quiesced => tasks = {}

\* A failure is recorded once its task has ended, and has canceled the group.
FailuresCancel ==
    /\ failures # {} => ctxDone
    /\ \A t \in TaskIds :
         /\ fail[t] # 0 => pc[t] \in {"exit", "finish"} \cup Ended
         /\ fail[t] # 0 /\ pc[t] \in Ended => ctxDone
         /\ ready[t] /\ ~settled[t] => ctxDone \/ pc[t] = "over"

\* The owner sleeps only in a join, and only while there is something to join.
SleeperWaits ==
    asleep => /\ pc[Owner] \in {"join", "goexit", "exitjoin"}
              /\ active # 0
              /\ pc[Owner] = "goexit" => ~exitCalled

IInv ==
    /\ TypeOK
    /\ ActiveCounts
    /\ LiveRegistered
    /\ SnapshotsOwned
    /\ QuiescedEmpty
    /\ FailuresCancel
    /\ SleeperWaits

\* The recorded failures are those of the tasks that went through done().
FailuresExact == failures = {t \in TaskIds : fail[t] # 0 /\ pc[t] \in Ended}

\* The owner adopts a failure only after the join, and only once.
AdoptsAfterJoin ==
    /\ pc[Owner] \in {"adopt", "over"} => quiesced
    /\ pc[Owner] = "exitjoin" => exitCalled
    /\ cause = "task" => pc[Owner] = "over"

\* With IInv, the invariant behind the status of the File.
SInv == FailuresExact /\ AdoptsAfterJoin /\ FileStatus
=============================================================================
