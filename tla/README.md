# TLA+ verification of the structured concurrency of bashy

This directory holds TLA+ models of the concurrent core of the shell in this
repository (a fork of mvdan/sh with the Bash++ and Go-source profiles), the TLC
configurations that model-check them on small instances, and TLAPS proofs of
their safety for every size. It is kept beside the code: every definition that
models code names its lines in `PROJECT.json` ("map").

## 1. Inventory

The repository is a shell: `syntax` parses, `expand` and `pattern` expand words,
`interp` runs the tree, `lower` compiles Bash++ to Go (with the run-time library
`lower/shellrt`), `gosource` runs typed Go programs in the interpreter,
`polyglot` drives foreign languages, `cmd` and `interactive` wrap it. Most of it
is sequential code over strings, which its corpora and fuzzers test well. What
tests hardly reach is the part of `interp` and of `lower/shellrt` that lets one
script run as many goroutines, and takes signals and callbacks from outside
meanwhile. That part is what we model.

| Component | State it keeps | Operations | Hard behaviour | What makes it correct |
|---|---|---|---|---|
| Channels (`bashpp_concurrency.go`, `gosource_send.go`) | Go channel, `closed`, `closing`, `active`, `changed` | send, receive, range, select, close | close against senders in progress, select with several registrations, cancellation of a blocked operation | the Go channel is never closed under a sender or twice; close and canceled operations return; results are true |
| Task group (`bashpp_concurrency.go`, `bashpp_native_exit.go`) | `active`, `tasks`, `failures`, `quiesced`, two contexts, launch handshake per task | `go`, arm, done, failure, Goexit, os.Exit, join at the end of the file | fast failure against the launcher, failure against a blocked owner, late `go`, lost wakeups of the join | nothing survives the join; every launch and join returns; the File's status does not depend on the schedule |
| Resident Mutex and RWMutex (`gosource_resident_sync.go`) | `locked`, `readers`, `wpending`, `rwaiting`, `rgranted`, epoch, queue | Lock, RLock, Try*, Unlock, RUnlock | one-at-a-time wakeups that a canceled waiter must pass on, admission of readers before the next writer | exclusion, exact counters, no lost wakeup |
| Resident WaitGroup (same file) | `count`, the Go WaitGroup, broadcast generation | Add, Done, Wait | zero between look and sleep, reuse, negative counter | a Wait that saw zero returns, the gate is not kept |
| WaitGroup.Go (`gosource_waitgroup.go`) | an owed Done | Go | panic, cancellation between Add and start | Done is paid exactly once |
| FIFO rendezvous (`bashpp_fifo.go`) | pending and open entries | open, publish, close, clone | peer completes while an opener is acquiring | no opener stranded, no premature end of file |
| Mixed select (`gosource_mixed_select.go`) | none beyond the call | probe both sides, bounded wait | two sides that commit independently | at most one commit |
| Callback mailbox (`bashpp_native_mailbox.go`, `bashpp_native_bridge.go`, the worker's half) | slot states, parked words, reference count, the control connection | publish, take, answer, park, notify, nested requests, close | both sides park after a last look; the session closes under a request | no lost wakeup, one answer per callback and its own, no use after unmap |
| Traps and signals (`signal.go`) | trap actions, subscriptions with a worker each, pending queue, fast-path bit, `sigWake`, receipts | trap, wait, kill, delivery between statements | replacing a trap under its worker; a signal between the looks of wait; group kill | a replaced trap is over; a trap runs before the next statement; wait and kill return |
| Asynchronous owner signals (`async_signal.go`) | pending signal, current run | route, begin, finish, raise | signal between two runs | a default signal ends the owner's wait, and a run is canceled only for one |
| Sessions of compiled programs (`lower/shellrt`) | per session: `active`, `failures`, `joined`, context, `closed` | Go, Arm, Cancel, Join, Close, Program.Run, RunSourceTask | groups that nest; the task's own Close; which of several errors is reported | the same promises as the task group, for every session; a genuine failure is reported |

How they interact. A File Run owns one task group (`bashPPConcurrent`). `go`
registers a task there, clones the runner and waits for the handshake. All
blocking operations, of channels, locks and WaitGroups, go through
`bashPPArmBeforeBlock`, which releases the launcher and looks at the group's
context, and then wait beside `ctx.Done()`. A failing task cancels the group's
context (and, in Go source, the context of the run), which completes every
blocked operation. So the models share the event "the context is done":
`BashPPTaskGroup` says when it happens; channels, locks, WaitGroups and FIFOs
let it happen at any time and must cope. Signals and callbacks meet the group
only through the context and the statement boundary, and are modelled alone.

`PROJECT.json` lists every component, those that are not modelled with the
reason, and the hazards at the line where they bite.

## 2. Modules

**`BashPPChannel`** models channels. Its steps are the critical sections of
`bashPPChannel.mu` and the passes of a Go select. Send, receive and select have
one life cycle in the code and one in the model: evaluate and register the arms
(`RegisterArm`, with `BeginSend`, `RefuseSend`, `SkipArm`; `OperandError` and
`MalformedOperand` are the early returns), look at the context (`CheckContext`),
probe (`Probe`), announce (`ArmBeforeBlock`), block (`Block`), release
(`EndSend`, `Return`). `BashPPClose` and `CloseWoken` are `close()`. A range is a
sequence of receives. The profile (`goSource`) is chosen in the initial state,
because Go source registers all arms after evaluating them and keeps a select
going when one of its channels is closed, while the shell registers arm by arm
and gives up. The Go runtime's channel is external: an event that makes a
parked select ready completes it in the same step. Values are not modelled;
`queued` counts them, and the history variable `took` records which arm's value a
channel took. `held` is the set of registrations that `active` counts.

**`BashPPTaskGroup`** models the group. Launching is `Add`, `StartTask` or
`Unstarted`/`Reaped`, `Launched`. A task settles, blocks (`TaskArm`,
`TaskRecheck`), launches, fails, panics, calls os.Exit or returns; then it cleans
up and reports through `Done`, `DoneCancelRun`, `DoneArm`, which are three steps
because `done()` cancels the run and releases the launcher after it unlocked. The
owner blocks, calls, is interrupted, ends or leaves by Goexit, joins and adopts a
failure. What the program's statements compute is not modelled; that a statement
succeeds, fails with a status, blocks or panics is a choice of the model. Of a
status it keeps the code and what its error says, which is what `Echo` tests. A
snapshot is one step that succeeds or fails. Once the File Run is over and
nothing runs, the model stutters.

**`ResidentLock`** models Mutex and RWMutex (`rw` is chosen initially). A critical
section of `gate` is a step. `chan`, `signaled` and `queue` are the wakeup
channels; a reader's epoch is kept as membership in `granted`, which is all the
code asks of it. Go locks have no owner, so anybody may unlock.

**`ResidentWaitGroup`** models `count` beside the counter of the Go WaitGroup
(`native`), because a panic in the Go Add separates them. `Misuse` lets the
program take the counter below zero.

**`StructuredGroup`** is the abstract specification: tasks are launched in order
and only into a live group, a failure is recorded, cancels the group and ends its
task in one step, the join comes when nothing is live and is final. Two modules
implement it, each through a refinement mapping named `Group` and the property
`ImplementsGroup`. In `BashPPTaskGroup` a task is live from `add()` to the critical
section of `done()`. In `ShellrtSession` there is one group per session,
`Group(s)`; a recorded cancellation is a plain end there.

**`ShellrtSession`** models the runtime of compiled programs. Each task has a
session whose group's context derives from its owner's (`above`), so one `Cancel`
reaches a subtree. `source` chooses between `RunSourceTask` bodies and plain
`TaskFunc`s, which differ in how the error of the body and the error of `Close` are
ranked. An error is kept as its class. A shell may fail to close in every session;
the history `fault` records each genuine failure, and marks as "masked" that of a
shell whose session, or a task below it, had ended canceled.

**`SignalTraps`** models one shell: its goroutine (statements, `trap`, `wait`,
`kill`, delivery), a background job, a worker per subscription and the operating
system. A critical section of `sigMu` is a step, so the queue, its fast-path bit
and the token in `sigWake` are set one after the other as in the code. A Run begins,
is interrupted and ends by the protocol of `async_signal.go`. A handler ends normally,
exits, or stops the delivery by return, break or continue.

**`CallbackMailbox`** models the shared mapping between interpreter and worker:
every atomic load and store is a step. A callback takes a free slot or the
connection, spins, parks and is woken; a request serves callbacks, parks, is
answered or abandoned; callbacks make nested requests (`stack`). `refs`, `closing`
and `mapped` are the life of the mapping. The worker's half comes from the worker
source embedded in the repository.

**`BashPPFIFO`** models opens of one FIFO: a task's opener announces, acquires with
a probe, registers, matches and waits; a publisher opens in the kernel and
registers afterwards, unless its open fails; a snapshot registers duplicates. The kernel's rule for
blocking opens is external (`Opened`). The variables marked "history" serve the
properties.

`MC*.tla` instantiate them. The operators named "Mutant of ..." in a module are
faulty variants of the definition that follows them; each property is known to
fail with one of them, which `PROJECT.json` lists.

## 3. Runs

| Run | Instance | What it checks |
|---|---|---|
| `channel` | 2 processes, an unbuffered and a buffered channel, a nil channel, selects over both, one that names a channel twice, and `select {}`, both profiles | `NoSendOnClosed`: no select offers a send on a closed Go channel; `OneCloser`; `NoLostBroadcast`: a sleeping closer has a sender that will wake it; `HonestOutcome`: reported and actual sends agree; `CloseReturns`, `CancelReturns` |
| `group_run` | owner and 2 tasks, statuses 7 and 9, both profiles | `ImplementsGroup`, `JoinIsComplete`, `JoinNotForgotten`, `FastFailureSeen`, `FileStatus`, `JoinReturns`, `LaunchReturns`, `FailureInterruptsOwner` |
| `group_adopt` | owner and 1 task | violated, in Go source: `InterruptedOwnerAdopts`, finding 1 |
| `group_deadlock` | owner and 1 task | violated: `DeadlockDetected`, finding 2 |
| `lock` | owner and 2 tasks, 2 readers | `Exclusive`, `CountersExact`, `NoLostWriter`, `AdmittedEnters`, `CancelReturns`, `FreeIsTaken` |
| `waitgroup_use` | owner and 3 tasks, counter up to 2 | `GateNotKept`, `ReuseIsReal`, `ZeroReleases`, `CancelReturns` |
| `waitgroup_misuse` | owner and 1 task, counter may go below zero | violated: `CancelReturns`, finding 3 |
| `shellrt` | root and 2 tasks, siblings or nested, both kinds of task | `ImplementsGroup` for every session; `SubtreeOver`: a joined session has nothing running below it; `Outcome`: the program of source tasks reports a genuine failure if there was one, save that of a shell behind a cancellation; `RunReturns`, `GoReturns` |
| `shellrt_plain` | the same | violated: `PlainOutcome`, finding 4 |
| `signals` | one signal of the system and SIGCHLD, 2 subscriptions, 2 signals sent, 2 runs | `ReplacedIsOver`, `TrapBeforeNext`, `CancelExplained`, `WaitInterrupted`, `OwnerSignalEndsWait`, `CommandsReturn` |
| `mailbox` | 2 callbacks, 1 slot, 2 requests | `MappedWhileUsed`, `OwnAnswerOnce`, `CallbackReturns` |
| `fifo` | 2 readers, a writer, a publisher that writes, a duplicate | `Paired`: nobody starts at end of file; `NotStranded` |

Why the bounds are enough. Two processes at a channel are a sender or select
against a closer, a receiver or another select; the same channel twice in a select,
and a close between two registrations, are among the selects. Two closers beside a
sender need a third process: the proofs cover them. Two tasks give launches by a
task, two failures that finish in either order, and a failure beside a blocked
sibling; statuses 7 and 9 differ from the panic status 2 and the interruption's 1.
Three processes at a lock are a holder, a waiter and a canceled or barging one. Two
tasks of a compiled program are siblings or parent and child, which is where one
level hides another's error. Two subscriptions are a trap and its replacement; two
signals are one on its way while another is handled. With one slot two callbacks
compete for it and one overflows; the second request is nested. In the FIFO the
publisher can be let through by either reader, which is where the openers'
order matters. The proofs remove the bounds for all safety properties; what rests on
them is liveness. No run uses
`SYMMETRY`, since all of them check liveness or are small. `MaxReaders`, `MaxCount`,
`MaxTasks`, `MaxSubs`, `MaxSends`, `MaxRuns` and `MaxRequests` cap what the program and
its environment do, never what the code does.

Deadlock is checked for channels, the group and sessions. For the others it is
not: a program whose context is done, or which has used its bounds, may call nothing
any more, and stops.

Fairness. Each goroutine that is inside an operation is weakly fair: the Go
scheduler runs what can run, an unlocked mutex is eventually taken, and a closed
channel or a broadcast wakes whoever waits on it. Nothing the program or the
host chooses is fair: starting an operation, a peer that would complete a
blocked one, an Unlock, a signal, the end of the background job, the cancellation,
the closing of a session. The control reader and the worker's goroutines are
goroutines like the others; a message on the connection is read in order and not
lost while the connection is open. The body of a callback ends, so the dependency
calls it makes return, and a worker whose connection is closed exits or is killed;
the reply of the outermost request is a choice. In the group and in sessions, weak
fairness of a task's own steps also says that a body that does not block ends.

## 4. Proofs

Every safety invariant that a passing run checks, and both refinements, are proved
for every value of the constants: one module `XProofs` per component `X`, except the
abstract `StructuredGroup`, whose two refinements are proved where they belong. Each
module proves `Inductive` (`Spec => []IInv`), `TypeCorrect` and the theorems below.
`IInv` is defined at the end of `X.tla`, where TLC can evaluate it; it was checked on
the instance of the run before it was proved. A step lemma per conjunct of `IInv` has
one case per action that can disturb the conjunct; the others leave its variables
alone, which the frame lemmas say.

The assumptions are the `ASSUME`s of the modules, which TLC evaluates in every run:
finite sets of processes with the tasks among them, a nil channel that is no channel,
natural capacities and bounds, an owner that is no task, nonzero statuses, signal
numbers above zero and SIGCHLD not among the signals of the system, at least one slot.
One theorem has a hypothesis of its own: `GateReleased` assumes `~Misuse`, since with
misuse the property is false (finding 3).

| Module | Theorem | Property |
|---|---|---|
| `BashPPChannelProofs` | `SendSafety`, `CloseOnce`, `BroadcastNotLost`, `HonestReports` | `NoSendOnClosed`, `OneCloser`, `NoLostBroadcast`, `HonestOutcome` |
| `BashPPTaskGroupProofs` | `JoinComplete`, `OwnerNotForgotten`, `FastFailure`, `StatusOfFile`, `GroupRefinement`, `NothingLate` | `JoinIsComplete`, `JoinNotForgotten`, `FastFailureSeen`, `FileStatus`, `ImplementsGroup`, and the action property `NoLateTask`, which no run repeats |
| `ResidentLockProofs` | `Exclusion`, `Counters`, `NoWakeupLost` | `Exclusive`, `CountersExact`, `NoLostWriter` |
| `ResidentWaitGroupProofs` | `ReuseReal`, `GateReleased` | `ReuseIsReal`, `GateNotKept` |
| `ShellrtSessionProofs` | `JoinReachesAll`, `OutcomeReported`, `GroupRefinement` | `SubtreeOver`, `Outcome`, `ImplementsGroup` |
| `SignalTrapsProofs` | `ReplacedAreOver`, `OwedTrapsRan`, `InterruptsExplained` | `ReplacedIsOver`, `TrapBeforeNext`, `CancelExplained` |
| `CallbackMailboxProofs` | `NeverUnmapped`, `AnswersOwn` | `MappedWhileUsed`, `OwnAnswerOnce` |
| `BashPPFIFOProofs` | `RendezvousPaired` | `Paired` |

Why the strengthenings are needed:

*Channels.* That no select offers a send on a closed channel depends on how `active`
came about. `IInv` adds `ActiveCounts` (`active` is the number of registrations held),
`HeldByArms` (a registration belongs to a send arm of an operation under way),
`OfferedIsHeld` (every send arm still offered is registered), `ClosedIsEmpty` (the Go
channel is closed only after `closed` was set and nobody is registered), `ClosersWait`
and `OneCloser`. So an offered send arm is held and the Go channel is not closed; and a
closer asleep has a nonzero count, so a registration. For `HonestOutcome`, `HInv` adds
`Decided`: an operation that has not settled has given nothing to a channel, and one
that settles does so in the step in which a channel takes its value.

*Task group.* `IInv` says that `active` counts `tasks`, every live task is registered,
each launcher at a snapshot has a child of its own, a quiesced group is empty, a
recorded or recordable failure implies a canceled group once its task is past `done()`,
and the owner sleeps only beside a registered task. `SInv` adds that `failures` are
exactly the failed tasks that ended, and that adoption comes after the join; with the
join complete, the lowest recorded ordinal is the lowest of all failed tasks, which is
`FileStatus`. The refinement maps every action to a launch, an end with or without a
failure, a join, or nothing; the guards of the abstract steps come from `IInv`.

*Lock.* Exclusion needs the exact counters, and these need to know whose they are:
`Registered` ties `pending` and `waiting` to calls under way, `Placed` ties wakeup
channels to waits that are not over (a canceled process may leave a closed channel
behind, and then never waits again), `Queued` says that nobody is queued twice or
woken while queued. `NoLostWriter` is then inductive: every step that takes the last
writer on its way out of its call, or frees the lock, wakes another or passes it on.

*WaitGroup.* `CountAhead` holds even after a recovered panic of the Go Add;
`SignaledSawZero` says that a generation is closed only at zero for those who waited
on it, which gives `ReuseIsReal`. Without misuse `Balanced` says that the two counters
agree and cover every Done on its way to the gate, so the Go Wait under the gate finds
zero.

*Sessions.* `Tree` describes the contexts: the sessions above a task are its owner's
and itself, and every one of them has a child on the way down. With `ActiveCounts` (a
group's `active` is the number of its tasks that have not reported) and `JoinsFirst`,
an empty group has over children only, and `SubtreeOver` follows by going up one level
at a time, without induction over depth, because `above` holds the whole path.
`FailuresKept`, `Originates` and `Reported` say that a genuine error has an origin, that
a group keeps the failures of its ended tasks and that a joined session above an origin
has taken the failure over; at the root that is `Outcome`. The origins are the sessions
with a fault that is not masked: a masked one leaves no trace in any error, so the
second half of `Outcome` holds beside it too. For the refinement the group
of each session is an instance of its own.

*Traps.* `Subscriptions` says that only the current subscription of a signal, or the one
that `trap` is waiting for, has a worker at work, and that a finished worker has an empty
buffer. `QueueKept` says that the fast-path bit is right and that what is owed is
queued or will be: by the reaped job before it is done, by the receipt before `kill`
returns. `RunsOrdered` numbers the Runs: a job cancels the Run it found under the lock,
and while that one is current its signal has not been taken.

*Mailbox.* `Nested` says that the requests on the stack are distinct and that all but
the innermost are in the body of a callback. `Referenced` says that the references are
those of the requests that serve the mailbox (an innermost request that has not
retained yet has none) and that memory is unmapped only when there are none, and
places every touch of the mapping inside such a request. For the answers, `OnePlace`
says that a callback whose body has not run is at one place at most: in a slot, on the
connection, in the channel of a request or in the hands of the blocked reader. `Ran`
ties every reply to a body that ran. `Owned` says that while both sides live a slot
belongs to the callback that claimed it and to the one request that holds it; after
the connection closed that is false (see the observations), which is why the property
speaks of the time before.

*FIFO.* `MetWhileOpen`: two opposite descriptors that are open have met; `ReleasedBy`: an
opener is released by a descriptor it has met, or early.

Only model-checked: all liveness properties, since the prover does not do fairness or
ENABLED. The four violated properties are false and have nothing to prove.

## 5. Findings

1. *An interrupted owner may keep its own status* (`group_adopt`). In Go source a
   task's failure cancels the run as well as the group, but `done()` cancels
   the group inside its critical section and the run after it. An owner blocked on
   a channel is woken by the first cancellation, fails with status 1, joins and
   reaches `bashPPAdoptTaskFailure` before the second: neither test of `echo` holds,
   and the File ends with 1 instead of the task's status. The comment of that
   function says that the task's status replaces the interruption.
2. *Deadlock is looked for once* (`group_deadlock`). `docs/s374-resident-channels.md`
   says deadlock is detected when no interpreted task can make progress. The test runs
   before the block only: an owner that blocks while a task runs waits on when
   that task ends without waking it.
3. *A negative WaitGroup counter keeps the gate* (`waitgroup_misuse`). The Go Add
   panics after it has changed its counter; the recovered panic skips `s.count`.
   A later Wait sees `count` zero and blocks in the Go Wait with the gate held, where
   cancellation does not reach it, against `docs/s374-resident-sync.md`.

4. *A canceled task hides its descendant's failure* (`shellrt_plain`). `Session.Go`
   keeps the error of the child's `Close` only if the body returned none. A plain
   `TaskFunc` that returns its context's cancellation after a task of its own failed
   reports the cancellation; the failure `Close` found is dropped, where
   `RunSourceTask` ranks the two. `docs/lowering-runtime.md` says that genuine failures
   outrank cancellations.

Observations, which properties name as exceptions and no run is spent on:

- `wait` and SIGCHLD. `peekPendingSignal` returns the pending signal with the lowest
  number, and `waitOrSignal` goes on waiting if that is CHLD (17). A trapped signal
  with a higher number behind it does not interrupt the wait (the exception in
  `WaitInterrupted`), although the comment in `waitOrSignal` says that any other
  trapped signal returns immediately.
- An opener released while announced does not call `fifoMatch` when it registers.
  An opposite opener that was waiting before is not released by it, nor by a
  duplicate of it (the exception `silent` in `NotStranded`), although the comment of `fifoMatch` promises every registered
  opener of the opposite direction.
- A publisher let through by one reader releases every pending opener, including one
  that holds no descriptor yet and may then start at end of file: the publisher has
  written to the other reader and closed before this one acquires (the exception
  `early` in `Paired`). The comment of `bashPPFIFOPublish` (`bashpp_fifo.go:92-95`)
  says the opposite: "a completed blocking open proves that peer's descriptor exists,
  so releasing it — even while it is still acquiring — cannot expose a premature
  end-of-file". The open proves that *some* peer's descriptor exists.
- A shell that fails to close behind a cancellation is not reported. `Session.Close`
  keeps the backend's error only if its join found none (`task.go:304-306`), and
  `Session.Go` keeps what `Close` returns only if the body returned none
  (`task.go:172-174`); nothing ranks the two. So the genuine failure of an `EXIT` trap
  or of the backend is dropped when the task's body was canceled, and at the root
  when a task was left blocked at the end of the program: the join's cancellation
  stands before it, `withoutShutdownCancellation` removes that, and the program
  reports success (the exception "masked" in `Outcome`). `docs/lowering-runtime.md:275-278`
  says that genuine failures outrank cancellations, and the comment in `Program.Run`
  that closing "only adds the backend's own shutdown failure". It is the same pair of
  lines as finding 4, met by the shell instead of a descendant.
- The control reader blocks when a second callback comes over the connection for a
  request whose channel is full; nested replies wait behind it (the exception
  `reader[1] = "push"` in `CallbackReturns`).
- When the session stops, a slot that a callback abandoned may be reused before the
  interpreter answers the older request (hence `~Stop` in `OwnAnswerOnce`).

## 6. Not modelled, and the plan

The values that travel and the program's data; file descriptors and the
processes of the operating system; parsing, expansion and compilation, which are
most of the repository's lines: sequential code over strings and trees, without a
small instance that would say more than the corpora and fuzzers do. The sharing of
variables between tasks (the cloners of `bashPPTaskSnapshot`) is data and stays out.

Of the concurrent parts these are left: `WaitGroup.Go` and the finalizer
goroutine, which launch by the protocol of `BashPPTaskGroup`; the mixed select, whose
dependency side runs in the worker process; the job table and its carriers, whose
state is the operating system's processes; the signal bus, of which `SignalTraps` is
one subscriber; channels of compiled programs; the mailbox's frames for package
testing and routed callbacks; proxied exec replacements.

All safety invariants of the runs are proved. The plan from here is to bring the
proofs closer to liveness, whose core is a safety statement that the prover can reach:

1. `CallbackMailbox`: whoever is parked beside a message for it has a wakeup on its way,
   which is what `CallbackReturns` needs besides fairness.
2. `ResidentWaitGroup` and `ResidentLock`: a waiter whose condition came true is signaled
   (`ZeroReleases`, `AdmittedEnters`).
3. `SignalTraps`: a queued signal has the bit and the token behind it, or somebody about
   to set them (`WaitInterrupted`).
4. `BashPPFIFO`: a registered opener beside a registered opposite one is matched, but for
   the exceptions of `NotStranded`.
