----------------------------- MODULE ResidentLock -----------------------------
(***************************************************************************)
(* The interpreter-owned sync.Mutex and sync.RWMutex of                    *)
(* interp/gosource_resident_sync.go.  A blocked Lock must observe the      *)
(* cancellation of its task group, so nobody blocks in the Go lock itself: *)
(* an acquirer tries, and waits for a wakeup under a gate that also guards *)
(* the bookkeeping.  Exclusive acquirers queue and are woken one at a      *)
(* time; readers wait for a broadcast.  A writer that waits excludes new   *)
(* readers, and the readers that wait when a writer unlocks are admitted   *)
(* before the next writer.                                                 *)
(*                                                                         *)
(* A critical section of the gate is one step.  A Mutex is the same        *)
(* protocol without readers.  Go locks have no owner: any process may      *)
(* unlock.  The epoch of a waiting reader is kept as whether it still      *)
(* equals s.repoch, which is all the code asks of it.                      *)
(***************************************************************************)
EXTENDS Naturals, Sequences, FiniteSets, SequencesExt

CONSTANTS
    Procs,      \* the processes of the program
    Tasks,      \* the tasks among them: only they look before they block
    MaxReaders  \* bound: read locks held at a time

ASSUME LockAssumption ==
    /\ IsFiniteSet(Procs) /\ Tasks \subseteq Procs
    /\ MaxReaders \in Nat

VARIABLES
    rw,         \* TRUE for a sync.RWMutex, FALSE for a sync.Mutex
    locked,     \* s.locked, s.wlocked
    readers,    \* s.readers
    wpending,   \* s.wpending
    rwaiting,   \* s.rwaiting
    rgranted,   \* s.rgranted
    queue,      \* s.queue: the processes whose channels are in it, in order
    cancelled,  \* the task group's context is done
    pc,         \* where each process is
    op,         \* "Lock", "RLock" or "none"
    chan,       \* chan[p]: p holds a wakeup channel (wake, queued)
    signaled,   \* the processes whose wakeup channel is closed
    pending,    \* the writers counted in wpending
    waiting,    \* the readers that registered
    granted     \* those of them that an Unlock admitted: repoch # epoch

lockVars == <<rw, locked, readers, wpending, rwaiting, rgranted, queue>>
vars == <<lockVars, cancelled, pc, op, chan, signaled, pending, waiting, granted>>

Init ==
    /\ rw \in BOOLEAN
    /\ locked = FALSE /\ readers = 0
    /\ wpending = 0 /\ rwaiting = 0 /\ rgranted = 0
    /\ queue = << >>
    /\ cancelled = FALSE
    /\ pc = [p \in Procs |-> "idle"]
    /\ op = [p \in Procs |-> "none"]
    /\ chan = {} /\ signaled = {}
    /\ pending = {} /\ waiting = {} /\ granted = {}

At(p, from, to) == pc[p] = from /\ pc' = [pc EXCEPT ![p] = to]

-----------------------------------------------------------------------------
(* The bookkeeping, under the gate.                                        *)

\* wakeOne releases the longest queued exclusive waiter to retry; `told` are the
\* processes that a broadcast of the same critical section reaches.
WakeOne(told) ==
    IF queue = << >> THEN signaled' = signaled \cup told /\ UNCHANGED queue
    ELSE signaled' = signaled \cup told \cup {Head(queue)} /\ queue' = Tail(queue)

WakeNobody(told) == signaled' = signaled \cup told /\ UNCHANGED queue

\* A new waiter is appended, one that is still queued keeps its place.
Enqueue(p) ==
    /\ queue' = IF p \in chan THEN queue ELSE Append(queue, p)
    /\ chan' = chan \cup {p}

\* Mutant of Abandon: a woken waiter keeps the wakeup it will not use.
AbandonQuietly(p, told) ==
    /\ queue' = SelectSeq(queue, LAMBDA q : q # p)
    /\ signaled' = signaled \cup told

\* A waiter gives up: it leaves the queue, or passes on the wakeup it was given.
Abandon(p, told) ==
    \/ \E i \in DOMAIN queue :
          /\ queue[i] = p
          /\ queue' = RemoveAt(queue, i)
          /\ signaled' = signaled \cup told
    \/ p \notin Range(queue) /\ WakeOne(told)

\* The broadcast: every reader that waits on the current generation.
Sleepers == {p \in Procs : op[p] = "RLock" /\ p \in chan}

-----------------------------------------------------------------------------
(* Lock and RLock.                                                         *)

Start(p, kind) ==
    /\ ~cancelled
    /\ At(p, "idle", "try")
    /\ op' = [op EXCEPT ![p] = kind]
    /\ UNCHANGED <<lockVars, cancelled, chan, signaled, pending, waiting, granted>>

Lock(p) == Start(p, "Lock")

\* The bound leaves room for every reader on its way.
RoomForReader == readers + Cardinality({q \in Procs : op[q] = "RLock"}) < MaxReaders

RLock(p) ==
    /\ rw
    /\ RoomForReader
    /\ Start(p, "RLock")

Acquired(p) ==
    /\ pc' = [pc EXCEPT ![p] = "idle"]
    /\ op' = [op EXCEPT ![p] = "none"]

\* Mutant of WriterFree: a writer does not wait for the admitted readers.
WriterBarges == ~locked /\ readers = 0

WriterFree == ~locked /\ readers = 0 /\ rgranted = 0

TryAcquire(p) ==
    /\ op[p] = "Lock" /\ pc[p] = "try"
    /\ IF WriterFree
       THEN /\ locked' = TRUE
            /\ wpending' = IF p \in pending THEN wpending - 1 ELSE wpending
            /\ pending' = pending \ {p}
            /\ Acquired(p)
            /\ UNCHANGED <<queue, chan>>
       ELSE /\ Enqueue(p)
            /\ wpending' = IF rw /\ p \notin pending THEN wpending + 1 ELSE wpending
            /\ pending' = IF rw THEN pending \cup {p} ELSE pending
            /\ pc' = [pc EXCEPT ![p] = "arm"]
            /\ UNCHANGED <<locked, op>>
    /\ UNCHANGED <<rw, readers, rwaiting, rgranted, cancelled, signaled, waiting, granted>>

\* Mutant of ReaderFree: an admitted reader still waits for the queued writers.
ReaderDefers(p) == ~locked /\ wpending = 0

ReaderFree(p) == ~locked /\ (p \in granted \/ wpending = 0)

TryRAcquire(p) ==
    /\ op[p] = "RLock" /\ pc[p] = "try"
    /\ IF ReaderFree(p)
       THEN /\ readers' = readers + 1
            /\ rgranted' = IF p \in granted THEN rgranted - 1 ELSE rgranted
            /\ rwaiting' = IF p \in waiting \ granted THEN rwaiting - 1 ELSE rwaiting
            /\ waiting' = waiting \ {p} /\ granted' = granted \ {p}
            /\ Acquired(p)
            /\ UNCHANGED chan
       ELSE /\ chan' = chan \cup {p}
            /\ rwaiting' = IF p \in waiting THEN rwaiting ELSE rwaiting + 1
            /\ waiting' = waiting \cup {p}
            /\ pc' = [pc EXCEPT ![p] = "arm"]
            /\ UNCHANGED <<readers, rgranted, granted, op>>
    /\ UNCHANGED <<rw, locked, wpending, queue, cancelled, signaled, pending>>

\* bashPPArmBeforeBlock.
ArmBeforeBlock(p) ==
    /\ pc[p] = "arm"
    /\ pc' = [pc EXCEPT ![p] = IF cancelled /\ p \in Tasks THEN "leave" ELSE "wait"]
    /\ UNCHANGED <<lockVars, cancelled, op, chan, signaled, pending, waiting, granted>>

\* select { case <-wake: ; case <-ctx.Done(): }
Woken(p) ==
    /\ At(p, "wait", "try")
    /\ p \in signaled
    /\ chan' = chan \ {p}
    /\ signaled' = signaled \ {p}
    /\ UNCHANGED <<lockVars, cancelled, op, pending, waiting, granted>>

\* Mutant of Canceled: only a task's wait listens to the context.
CanceledTask(p) ==
    /\ At(p, "wait", "leave")
    /\ cancelled /\ p \in Tasks
    /\ UNCHANGED <<lockVars, cancelled, op, chan, signaled, pending, waiting, granted>>

Canceled(p) ==
    /\ At(p, "wait", "leave")
    /\ cancelled
    /\ UNCHANGED <<lockVars, cancelled, op, chan, signaled, pending, waiting, granted>>

\* An abandoned writer wakes the readers it was excluding.
Leave(p) ==
    /\ op[p] = "Lock" /\ pc[p] = "leave"
    /\ Acquired(p)
    /\ pending' = pending \ {p}
    /\ wpending' = IF p \in pending THEN wpending - 1 ELSE wpending
    /\ Abandon(p, IF p \in pending THEN Sleepers ELSE {})
    /\ chan' = chan \ {p}
    /\ UNCHANGED <<rw, locked, readers, rwaiting, rgranted, cancelled, waiting, granted>>

\* Mutant of RLeave: an abandoned reader keeps the grant it will not use.
RLeaveKeeps(p) ==
    /\ op[p] = "RLock" /\ pc[p] = "leave"
    /\ Acquired(p)
    /\ waiting' = waiting \ {p} /\ granted' = granted \ {p}
    /\ rwaiting' = IF p \in granted THEN rwaiting ELSE rwaiting - 1
    /\ WakeNobody({})
    /\ chan' = chan \ {p}
    /\ UNCHANGED <<rw, locked, readers, wpending, rgranted, cancelled, pending>>

\* An abandoned reader returns the grant it will not use.
RLeave(p) ==
    /\ op[p] = "RLock" /\ pc[p] = "leave"
    /\ Acquired(p)
    /\ waiting' = waiting \ {p} /\ granted' = granted \ {p}
    /\ IF p \in granted
       THEN /\ rgranted' = rgranted - 1
            /\ UNCHANGED rwaiting
            /\ IF readers = 0 /\ rgranted' = 0 THEN WakeOne({}) ELSE WakeNobody({})
       ELSE /\ rwaiting' = rwaiting - 1
            /\ WakeNobody({})
            /\ UNCHANGED rgranted
    /\ chan' = chan \ {p}
    /\ UNCHANGED <<rw, locked, readers, wpending, cancelled, pending>>

-----------------------------------------------------------------------------
(* The operations that never wait.                                         *)

TryLock(p) ==
    /\ ~cancelled /\ pc[p] = "idle"
    /\ WriterFree
    /\ locked' = TRUE
    /\ UNCHANGED <<rw, readers, wpending, rwaiting, rgranted, queue, cancelled, pc, op, chan,
                   signaled, pending, waiting, granted>>

TryRLock(p) ==
    /\ rw /\ ~cancelled /\ pc[p] = "idle"
    /\ RoomForReader
    /\ ~locked /\ wpending = 0
    /\ readers' = readers + 1
    /\ UNCHANGED <<rw, locked, wpending, rwaiting, rgranted, queue, cancelled, pc, op, chan,
                   signaled, pending, waiting, granted>>

\* The waiting readers are admitted; their last RUnlock wakes the next writer.
Unlock(p) ==
    /\ ~cancelled /\ pc[p] = "idle"
    /\ locked
    /\ locked' = FALSE
    /\ granted' = waiting
    /\ rgranted' = rgranted + rwaiting
    /\ rwaiting' = 0
    /\ IF rwaiting = 0 THEN WakeOne({}) ELSE WakeNobody(Sleepers)
    /\ UNCHANGED <<rw, readers, wpending, cancelled, pc, op, chan, pending, waiting>>

\* Mutant of RUnlock: the last reader wakes nobody.
RUnlockSilent(p) ==
    /\ ~cancelled /\ pc[p] = "idle"
    /\ readers > 0
    /\ readers' = readers - 1
    /\ WakeNobody({})
    /\ UNCHANGED <<rw, locked, wpending, rwaiting, rgranted, cancelled, pc, op, chan, pending,
                   waiting, granted>>

RUnlock(p) ==
    /\ ~cancelled /\ pc[p] = "idle"
    /\ readers > 0
    /\ readers' = readers - 1
    /\ IF readers' = 0 /\ rgranted = 0 THEN WakeOne({}) ELSE WakeNobody({})
    /\ UNCHANGED <<rw, locked, wpending, rwaiting, rgranted, cancelled, pc, op, chan, pending,
                   waiting, granted>>

Cancel ==
    /\ ~cancelled
    /\ cancelled' = TRUE
    /\ UNCHANGED <<lockVars, pc, op, chan, signaled, pending, waiting, granted>>

-----------------------------------------------------------------------------
Call(p) == Lock(p) \/ RLock(p) \/ TryLock(p) \/ TryRLock(p) \/ Unlock(p) \/ RUnlock(p)

Step(p) ==
    \/ TryAcquire(p) \/ TryRAcquire(p) \/ ArmBeforeBlock(p)
    \/ Woken(p) \/ Canceled(p) \/ Leave(p) \/ RLeave(p)

Next == Cancel \/ \E p \in Procs : Call(p) \/ Step(p)

Spec == Init /\ [][Next]_vars

\* A goroutine that can run does run.  Calling the lock and cancelling are the
\* program's and the host's choice: not even an Unlock is promised.
FairSpec == Spec /\ \A p \in Procs : WF_vars(Step(p))

-----------------------------------------------------------------------------
(* Properties.                                                             *)

\* Every variable has its type; a counter below zero would exclude for good.
TypeOK ==
    /\ rw \in BOOLEAN /\ locked \in BOOLEAN /\ cancelled \in BOOLEAN
    /\ readers \in Nat /\ wpending \in Nat /\ rwaiting \in Nat /\ rgranted \in Nat
    /\ queue \in Seq(Procs)
    /\ pc \in [Procs -> {"idle", "try", "arm", "wait", "leave"}]
    /\ op \in [Procs -> {"none", "Lock", "RLock"}]
    /\ chan \subseteq Procs /\ signaled \subseteq Procs /\ pending \subseteq Procs
    /\ waiting \subseteq Procs /\ granted \subseteq waiting

\* The lock excludes, and the readers an Unlock admitted are in before any other
\* writer, a TryLock included: while one is on its way nobody holds the lock.
Exclusive == locked => readers = 0 /\ granted = {}

\* The counters are what they count, through every wait, grant and withdrawal:
\* a leak would exclude every later reader or writer for good.
CountersExact ==
    /\ wpending = Cardinality(pending)
    /\ rwaiting = Cardinality(waiting \ granted)
    /\ rgranted = Cardinality(granted)

\* A writer on its way: it has been woken, has not tried yet, or passes its
\* wakeup on when it leaves.
OnItsWay(p) == op[p] = "Lock" /\ p \notin Range(queue)

\* No wakeup of an exclusive waiter is lost: a queue beside a lock that a writer
\* could take always has a writer on its way to take it or to pass it on.
NoLostWriter ==
    WriterFree /\ queue # << >> => \E p \in Procs : OnItsWay(p)

\* A reader that an Unlock admitted gets its lock, or leaves, whatever other
\* writers do and without any further Unlock.
AdmittedEnters == \A p \in Procs : p \in granted ~> p \notin granted

\* A canceled group leaves nobody in a lock, held locks notwithstanding.
CancelReturns == \A p \in Procs : cancelled /\ pc[p] # "idle" ~> pc[p] = "idle"

\* A free lock does not stay free beside a process that waits for it.
FreeIsTaken ==
    (~locked /\ readers = 0 /\ \E p \in Procs : pc[p] # "idle")
        ~> (locked \/ readers # 0 \/ \A p \in Procs : pc[p] = "idle")

-----------------------------------------------------------------------------
(* The inductive invariant of the proofs (ResidentLockProofs).             *)

Blocked == {p \in Procs : pc[p] \in {"arm", "wait", "leave"}}

\* A wakeup channel, and its closing, belong to a wait that is not over; only a
\* canceled process keeps a closed channel behind, and it never waits again.
Placed ==
    /\ \A p \in Procs : op[p] = "none" <=> pc[p] = "idle"
    /\ \A p \in Procs : pc[p] = "leave" => cancelled
    /\ chan \subseteq Blocked
    /\ ~cancelled => signaled \subseteq Blocked
    /\ \A p \in signaled : pc[p] # "try"

\* Nobody is queued twice, nor woken while it is queued.
Queued ==
    /\ IsInjective(queue)
    /\ \A p \in Range(queue) : op[p] = "Lock" /\ p \in chan /\ p \notin signaled

\* The registrations are those of processes in their call.
Registered ==
    /\ \A p \in pending : op[p] = "Lock"
    /\ \A p \in waiting : op[p] = "RLock"
    /\ \A p \in Blocked : op[p] = "RLock" => p \in waiting

IInv ==
    /\ TypeOK /\ Placed /\ Queued /\ Registered
    /\ CountersExact /\ Exclusive /\ NoLostWriter
=============================================================================
