-------------------------- MODULE ResidentWaitGroup --------------------------
(***************************************************************************)
(* The interpreter-owned sync.WaitGroup of interp/gosource_resident_sync.go:*)
(* a count beside the real Go WaitGroup, both changed under the gate.  A   *)
(* Wait that has to block waits for the generation broadcast at zero, so   *)
(* that it can observe cancellation, and calls the Go Wait, still under    *)
(* the gate, only when the count says that it will not block.              *)
(*                                                                         *)
(* A critical section of the gate is one step, except one whose Go Wait    *)
(* blocks: it keeps the gate.                                              *)
(***************************************************************************)
EXTENDS Integers, FiniteSets

CONSTANTS
    Procs,      \* the processes of the program
    Tasks,      \* the tasks among them: only they look before they block
    MaxCount,   \* bound: the largest count the program reaches
    Misuse      \* TRUE: the program may take the counter below zero

ASSUME WaitGroupAssumption ==
    /\ IsFiniteSet(Procs) /\ Tasks \subseteq Procs
    /\ MaxCount \in Nat /\ Misuse \in BOOLEAN

VARIABLES
    count,      \* s.count
    native,     \* the counter of the Go WaitGroup
    stuck,      \* the processes blocked in the Go Wait, holding the gate
    cancelled,  \* the task group's context is done
    pc,         \* where each process is
    delta,      \* delta[p]: the argument of p's Add, 0 for a Wait
    signaled,   \* the waiting processes whose generation is closed
    reused,     \* the processes that reported a reuse before Wait returned
    zeroSeen    \* history: the count was zero since p's Wait began

vars == <<count, native, stuck, cancelled, pc, delta, signaled, reused, zeroSeen>>

Init ==
    /\ count = 0 /\ native = 0
    /\ stuck = {}
    /\ cancelled = FALSE
    /\ pc = [p \in Procs |-> "idle"]
    /\ delta = [p \in Procs |-> 0]
    /\ signaled = {} /\ reused = {} /\ zeroSeen = {}

At(p, from, to) == pc[p] = from /\ pc' = [pc EXCEPT ![p] = to]

\* Everybody else waits for the gate while one is stuck in the Go Wait.
GateFree == stuck = {}

Waiters == {p \in Procs : pc[p] \in {"arm", "wait", "woken"}}

Adding(d) == Cardinality({p \in Procs : pc[p] = "gate" /\ delta[p] = d})

\* Bounds of the program: at most MaxCount, and below zero only by Misuse.
Allowed(d) ==
    /\ d = 1 => count + Adding(1) < MaxCount
    /\ d = -1 => native - Adding(-1) >= (IF Misuse THEN 0 ELSE 1)

\* A call looks at the context and goes for the gate: Add(d), where Done is
\* Add(-1), or Wait, where d is 0.
Call(p, d) ==
    /\ ~cancelled
    /\ Allowed(d)
    /\ At(p, "idle", "gate")
    /\ delta' = [delta EXCEPT ![p] = d]
    /\ reused' = reused \ {p} /\ zeroSeen' = zeroSeen \ {p}
    /\ UNCHANGED <<count, native, stuck, cancelled, signaled>>

\* s.notify() when the new count is zero.
NotifyAtZero ==
    /\ signaled' = IF count' = 0 THEN signaled \cup Waiters ELSE signaled
    /\ zeroSeen' = IF count' = 0 THEN zeroSeen \cup Waiters ELSE zeroSeen

\* Mutant of Add: every Done broadcasts, not the last one only.
AddEager(p) ==
    /\ GateFree /\ delta[p] # 0
    /\ At(p, "gate", "idle")
    /\ native' = native + delta[p] /\ count' = count + delta[p]
    /\ signaled' = signaled \cup Waiters
    /\ zeroSeen' = IF count' = 0 THEN zeroSeen \cup Waiters ELSE zeroSeen
    /\ UNCHANGED <<stuck, cancelled, delta, reused>>

\* Mutant of Add: the Go WaitGroup is not told of a Done.
AddUnbalanced(p) ==
    /\ GateFree /\ delta[p] # 0
    /\ At(p, "gate", "idle")
    /\ count' = count + delta[p]
    /\ native' = IF delta[p] > 0 THEN native + delta[p] ELSE native
    /\ NotifyAtZero
    /\ UNCHANGED <<stuck, cancelled, delta, reused>>

\* Mutant of Add: zero is not broadcast.
AddSilent(p) ==
    /\ GateFree /\ delta[p] # 0
    /\ At(p, "gate", "idle")
    /\ native' = native + delta[p] /\ count' = count + delta[p]
    /\ zeroSeen' = IF count' = 0 THEN zeroSeen \cup Waiters ELSE zeroSeen
    /\ UNCHANGED <<stuck, cancelled, delta, signaled, reused>>

\* The Go Add panics on a negative counter and leaves it negative; the recovered
\* panic skips the count and the broadcast.
Add(p) ==
    /\ GateFree /\ delta[p] # 0
    /\ At(p, "gate", "idle")
    /\ native' = native + delta[p]
    /\ IF native' < 0
       THEN UNCHANGED <<count, signaled, zeroSeen>>
       ELSE count' = count + delta[p] /\ NotifyAtZero
    /\ UNCHANGED <<stuck, cancelled, delta, reused>>

\* s.wg.Wait() under the gate: it returns at once, or never and keeps the gate.
GoWait(p) ==
    IF native = 0
    THEN pc' = [pc EXCEPT ![p] = "idle"] /\ UNCHANGED stuck
    ELSE pc' = [pc EXCEPT ![p] = "stuck"] /\ stuck' = stuck \cup {p}

Wait(p) ==
    /\ GateFree
    /\ pc[p] = "gate" /\ delta[p] = 0
    /\ IF count = 0
       THEN GoWait(p) /\ zeroSeen' = zeroSeen \cup {p}
       ELSE /\ pc' = [pc EXCEPT ![p] = "arm"]
            /\ UNCHANGED <<stuck, zeroSeen>>
    /\ UNCHANGED <<count, native, cancelled, delta, signaled, reused>>

\* bashPPArmBeforeBlock.
ArmBeforeBlock(p) ==
    /\ pc[p] = "arm"
    /\ pc' = [pc EXCEPT ![p] = IF cancelled /\ p \in Tasks THEN "idle" ELSE "wait"]
    /\ signaled' = IF pc'[p] = "idle" THEN signaled \ {p} ELSE signaled
    /\ UNCHANGED <<count, native, stuck, cancelled, delta, reused, zeroSeen>>

\* select { case <-wake: ; case <-ctx.Done(): }
Woken(p) ==
    /\ At(p, "wait", "woken")
    /\ p \in signaled
    /\ UNCHANGED <<count, native, stuck, cancelled, delta, signaled, reused, zeroSeen>>

\* Mutant of Canceled: the owner's Wait listens to its wakeup only.
CanceledTask(p) ==
    /\ At(p, "wait", "idle")
    /\ cancelled /\ p \in Tasks
    /\ signaled' = signaled \ {p}
    /\ UNCHANGED <<count, native, stuck, cancelled, delta, reused, zeroSeen>>

Canceled(p) ==
    /\ At(p, "wait", "idle")
    /\ cancelled
    /\ signaled' = signaled \ {p}
    /\ UNCHANGED <<count, native, stuck, cancelled, delta, reused, zeroSeen>>

\* A woken Wait takes the gate: an Add in between is the reuse panic.
WaitAgain(p) ==
    /\ GateFree
    /\ pc[p] = "woken"
    /\ signaled' = signaled \ {p}
    /\ IF count # 0
       THEN /\ pc' = [pc EXCEPT ![p] = "idle"]
            /\ reused' = reused \cup {p}
            /\ UNCHANGED stuck
       ELSE GoWait(p) /\ UNCHANGED reused
    /\ UNCHANGED <<count, native, cancelled, delta, zeroSeen>>

Cancel ==
    /\ ~cancelled
    /\ cancelled' = TRUE
    /\ UNCHANGED <<count, native, stuck, pc, delta, signaled, reused, zeroSeen>>

Step(p) == Add(p) \/ Wait(p) \/ ArmBeforeBlock(p) \/ Woken(p) \/ Canceled(p) \/ WaitAgain(p)

Next == Cancel \/ \E p \in Procs : (\E d \in {-1, 0, 1} : Call(p, d)) \/ Step(p)

Spec == Init /\ [][Next]_vars

\* A goroutine that can run does run; what it calls is the program's choice.
FairSpec == Spec /\ \A p \in Procs : WF_vars(Step(p))

-----------------------------------------------------------------------------
(* Properties.                                                             *)

\* Every variable has its type; the count of a well-behaved program is never
\* negative.
TypeOK ==
    /\ count \in Nat /\ native \in Int
    /\ stuck \subseteq Procs /\ cancelled \in BOOLEAN
    /\ pc \in [Procs -> {"idle", "gate", "arm", "wait", "woken", "stuck"}]
    /\ delta \in [Procs -> {-1, 0, 1}]
    /\ signaled \subseteq Procs /\ reused \subseteq Procs /\ zeroSeen \subseteq Procs

\* The Go Wait that is called under the gate never blocks: it would keep the
\* gate and with it every other operation of the WaitGroup, cancellation or not.
GateNotKept == stuck = {}

\* The reuse panic is reported only to a Wait during which the count was zero:
\* an Add that merely races a Wait is no reuse.
ReuseIsReal == reused \subseteq zeroSeen

\* A Wait during which the count is zero returns, whether or not the group is
\* used again before it runs.
ZeroReleases == \A p \in Procs : p \in Waiters \cap zeroSeen ~> pc[p] = "idle"

\* A canceled group leaves nobody in an operation of the WaitGroup.
CancelReturns == \A p \in Procs : cancelled /\ pc[p] # "idle" ~> pc[p] = "idle"

-----------------------------------------------------------------------------
(* The inductive invariants of the proofs (ResidentWaitGroupProofs).       *)

\* A recovered panic lowers the Go counter and not the count.
CountAhead == native <= count

\* A generation is closed only at zero, for those that waited on it; and a Wait
\* goes on only when its generation is closed.
SignaledSawZero ==
    /\ signaled \subseteq zeroSeen \cap Waiters
    /\ \A p \in Procs : pc[p] = "woken" => p \in signaled

IInv == TypeOK /\ CountAhead /\ SignaledSawZero /\ ReuseIsReal

\* Without misuse the two counters agree, and cover every Done on its way.
Balanced == count = native /\ Adding(-1) <= native

BInv == Balanced /\ GateNotKept
=============================================================================
