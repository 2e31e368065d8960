---------------------------- MODULE BashPPChannel ----------------------------
(***************************************************************************)
(* The interpreter-owned channel of interp/bashpp_concurrency.go: send,    *)
(* receive, range, close and select on a Go channel that the interpreter   *)
(* protects with a closed flag, a `closing` broadcast and a count of the   *)
(* sends in progress, so that the Go channel itself is never closed under  *)
(* a sender (the Go runtime would panic and take the whole shell down).    *)
(*                                                                         *)
(* Send, receive and select share one life cycle and are one operation     *)
(* with a sequence of arms here: register the send arms (beginSend), look  *)
(* at the context, probe without blocking, announce that the task is about *)
(* to block, block, and release the registrations (endSend).  A critical   *)
(* section of bashPPChannel.mu is one step.  The Go runtime's channel is   *)
(* external: an event that makes a parked select ready completes it in the *)
(* same step, which is what the runtime's hand-off does.                   *)
(***************************************************************************)
EXTENDS Naturals, Sequences, FiniteSets

CONSTANTS
    Procs,      \* the owner of the File Run and its tasks
    Tasks,      \* the tasks among them (bashPPGoTask)
    Chans,      \* the channels the program made
    NilChan,    \* a nil channel operand: never ready, Go source only
    Capacity,   \* Capacity[c]: the capacity given to make(chan T, n)
    Selects     \* the selects the program may run: [arms, def]

ASSUME ChannelAssumption ==
    /\ IsFiniteSet(Procs)
    /\ Tasks \subseteq Procs
    /\ NilChan \notin Chans
    /\ Capacity \in [Chans -> Nat]

Arm == [dir : {"send", "recv"}, ch : Chans \cup {NilChan}]

ASSUME SelectsAssumption ==
    /\ Selects \subseteq [arms : Seq(Arm), def : BOOLEAN]

VARIABLES
    goSource,   \* r.bashPPGoSource: the profile of the run, set before it starts
    queued,     \* queued[c]: how many values the Go channel holds
    goClosed,   \* goClosed[c]: close(c.ch) ran
    closed,     \* closed[c]: c.closed, and c.closing is closed
    active,     \* active[c]: c.active
    held,       \* held[c]: the registrations <<p, i>> that owe an endSend
    cancelled,  \* the task group's context is done
    pc,         \* where each process is in its operation
    op,         \* the operation: kind, arms, whether select has a default
    next,       \* the next arm to evaluate and register
    off,        \* send arms of a Go-source select nilled by a closed channel
    outcome,    \* how the operation ended
    took        \* history: arms of the operation whose value a channel took

chanVars == <<queued, goClosed, closed, active, held>>
procVars == <<pc, op, next, off, outcome, took>>
vars == <<goSource, chanVars, procVars, cancelled>>

Kinds == {"none", "send", "recv", "select", "close"}

PCs == {"idle", "eval", "check", "probe", "arm", "block", "parked",
        "release", "closing", "asleep"}

\* "pending" until the operation is decided; "closed" is bashPPClosedSend or
\* a close of a closed or nil channel, "error" an operand that did not evaluate.
Outcomes == {"pending", "sent", "received", "eof", "default", "closed",
             "canceled", "error", "deadlock", "ok"}

NoOp == [kind |-> "none", arms |-> << >>, def |-> FALSE]

ArmsOf(p) == DOMAIN op[p].arms

\* Arm i of p is still offered to the Go select, in direction dir on channel c.
Offers(p, i, dir, c) ==
    /\ i \in ArmsOf(p) \ off[p]
    /\ op[p].arms[i].dir = dir
    /\ op[p].arms[i].ch = c

\* The processes parked in a Go select that offers dir on channel c.
Parked(dir, c) ==
    {q \in Procs : pc[q] = "parked" /\ \E j \in ArmsOf(q) : Offers(q, j, dir, c)}

-----------------------------------------------------------------------------
Init ==
    /\ goSource \in BOOLEAN
    /\ queued = [c \in Chans |-> 0]
    /\ goClosed = [c \in Chans |-> FALSE]
    /\ closed = [c \in Chans |-> FALSE]
    /\ active = [c \in Chans |-> 0]
    /\ held = [c \in Chans |-> {}]
    /\ cancelled = FALSE
    /\ pc = [p \in Procs |-> "idle"]
    /\ op = [p \in Procs |-> NoOp]
    /\ next = [p \in Procs |-> 1]
    /\ off = [p \in Procs |-> {}]
    /\ outcome = [p \in Procs |-> "pending"]
    /\ took = [p \in Procs |-> {}]

\* A statement starts and evaluates its operands.
Start(p, kind, arms, def) ==
    /\ pc[p] = "idle"
    /\ op' = [op EXCEPT ![p] = [kind |-> kind, arms |-> arms, def |-> def]]
    /\ pc' = [pc EXCEPT ![p] = "eval"]
    /\ UNCHANGED <<goSource, chanVars, cancelled, next, off, outcome, took>>

Operand(c) == c \in Chans \/ (goSource /\ c = NilChan)

BashPPSend(p, c) ==
    /\ Operand(c)
    /\ Start(p, "send", <<[dir |-> "send", ch |-> c]>>, FALSE)

BashPPReceive(p, c) ==
    /\ Operand(c)
    /\ Start(p, "recv", <<[dir |-> "recv", ch |-> c]>>, FALSE)

BashPPSelect(p, s) ==
    /\ \A i \in DOMAIN s.arms : Operand(s.arms[i].ch)
    /\ Start(p, "select", s.arms, s.def)

-----------------------------------------------------------------------------
(* Evaluating the operands and registering the sends.                      *)

Decide(p, result) ==
    /\ pc' = [pc EXCEPT ![p] = "release"]
    /\ outcome' = [outcome EXCEPT ![p] = result]

\* c.beginSend() returned true: the send is counted.
BeginSend(p, i, c) ==
    /\ ~closed[c]
    /\ active' = [active EXCEPT ![c] = @ + 1]
    /\ held' = [held EXCEPT ![c] = @ \cup {<<p, i>>}]
    /\ next' = [next EXCEPT ![p] = i + 1]
    /\ UNCHANGED <<pc, off, outcome>>

\* c.beginSend() returned false.  A send statement and a shell select give up;
\* a Go-source select nils its send arms on c and keeps their closing cases.
RefuseSend(p, i, c) ==
    /\ closed[c]
    /\ UNCHANGED <<active, held>>
    /\ IF op[p].kind = "select" /\ goSource
       THEN /\ off' = [off EXCEPT ![p] = @ \cup
                        {j \in ArmsOf(p) : op[p].arms[j] = [dir |-> "send", ch |-> c]}]
            /\ next' = [next EXCEPT ![p] = i + 1]
            /\ UNCHANGED <<pc, outcome>>
       ELSE /\ Decide(p, "closed")
            /\ UNCHANGED <<next, off>>

\* A receive arm, or an operand that is a nil channel, has nothing to count.
SkipArm(p, i) ==
    /\ next' = [next EXCEPT ![p] = i + 1]
    /\ UNCHANGED <<active, held, pc, off, outcome>>

RegisterArm(p) ==
    /\ pc[p] = "eval"
    /\ next[p] \in ArmsOf(p)
    /\ LET i == next[p]
           c == op[p].arms[i].ch
       IN IF op[p].arms[i].dir = "send" /\ c \in Chans
          THEN BeginSend(p, i, c) \/ RefuseSend(p, i, c)
          ELSE SkipArm(p, i)
    /\ UNCHANGED <<goSource, queued, goClosed, closed, cancelled, op, took>>

\* A payload or an operand does not evaluate.  Go source evaluates all of them
\* before it registers any; the shell profile registers arm by arm.
OperandError(p) ==
    /\ pc[p] = "eval"
    /\ next[p] \in ArmsOf(p)
    /\ goSource => next[p] = 1
    /\ Decide(p, "error")
    /\ UNCHANGED <<goSource, chanVars, cancelled, op, next, off, took>>

\* A shell operand that is no channel of the group, or not for this direction,
\* cancels the group: every parked select completes through its Done case.
MalformedOperand(p) ==
    /\ ~goSource
    /\ pc[p] = "eval"
    /\ next[p] \in ArmsOf(p)
    /\ cancelled' = TRUE
    /\ pc' = [q \in Procs |-> IF q = p \/ pc[q] = "parked" THEN "release" ELSE pc[q]]
    /\ outcome' = [q \in Procs |-> IF q = p THEN "error"
                                   ELSE IF pc[q] = "parked" THEN "canceled" ELSE outcome[q]]
    /\ UNCHANGED <<goSource, chanVars, op, next, off, took>>

\* select {} goes straight to its block; everything else looks at the context.
Evaluated(p) ==
    /\ pc[p] = "eval"
    /\ next[p] \notin ArmsOf(p)
    /\ pc' = [pc EXCEPT ![p] =
                IF ArmsOf(p) = {} /\ ~op[p].def THEN "arm" ELSE "check"]
    /\ UNCHANGED <<goSource, chanVars, cancelled, op, next, off, outcome, took>>

CheckContext(p) ==
    /\ pc[p] = "check"
    /\ \/ cancelled /\ Decide(p, "canceled")
       \/ ~cancelled /\ pc' = [pc EXCEPT ![p] = "probe"] /\ UNCHANGED outcome
    /\ UNCHANGED <<goSource, chanVars, cancelled, op, next, off, took>>

-----------------------------------------------------------------------------
(* One pass of a Go select (external: the runtime's chansend, chanrecv and *)
(* selectgo, and reflect.Select over the same cases).                      *)

\* Process p's arm i sends: to a parked receiver, else into the buffer.
SendReady(p, i, c) ==
    /\ Offers(p, i, "send", c)
    /\ c \in Chans
    /\ \/ Parked("recv", c) # {}
       \/ queued[c] < Capacity[c]

SendCase(p, i, c) ==
    /\ SendReady(p, i, c)
    /\ took' = [took EXCEPT ![p] = @ \cup {i}]
    /\ IF Parked("recv", c) # {}
       THEN \E q \in Parked("recv", c) :
              /\ pc' = [pc EXCEPT ![p] = "release", ![q] = "release"]
              /\ outcome' = [outcome EXCEPT ![p] = "sent", ![q] = "received"]
              /\ UNCHANGED queued
       ELSE /\ Decide(p, "sent")
            /\ queued' = [queued EXCEPT ![c] = @ + 1]

RecvReady(p, i, c) ==
    /\ Offers(p, i, "recv", c)
    /\ c \in Chans
    /\ queued[c] # 0 \/ Parked("send", c) # {} \/ goClosed[c]

\* Process p's arm i receives: the head of the queue (a parked sender then
\* moves its message in), else from a parked sender, else the closed zero.
RecvCase(p, i, c) ==
    /\ RecvReady(p, i, c)
    /\ IF Parked("send", c) # {}
       THEN \E q \in Parked("send", c) : \E j \in ArmsOf(q) :
              /\ Offers(q, j, "send", c)
              /\ pc' = [pc EXCEPT ![p] = "release", ![q] = "release"]
              /\ outcome' = [outcome EXCEPT ![p] = "received", ![q] = "sent"]
              /\ took' = [took EXCEPT ![q] = @ \cup {j}]
              /\ UNCHANGED queued
       ELSE /\ Decide(p, IF queued[c] # 0 THEN "received" ELSE "eof")
            /\ queued' = [queued EXCEPT ![c] = IF @ = 0 THEN 0 ELSE @ - 1]
            /\ UNCHANGED took

\* The closing case that stands beside every send arm, nilled or not.
ClosingReady(p, i) ==
    /\ i \in ArmsOf(p)
    /\ op[p].arms[i].dir = "send"
    /\ op[p].arms[i].ch \in Chans
    /\ closed[op[p].arms[i].ch]

ClosingCase(p, i) ==
    /\ ClosingReady(p, i)
    /\ Decide(p, "closed")
    /\ UNCHANGED <<queued, took>>

CanceledCase(p) ==
    /\ cancelled
    /\ Decide(p, "canceled")
    /\ UNCHANGED <<queued, took>>

ReadyCase(p) ==
    \/ \E i \in ArmsOf(p) : \/ SendCase(p, i, op[p].arms[i].ch)
                            \/ RecvCase(p, i, op[p].arms[i].ch)
                            \/ ClosingCase(p, i)
    \/ CanceledCase(p)

Ready(p) ==
    \/ \E i \in ArmsOf(p) : \/ SendReady(p, i, op[p].arms[i].ch)
                            \/ RecvReady(p, i, op[p].arms[i].ch)
                            \/ ClosingReady(p, i)
    \/ cancelled

\* The nonblocking select: a ready case, else the program's default, else go
\* on to announce the block.
Probe(p) ==
    /\ pc[p] = "probe"
    /\ \/ ReadyCase(p)
       \/ /\ ~Ready(p)
          /\ IF op[p].def THEN Decide(p, "default")
                          ELSE pc' = [pc EXCEPT ![p] = "arm"] /\ UNCHANGED outcome
          /\ UNCHANGED <<queued, took>>
    /\ UNCHANGED <<goSource, goClosed, closed, active, held, cancelled, op, next, off>>

\* bashPPArmBeforeBlock: a task looks at the context, and so does an owner that
\* carries a blocking observer; bashPPDeadlockIfNoTasks: the owner of a
\* Go-source run may instead learn that no task is left to wake it.
ArmBeforeBlock(p) ==
    /\ pc[p] = "arm"
    /\ \/ cancelled /\ Decide(p, "canceled")
       \/ p \notin Tasks /\ goSource /\ ~cancelled /\ Decide(p, "deadlock")
       \/ /\ p \in Tasks => ~cancelled
          /\ pc' = [pc EXCEPT ![p] = "block"]
          /\ UNCHANGED outcome
    /\ UNCHANGED <<goSource, chanVars, cancelled, op, next, off, took>>

\* The blocking select: a ready case at once, else parked on all of them.
Block(p) ==
    /\ pc[p] = "block"
    /\ \/ ReadyCase(p)
       \/ /\ ~Ready(p)
          /\ pc' = [pc EXCEPT ![p] = "parked"]
          /\ UNCHANGED <<outcome, queued, took>>
    /\ UNCHANGED <<goSource, goClosed, closed, active, held, cancelled, op, next, off>>

-----------------------------------------------------------------------------
(* Leaving an operation.                                                   *)

\* Mutant of EndSend: the last sender does not broadcast.
EndSendSilent(p, c, i) ==
    /\ pc[p] = "release"
    /\ <<p, i>> \in held[c]
    /\ active' = [active EXCEPT ![c] = @ - 1]
    /\ held' = [held EXCEPT ![c] = @ \ {<<p, i>>}]
    /\ UNCHANGED <<goSource, queued, goClosed, closed, cancelled, pc, op, next, off,
                   outcome, took>>

\* c.endSend(): the last one broadcasts to closers waiting on c.changed.
EndSend(p, c, i) ==
    /\ pc[p] = "release"
    /\ <<p, i>> \in held[c]
    /\ active' = [active EXCEPT ![c] = @ - 1]
    /\ held' = [held EXCEPT ![c] = @ \ {<<p, i>>}]
    /\ pc' = [q \in Procs |->
                IF active'[c] = 0 /\ pc[q] = "asleep" /\ op[q].arms[1].ch = c
                THEN "closing" ELSE pc[q]]
    /\ UNCHANGED <<goSource, queued, goClosed, closed, cancelled, op, next, off, outcome,
                   took>>

Return(p) ==
    /\ pc[p] = "release"
    /\ \A c \in Chans : \A i \in ArmsOf(p) : <<p, i>> \notin held[c]
    /\ pc' = [pc EXCEPT ![p] = "idle"]
    /\ op' = [op EXCEPT ![p] = NoOp]
    /\ next' = [next EXCEPT ![p] = 1]
    /\ off' = [off EXCEPT ![p] = {}]
    /\ outcome' = [outcome EXCEPT ![p] = "pending"]
    /\ took' = [took EXCEPT ![p] = {}]
    /\ UNCHANGED <<goSource, chanVars, cancelled>>

-----------------------------------------------------------------------------
(* Closing.                                                                *)

\* Mutant of WakeSenders: a parked send does not listen to c.closing.
WakeNoSenders(c) == {}

\* close(c.closing) wakes the senders parked beside it.
WakeSenders(c) ==
    {p \in Procs : pc[p] = "parked" /\ \E i \in ArmsOf(p) :
                     op[p].arms[i] = [dir |-> "send", ch |-> c]}

\* Mutant of FinishOrSleep: close does not wait for the senders in progress.
FinishAtOnce(p, c, woken) ==
    /\ goClosed' = [goClosed EXCEPT ![c] = TRUE]
    /\ pc' = [q \in Procs |-> IF q \in {p} \cup woken \cup Parked("recv", c)
                              THEN "release" ELSE pc[q]]
    /\ outcome' = [q \in Procs |-> IF q = p THEN "ok"
                                   ELSE IF q \in woken THEN "closed"
                                   ELSE IF q \in Parked("recv", c) THEN "eof"
                                   ELSE outcome[q]]

\* The rest of c.close() once c.closed is set: wait, or close the Go channel,
\* which completes the receivers parked on it.
\* `woken` are the senders that close(c.closing) completes in the same step.
FinishOrSleep(p, c, woken) ==
    IF active[c] # 0
    THEN /\ pc' = [q \in Procs |-> IF q = p THEN "asleep"
                                   ELSE IF q \in woken THEN "release" ELSE pc[q]]
         /\ outcome' = [q \in Procs |-> IF q \in woken THEN "closed" ELSE outcome[q]]
         /\ UNCHANGED goClosed
    ELSE /\ goClosed' = [goClosed EXCEPT ![c] = TRUE]
         /\ pc' = [q \in Procs |-> IF q \in {p} \cup woken \cup Parked("recv", c)
                                   THEN "release" ELSE pc[q]]
         /\ outcome' = [q \in Procs |-> IF q = p THEN "ok"
                                        ELSE IF q \in woken THEN "closed"
                                        ELSE IF q \in Parked("recv", c) THEN "eof"
                                        ELSE outcome[q]]

\* Mutant of BashPPClose: no check that the channel is already closed.
BashPPCloseAgain(p, c) ==
    /\ c \in Chans
    /\ pc[p] = "idle"
    /\ op' = [op EXCEPT ![p] = [kind |-> "close", def |-> FALSE,
                                arms |-> <<[dir |-> "recv", ch |-> c]>>]]
    /\ closed' = [closed EXCEPT ![c] = TRUE]
    /\ FinishOrSleep(p, c, WakeSenders(c))
    /\ UNCHANGED <<goSource, queued, active, held, cancelled, next, off, took>>

\* The close statement: c.close() refuses a channel that is already closed.
BashPPClose(p, c) ==
    /\ Operand(c)
    /\ pc[p] = "idle"
    /\ op' = [op EXCEPT ![p] = [kind |-> "close", def |-> FALSE,
                                arms |-> <<[dir |-> "recv", ch |-> c]>>]]
    /\ IF c = NilChan \/ closed[c]
       THEN /\ Decide(p, "closed")
            /\ UNCHANGED <<goClosed, closed>>
       ELSE /\ closed' = [closed EXCEPT ![c] = TRUE]
            /\ FinishOrSleep(p, c, WakeSenders(c))
    /\ UNCHANGED <<goSource, queued, active, held, cancelled, next, off, took>>

\* A closer woken by the broadcast looks at c.active again.
CloseWoken(p) ==
    /\ pc[p] = "closing"
    /\ FinishOrSleep(p, op[p].arms[1].ch, {})
    /\ UNCHANGED <<goSource, queued, closed, active, held, cancelled, op, next, off, took>>

\* Mutant of Cancel: an operation that has committed still reports canceled.
CancelLate ==
    /\ ~cancelled
    /\ cancelled' = TRUE
    /\ pc' = [p \in Procs |-> IF pc[p] = "parked" THEN "release" ELSE pc[p]]
    /\ outcome' = [p \in Procs |-> IF pc[p] \in {"parked", "release"} THEN "canceled"
                                   ELSE outcome[p]]
    /\ UNCHANGED <<goSource, chanVars, op, next, off, took>>

\* Mutant of Cancel: a blocked operation does not listen to the context.
CancelUnheard ==
    /\ ~cancelled
    /\ cancelled' = TRUE
    /\ UNCHANGED <<goSource, chanVars, procVars>>

\* The group's context is canceled (a failure, the end of the File Run, the
\* host): every parked select completes through its Done case.
Cancel ==
    /\ ~cancelled
    /\ cancelled' = TRUE
    /\ pc' = [p \in Procs |-> IF pc[p] = "parked" THEN "release" ELSE pc[p]]
    /\ outcome' = [p \in Procs |-> IF pc[p] = "parked" THEN "canceled" ELSE outcome[p]]
    /\ UNCHANGED <<goSource, chanVars, op, next, off, took>>

Begin(p) ==
    \/ \E c \in Chans \cup {NilChan} : BashPPSend(p, c)
    \/ \E c \in Chans \cup {NilChan} : BashPPReceive(p, c)
    \/ \E c \in Chans \cup {NilChan} : BashPPClose(p, c)
    \/ \E s \in Selects : BashPPSelect(p, s)

Step(p) ==
    \/ RegisterArm(p)
    \/ OperandError(p)
    \/ MalformedOperand(p)
    \/ Evaluated(p)
    \/ CheckContext(p)
    \/ Probe(p)
    \/ ArmBeforeBlock(p)
    \/ Block(p)
    \/ \E c \in Chans : \E i \in ArmsOf(p) : EndSend(p, c, i)
    \/ Return(p)
    \/ CloseWoken(p)

Next == Cancel \/ \E p \in Procs : Begin(p) \/ Step(p)

Spec == Init /\ [][Next]_vars

\* A goroutine that can run does run: every step inside an operation is
\* local work of a live goroutine.  Starting an operation and cancelling are
\* the program's choice and carry no fairness.
FairSpec == Spec /\ \A p \in Procs : WF_vars(Step(p))

-----------------------------------------------------------------------------
(* Properties.                                                             *)

\* Every variable has its type; c.active is never below zero.
TypeOK ==
    /\ goSource \in BOOLEAN
    /\ queued \in [Chans -> Nat]
    /\ goClosed \in [Chans -> BOOLEAN]
    /\ closed \in [Chans -> BOOLEAN]
    /\ active \in [Chans -> Nat]
    /\ held \in [Chans -> SUBSET (Procs \X Nat)]
    /\ cancelled \in BOOLEAN
    /\ pc \in [Procs -> PCs]
    /\ op \in [Procs -> [kind : Kinds, arms : Seq(Arm), def : BOOLEAN]]
    /\ next \in [Procs -> Nat \ {0}]
    /\ off \in [Procs -> SUBSET Nat]
    /\ outcome \in [Procs -> Outcomes]
    /\ took \in [Procs -> SUBSET Nat]

Selecting == {"check", "probe", "arm", "block", "parked"}

\* No Go select ever runs, or stays parked, with a send arm on a Go channel
\* that close() has closed: the runtime would panic the whole interpreter.
\* This is what closed, closing, active and changed are for.
NoSendOnClosed ==
    \A p \in Procs : pc[p] \in Selecting =>
        \A i \in ArmsOf(p) : \A c \in Chans :
            Offers(p, i, "send", c) => ~goClosed[c]

Closer(p, c) ==
    /\ pc[p] \in {"closing", "asleep"}
    /\ op[p].arms[1].ch = c

\* close(c.ch) runs at most once: while a closer is waiting for the senders to
\* leave the Go channel is open, and no second closer gets past the check.
OneCloser ==
    \A c \in Chans : \A p \in Procs : Closer(p, c) =>
        /\ closed[c] /\ ~goClosed[c]
        /\ \A q \in Procs : Closer(q, c) => q = p

\* A closer asleep on c.changed always has a registered sender whose endSend
\* will broadcast: no wakeup is lost between the count and the wait.
NoLostBroadcast ==
    \A p \in Procs : pc[p] = "asleep" =>
        /\ active[op[p].arms[1].ch] # 0
        /\ held[op[p].arms[1].ch] # {}

\* A statement's result is the truth about the channel: it reports a send
\* exactly when a channel took one of its values, a select commits at most one
\* of its arms, and a canceled, refused or defaulted one left nothing behind.
HonestOutcome ==
    \A p \in Procs :
        Cardinality(took[p]) = IF outcome[p] = "sent" THEN 1 ELSE 0

\* A close that waits for senders does return: the closing broadcast and the
\* closing case beside every send arm bring each registered sender back to
\* its endSend, and no new one registers.
CloseReturns ==
    \A p \in Procs : pc[p] \in {"closing", "asleep"} ~> pc[p] = "idle"

\* After the group is canceled no channel operation stays blocked, on a nil
\* channel, in select {} or in close() either.
CancelReturns ==
    \A p \in Procs : cancelled /\ pc[p] # "idle" ~> pc[p] = "idle"

-----------------------------------------------------------------------------
(* The inductive invariant behind the safety properties.                   *)

\* c.active counts the registrations that still owe an endSend.
ActiveCounts ==
    \A c \in Chans : IsFiniteSet(held[c]) /\ active[c] = Cardinality(held[c])

\* A registration belongs to a send arm of an operation that is under way.
Registered(c, x) ==
    /\ x[2] \in ArmsOf(x[1])
    /\ op[x[1]].arms[x[2]] = [dir |-> "send", ch |-> c]
    /\ pc[x[1]] \in Selecting \cup {"eval", "release"}
    /\ pc[x[1]] = "eval" => x[2] < next[x[1]]

HeldByArms == \A c \in Chans : \A x \in held[c] : Registered(c, x)

\* Every send arm that a Go select may still be given is registered.
OfferedIsHeld ==
    \A p \in Procs : \A c \in Chans : \A i \in ArmsOf(p) \ off[p] :
        /\ op[p].arms[i] = [dir |-> "send", ch |-> c]
        /\ \/ pc[p] \in Selecting
           \/ pc[p] = "eval" /\ i < next[p]
        => <<p, i>> \in held[c]

\* The Go channel is closed only after closed is set and the last sender left.
ClosedIsEmpty ==
    \A c \in Chans : goClosed[c] => closed[c] /\ held[c] = {}

\* An idle process starts its next operation at the first arm.
IdleIsClean == \A p \in Procs : pc[p] = "idle" => next[p] = 1

\* A waiting closer waits on a real channel, and sleeps only beside a sender.
ClosersWait ==
    \A p \in Procs : pc[p] \in {"closing", "asleep"} =>
        /\ op[p].arms \in Seq(Arm) /\ op[p].arms # << >>
        /\ op[p].arms[1].ch \in Chans
        /\ pc[p] = "asleep" => active[op[p].arms[1].ch] # 0

IInv ==
    /\ TypeOK
    /\ ActiveCounts
    /\ HeldByArms
    /\ OfferedIsHeld
    /\ ClosedIsEmpty
    /\ IdleIsClean
    /\ ClosersWait
    /\ OneCloser

\* An operation is decided in the step that sends it to its release, so until
\* then no channel has taken a value of it; a decided one has what it reports.
Decided ==
    \A p \in Procs :
        /\ pc[p] # "release" => outcome[p] = "pending"
        /\ outcome[p] # "sent" => took[p] = {}
        /\ outcome[p] = "sent" => \E i \in took[p] : took[p] = {i}

\* The invariant behind HonestOutcome.
HInv == TypeOK /\ Decided
=============================================================================
