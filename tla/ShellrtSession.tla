---------------------------- MODULE ShellrtSession ----------------------------
(***************************************************************************)
(* Sessions of the runtime of compiled programs (lower/shellrt).  The      *)
(* program runs on the root session; Session.Go gives every task a session *)
(* of its own, whose group's context is derived from its owner's, so       *)
(* groups nest.  Program.Run, RunSourceTask and the goroutine of           *)
(* Session.Go end a session: cancel, join, close, report to the owner.     *)
(*                                                                         *)
(* A critical section of taskGroup.mu is one step.  A session is used by   *)
(* the goroutine that runs its body, as in the code the compiler emits.    *)
(* Tasks are numbered in the order of their launch, so the ordinals of one *)
(* group are in the order of its tasks.  An error is kept as its           *)
(* class: "nil", "canceled", "deadline" (of a shell that exceeded its      *)
(* shutdown time) or "genuine".                                            *)
(***************************************************************************)
EXTENDS Naturals, FiniteSets

CONSTANT MaxTasks       \* bound: tasks ever launched, in all groups

ASSUME SessionAssumption == MaxTasks \in Nat

Root == 0
Tasks == 1 .. MaxTasks
Sessions == {Root} \cup Tasks

VARIABLES
    source,     \* tasks are RunSourceTask bodies; otherwise plain TaskFuncs
    ext,        \* the context given to the program is done
    next,       \* the tasks launched so far
    owner,      \* owner[t]: the session that launched t
    above,      \* above[s]: s and the sessions whose groups' contexts are above its own
    done,       \* done[s]: the context of s's group is done
    active,     \* g.active
    failures,   \* the tasks with an entry in g.failures
    joined,     \* g.joined
    closed,     \* s.closed
    armed,      \* the session's armReady is closed
    asleep,     \* the session's goroutine sleeps in g.changed.Wait()
    pc, child,  \* where each session's goroutine is, and what it launches
    err,        \* the error a session's goroutine is about to report
    fault       \* history: fault[s] is "genuine" when the body, the clone or the shell
                \* of s failed, and "masked" when its shell did after a cancellation

config == <<source, ext>>
group == <<next, owner, above, active, failures, joined>>
vars == <<config, group, done, closed, armed, asleep, pc, child, err, fault>>

PCs == {"none", "body", "clone", "ready", "blocked", "join", "close", "closejoin",
        "shell", "finish", "arm", "over"}

Errors == {"nil", "canceled", "deadline", "genuine"}

Init ==
    /\ source \in BOOLEAN /\ ext = FALSE
    /\ next = 0
    /\ owner = [t \in Tasks |-> Root]
    /\ above = [s \in Sessions |-> {s}]
    /\ done = [s \in Sessions |-> FALSE]
    /\ active = [s \in Sessions |-> 0]
    /\ failures = [s \in Sessions |-> {}]
    /\ joined = [s \in Sessions |-> FALSE]
    /\ closed = [s \in Sessions |-> FALSE]
    /\ armed = [s \in Sessions |-> FALSE]
    /\ asleep = [s \in Sessions |-> FALSE]
    /\ pc = [s \in Sessions |-> IF s = Root THEN "body" ELSE "none"]
    /\ child = [s \in Sessions |-> Root]
    /\ err = [s \in Sessions |-> "nil"]
    /\ fault = [s \in Sessions |-> "none"]

At(s, from, to) == pc[s] = from /\ pc' = [pc EXCEPT ![s] = to]

Set(f, s) == [f EXCEPT ![s] = TRUE]

\* Mutant of Canceled: the group of s, and not those below it.
CanceledHere(s) == [u \in Sessions |-> done[u] \/ u = s]

\* A context's cancellation reaches every context derived from it.
Canceled(s) == [u \in Sessions |-> done[u] \/ s \in above[u]]

Launched == 1 .. next

-----------------------------------------------------------------------------
(* Errors.                                                                 *)

\* failureRank
Rank(e) == CASE e = "nil" -> 0 [] e \in {"canceled", "deadline"} -> 1 [] e = "genuine" -> 2

\* rankFailures: a tie keeps the body's.
RankFailures(bodyErr, taskErr) == IF Rank(taskErr) > Rank(bodyErr) THEN taskErr ELSE bodyErr

\* primaryFailureLocked: a genuine failure before a canceled one, then the
\* lowest ordinal; of the error we keep its class.
Primary(s) ==
    IF failures[s] = {} THEN "nil"
    ELSE err[CHOOSE t \in failures[s] : \A u \in failures[s] :
                \/ Rank(err[t]) > Rank(err[u])
                \/ Rank(err[t]) = Rank(err[u]) /\ t <= u]

\* withoutShutdownCancellation
WithoutShutdown(e) == IF e = "canceled" /\ ~ext THEN "nil" ELSE e

\* Mutant of Recorded: the failed task does not cancel its group.
RecordedOnly(t, e) ==
    /\ failures' = IF e = "nil" THEN failures
                   ELSE [failures EXCEPT ![owner[t]] = @ \cup {t}]
    /\ active' = [active EXCEPT ![owner[t]] = @ - 1]
    /\ asleep' = [asleep EXCEPT ![owner[t]] = @ /\ active'[owner[t]] # 0]
    /\ UNCHANGED done

\* taskGroup.finish: record, cancel the group if the failure is genuine, count
\* down and wake the joiner.
Recorded(t, e) ==
    /\ failures' = IF e = "nil" THEN failures
                   ELSE [failures EXCEPT ![owner[t]] = @ \cup {t}]
    /\ done' = IF e = "genuine" THEN Canceled(owner[t]) ELSE done
    /\ active' = [active EXCEPT ![owner[t]] = @ - 1]
    /\ asleep' = [asleep EXCEPT ![owner[t]] = @ /\ active'[owner[t]] # 0]

-----------------------------------------------------------------------------
(* Session.Go, called by the body of s.                                    *)

\* A joined group, or one whose context is done, returns a failed task handle
\* and records nothing; otherwise the task is counted.
Go(s) ==
    /\ At(s, "body", "clone")
    /\ ~joined[s] /\ ~done[s]
    /\ next < MaxTasks
    /\ next' = next + 1
    /\ owner' = [owner EXCEPT ![next'] = s]
    /\ above' = [above EXCEPT ![next'] = above[s] \cup {next'}]
    /\ active' = [active EXCEPT ![s] = @ + 1]
    /\ child' = [child EXCEPT ![s] = next']
    /\ UNCHANGED <<config, failures, joined, done, closed, armed, asleep, err, fault>>

\* newChild fails to clone the shell: the launcher reports for the task.
GoUncloned(s) ==
    /\ At(s, "clone", "body")
    /\ err' = [err EXCEPT ![child[s]] = "genuine"]
    /\ fault' = [fault EXCEPT ![child[s]] = "genuine"]
    /\ Recorded(child[s], "genuine")
    /\ UNCHANGED <<config, next, owner, above, joined, closed, armed, child>>

\* The child's group is derived from the task's context, which may be done by
\* now: the task starts even then, and finds out by itself.
GoStart(s) ==
    /\ pc[s] = "clone"
    /\ pc' = [pc EXCEPT ![s] = "ready", ![child[s]] = "body"]
    /\ UNCHANGED <<config, group, done, closed, armed, asleep, child, err, fault>>

\* The handshake, or the end of the group.
GoReady(s) ==
    /\ At(s, "ready", "body")
    /\ armed[child[s]] \/ done[s]
    /\ UNCHANGED <<config, group, done, closed, armed, asleep, child, err, fault>>

-----------------------------------------------------------------------------
(* The body of a session.                                                  *)

\* A channel operation that is not ready, Blocking, or a shell region that
\* blocks: armed first.
BodyBlocks(s) ==
    /\ At(s, "body", "blocked")
    /\ ~done[s]
    /\ armed' = Set(armed, s)
    /\ UNCHANGED <<config, group, done, closed, asleep, child, err, fault>>

BodyUnblocked(s) ==
    /\ At(s, "blocked", "body")
    /\ UNCHANGED <<config, group, done, closed, armed, asleep, child, err, fault>>

\* What follows the body: a source task and the program join first.
AfterBody(s) == IF s = Root \/ source THEN "join" ELSE "close"

\* RunSourceTask cancels its group when its body failed, Program.Run always.
EndCancels(s, e) == s = Root \/ (source /\ e # "nil")

EndBody(s, e) ==
    /\ pc' = [pc EXCEPT ![s] = AfterBody(s)]
    /\ err' = [err EXCEPT ![s] = e]
    /\ done' = IF EndCancels(s, e) THEN Canceled(s) ELSE done
    /\ UNCHANGED <<config, group, closed, armed, asleep, child>>

BodyReturns(s) == pc[s] = "body" /\ EndBody(s, "nil") /\ UNCHANGED fault

\* An error or a panic, which runTaskBody and runBody recover.
BodyFails(s) == pc[s] = "body" /\ EndBody(s, "genuine") /\ fault' = [fault EXCEPT ![s] = "genuine"]

\* A channel operation observes the context: ChannelAbort unwinds the body.
BodyCanceled(s) ==
    /\ pc[s] \in {"body", "blocked"}
    /\ done[s]
    /\ EndBody(s, "canceled")
    /\ UNCHANGED fault

-----------------------------------------------------------------------------
(* Join and Close.                                                         *)

\* Mutant of JoinDone: the join looks at the group's failures only.
JoinAtOnce(s) == TRUE

\* for g.active != 0
JoinDone(s) == active[s] = 0

\* Session.Join up to its Wait, with the arm that precedes it.
JoinWaits(s) ==
    /\ pc[s] \in {"join", "closejoin"}
    /\ ~asleep[s] /\ ~JoinDone(s)
    /\ armed' = Set(armed, s)
    /\ asleep' = Set(asleep, s)
    /\ UNCHANGED <<config, group, done, closed, pc, child, err, fault>>

\* Mutant of SourceJoin: the body's error stands.
SourceJoinUnranked(s) ==
    /\ At(s, "join", "close")
    /\ ~asleep[s] /\ JoinDone(s)
    /\ joined' = Set(joined, s)
    /\ err' = [err EXCEPT ![s] = IF @ = "nil" THEN Primary(s) ELSE @]
    /\ UNCHANGED <<config, next, owner, above, active, failures, done, closed, armed, asleep,
                   child, fault>>

\* The join of RunSourceTask and of Program.Run, ranked with the body's error.
SourceJoin(s) ==
    /\ At(s, "join", "close")
    /\ ~asleep[s] /\ JoinDone(s)
    /\ joined' = Set(joined, s)
    /\ err' = [err EXCEPT ![s] =
                 RankFailures(@, IF s = Root THEN WithoutShutdown(Primary(s)) ELSE Primary(s))]
    /\ UNCHANGED <<config, next, owner, above, active, failures, done, closed, armed, asleep,
                   child, fault>>

\* Session.Close: a session closed before returns at once; cancel the group.
Close(s) ==
    /\ At(s, "close", "closejoin")
    /\ ~closed[s]
    /\ closed' = Set(closed, s)
    /\ done' = Canceled(s)
    /\ UNCHANGED <<config, group, armed, asleep, child, err, fault>>

\* The join of Close, a second one for the program and a source task.
CloseJoin(s) ==
    /\ At(s, "closejoin", "shell")
    /\ ~asleep[s] /\ JoinDone(s)
    /\ joined' = Set(joined, s)
    /\ UNCHANGED <<config, next, owner, above, active, failures, done, closed, armed, asleep,
                   child, err, fault>>

\* The backend's EXIT trap blocks: CloseWithBlocking arms.
ShellArms(s) ==
    /\ pc[s] = "shell" /\ ~armed[s]
    /\ armed' = Set(armed, s)
    /\ UNCHANGED <<config, group, done, closed, asleep, pc, child, err, fault>>

\* What Close returns: the failure its join found, or else the backend's; the
\* program drops it if it is the cancellation of its own shutdown.
CloseResult(s, shellErr) ==
    LET e == IF Primary(s) # "nil" THEN Primary(s) ELSE shellErr
    IN  IF s = Root THEN WithoutShutdown(e) ELSE e

\* A cancellation of the session, or of a task below it, stands before the
\* backend's error.
Masks(s) == err[s] # "genuine" /\ {err[s], Primary(s)} \cap {"canceled", "deadline"} # {}

\* The backend is released, and may fail in every session; what Close returns
\* counts only if the session has no error of its own.
ShellClosed(s) ==
    /\ At(s, "shell", IF s = Root THEN "over" ELSE "finish")
    /\ \E shellErr \in {"nil", "deadline", "genuine"} :
         /\ err' = [err EXCEPT ![s] = IF @ # "nil" THEN @ ELSE CloseResult(s, shellErr)]
         /\ fault' = IF shellErr # "genuine" THEN fault
                     ELSE [fault EXCEPT ![s] = IF Masks(s) THEN "masked" ELSE "genuine"]
    /\ UNCHANGED <<config, group, done, closed, armed, asleep, child>>

\* g.finish(t, err) ...
Finish(t) ==
    /\ At(t, "finish", "arm")
    /\ Recorded(t, err[t])
    /\ UNCHANGED <<config, next, owner, above, joined, closed, armed, child, err, fault>>

\* Mutant of FinishArms: a task that never blocked keeps its launcher.
FinishUnarmed(t) ==
    /\ At(t, "arm", "over")
    /\ UNCHANGED <<config, group, done, closed, armed, asleep, child, err, fault>>

\* ... and the last arm.
FinishArms(t) ==
    /\ At(t, "arm", "over")
    /\ armed' = Set(armed, t)
    /\ UNCHANGED <<config, group, done, closed, asleep, child, err, fault>>

\* The context the program was given ends.
HostCancel ==
    /\ ~ext
    /\ ext' = TRUE
    /\ done' = Canceled(Root)
    /\ UNCHANGED <<source, group, closed, armed, asleep, pc, child, err, fault>>

-----------------------------------------------------------------------------
\* What the goroutine of s does by itself: a body that neither blocks nor
\* launches comes to an end.
Step(s) ==
    \/ GoUncloned(s) \/ GoStart(s) \/ GoReady(s)
    \/ BodyReturns(s) \/ BodyFails(s) \/ BodyCanceled(s)
    \/ JoinWaits(s) \/ SourceJoin(s) \/ Close(s) \/ CloseJoin(s)
    \/ ShellArms(s) \/ ShellClosed(s)

TaskEnd(t) == Finish(t) \/ FinishArms(t)

Over == pc[Root] = "over" /\ \A t \in Launched : pc[t] \in {"none", "over"}

Next ==
    \/ \E s \in Sessions : Go(s) \/ BodyBlocks(s) \/ BodyUnblocked(s) \/ Step(s)
    \/ \E t \in Tasks : TaskEnd(t)
    \/ HostCancel
    \/ Over /\ UNCHANGED vars

Spec == Init /\ [][Next]_vars

\* The scheduler runs every goroutine that can run.  Launching, blocking, a
\* peer that ends a block and the host's cancellation carry no fairness.
FairSpec ==
    /\ Spec
    /\ \A s \in Sessions : WF_vars(Step(s))
    /\ \A t \in Tasks : WF_vars(TaskEnd(t))

-----------------------------------------------------------------------------
(* Properties.                                                             *)

TypeOK ==
    /\ source \in BOOLEAN /\ ext \in BOOLEAN
    /\ next \in 0 .. MaxTasks
    /\ owner \in [Tasks -> Sessions]
    /\ above \in [Sessions -> SUBSET Sessions]
    /\ active \in [Sessions -> Nat]
    /\ failures \in [Sessions -> SUBSET Tasks]
    /\ \A f \in {done, joined, closed, armed, asleep} : f \in [Sessions -> BOOLEAN]
    /\ pc \in [Sessions -> PCs]
    /\ child \in [Sessions -> Sessions]
    /\ err \in [Sessions -> Errors]
    /\ fault \in [Sessions -> {"none", "genuine", "masked"}]

\* Join's promise, through all levels: once a session is joined, no task below
\* it, however deep, still runs its body, joins, or closes its shell; and none
\* of them has a group with a task left.
SubtreeOver ==
    \A s \in Sessions : joined[s] =>
        \A t \in Launched : s \in above[t] \ {t} =>
            pc[t] \in {"none", "arm", "over"} /\ active[t] = 0

\* The sessions whose failure no cancellation of their own masks.
origin == {s \in Sessions : fault[s] = "genuine"}

\* The program's outcome: a failure of any body, clone or shell, at any depth
\* and beside any number of canceled siblings, is what Program.Run reports; and
\* a program in which nothing failed and nobody canceled it does not report the
\* cancellation its own shutdown caused.  The one exception, "masked", is a
\* shell that fails to close (its EXIT trap, say) when its session has already
\* ended canceled, or has canceled tasks: Session.Close and its callers keep an
\* error of the backend only if there is no other (task.go:172-174, 304-306,
\* program.go:594-598) and do not rank the two.  Such a failure is lost, and is
\* no reason to report anything else either.
Outcome ==
    source /\ pc[Root] = "over" =>
        /\ origin # {} => err[Root] = "genuine"
        /\ origin = {} /\ ~ext => err[Root] \in {"nil", "deadline"}

\* The same for plain TaskFuncs, of which the comment of primaryFailureLocked
\* says that the reported cause is the task that actually failed.
PlainOutcome == pc[Root] = "over" /\ origin # {} => err[Root] = "genuine"

\* The group of session s as its body sees it.
Group(s) == INSTANCE StructuredGroup WITH
    phase <- [t \in Tasks |->
                IF t > next \/ owner[t] # s THEN "none"
                ELSE IF pc[t] \in {"arm", "over"} \/ (pc[t] = "none" /\ err[t] # "nil")
                     THEN "ended" ELSE "live"],
    failed <- {t \in failures[s] : err[t] = "genuine"},
    canceled <- done[s],
    joined <- joined[s]

\* The group of every session, the root's and a task's, is a structured group.
\* (\A s : Group(s)!Spec, written as one initial condition and one action.)
ImplementsGroup ==
    /\ \A s \in Sessions : Group(s)!Init
    /\ [][\A s \in Sessions : [Group(s)!Next]_(Group(s)!vars)]_vars

\* The end of the program returns, however deep the tasks that are blocked:
\* the cancellation of the root reaches them all.
RunReturns == pc[Root] = "join" ~> pc[Root] = "over"

\* Session.Go returns once its task arms or the group ends.
GoReturns == \A s \in Sessions : pc[s] \in {"clone", "ready"} ~> pc[s] = "body"

-----------------------------------------------------------------------------
(* The inductive invariant of the proofs (ShellrtSessionProofs).           *)

\* A task that has reported to its group; one that could not be cloned never ran.
Ended(t) == pc[t] \in {"arm", "over"} \/ (pc[t] = "none" /\ err[t] # "nil")

LiveOf(s) == {t \in Launched : owner[t] = s /\ ~Ended(t)}

Created == {Root} \cup Launched

InBody == {"body", "clone", "ready", "blocked"}

\* The contexts are a tree: each way up leads through a child of every session
\* above, and only sessions that ran have others below them.
Tree ==
    /\ above[Root] = {Root} /\ pc[Root] # "none"
    /\ \A t \in Launched :
         /\ owner[t] \in Created /\ owner[t] # t
         /\ above[t] = above[owner[t]] \cup {t}
         /\ Root \in above[t] /\ above[t] \subseteq Created
         /\ \A s \in above[t] \ {t} :
               pc[s] # "none" /\ \E c \in above[t] \cap Launched : owner[c] = s
    /\ \A t \in Tasks \ Launched : pc[t] = "none" /\ err[t] = "nil" /\ ~joined[t]
    /\ \A s \in Sessions : s \in above[s]

\* A launcher at work on a clone has a counted task of its own.
Cloning ==
    \A s \in Sessions : pc[s] = "clone" =>
        /\ child[s] \in Launched /\ owner[child[s]] = s
        /\ pc[child[s]] = "none" /\ err[child[s]] = "nil"

ActiveCounts == \A s \in Sessions : active[s] = Cardinality(LiveOf(s))

\* A join waits for the group to be empty, and every session joins before it
\* closes its shell; the program and a source task join before they close.
JoinsFirst ==
    \A s \in Sessions :
        /\ joined[s] => /\ active[s] = 0
                        /\ pc[s] \in {"close", "closejoin", "shell", "finish", "arm", "over"}
        /\ pc[s] \in {"shell", "finish", "arm", "over"} => joined[s]
        /\ (source \/ s = Root) /\ pc[s] \in {"close", "closejoin"} => joined[s]

\* A group keeps exactly the failures of its ended tasks.
FailuresKept ==
    /\ \A s \in Sessions : \A t \in failures[s] :
          t \in Launched /\ owner[t] = s /\ Ended(t) /\ err[t] # "nil"
    /\ \A t \in Launched : Ended(t) /\ err[t] = "genuine" => t \in failures[owner[t]]

\* A genuine error has an origin, and the program's own shutdown is none.
Originates ==
    /\ origin \subseteq Created
    /\ \A o \in origin : err[o] = "genuine" /\ pc[o] \notin InBody
    /\ origin = {} => \A s \in Sessions : err[s] # "genuine"
    /\ pc[Root] \in InBody /\ done[Root] => ext \/ origin # {}
    /\ origin = {} /\ ~ext => err[Root] \in {"nil", "deadline"}

\* A joined session above a failure has taken the failure over.
Reported ==
    source => \A o \in origin : \A s \in above[o] : joined[s] => err[s] = "genuine"

IInv ==
    /\ TypeOK /\ Tree /\ Cloning /\ ActiveCounts /\ JoinsFirst
    /\ SubtreeOver /\ FailuresKept /\ Originates /\ Reported
=============================================================================
