--------------------------- MODULE StructuredGroup ---------------------------
(***************************************************************************)
(* What a structured task group promises to the program that uses it,      *)
(* without locks, goroutines or handshakes.  Tasks are launched in the     *)
(* order of their ordinals, and only while the group is neither canceled   *)
(* nor joined; a failure is recorded, cancels the group and ends its task  *)
(* in one step; the group is joined once, when no task is live, and is     *)
(* final from then on.  BashPPTaskGroup (the interpreter) and              *)
(* ShellrtSession (the runtime of compiled programs) implement it.         *)
(***************************************************************************)
EXTENDS Naturals

CONSTANT Tasks      \* the ordinals, 0 .. n - 1

VARIABLES
    phase,      \* phase[t]: "none", then "live", then "ended"
    failed,     \* the tasks whose failure is recorded
    canceled,   \* the group's context is done
    joined      \* the join has returned

vars == <<phase, failed, canceled, joined>>

Init ==
    /\ phase = [t \in Tasks |-> "none"]
    /\ failed = {}
    /\ canceled = FALSE
    /\ joined = FALSE

Move(t, from, to) == phase[t] = from /\ phase' = [phase EXCEPT ![t] = to]

Launch(t) ==
    /\ ~canceled /\ ~joined
    /\ \A u \in Tasks : u > t => phase[u] = "none"
    /\ Move(t, "none", "live")
    /\ UNCHANGED <<failed, canceled, joined>>

End(t) ==
    /\ Move(t, "live", "ended")
    /\ UNCHANGED <<failed, canceled, joined>>

Fail(t) ==
    /\ Move(t, "live", "ended")
    /\ failed' = failed \cup {t}
    /\ canceled' = TRUE
    /\ UNCHANGED joined

Cancel ==
    /\ canceled' = TRUE
    /\ UNCHANGED <<phase, failed, joined>>

Join ==
    /\ ~joined
    /\ \A t \in Tasks : phase[t] # "live"
    /\ joined' = TRUE
    /\ UNCHANGED <<phase, failed, canceled>>

Next ==
    \/ \E t \in Tasks : Launch(t) \/ End(t) \/ Fail(t)
    \/ Cancel \/ Join

Spec == Init /\ [][Next]_vars
=============================================================================
