----------------------------- MODULE BashPPFIFO -----------------------------
(***************************************************************************)
(* FIFO opens inside one task group, all of the same inode.  A task's open *)
(* is a rendezvous: it is announced, acquires its descriptor without       *)
(* blocking, registers, and waits for a registered peer of the opposite    *)
(* direction.  A process substitution, and the owner before the group has  *)
(* had a task, take the kernel's blocking open and publish the descriptor  *)
(* afterwards.  A task snapshot registers duplicates.                      *)
(*                                                                         *)
(* A critical section of fifoMu is one step, and so is a system call.      *)
(* External processes are left out: they cannot release a rendezvous.      *)
(***************************************************************************)
EXTENDS Naturals, FiniteSets

CONSTANTS
    Openers,    \* entries opened by bashPPFIFOOpen
    Publishers, \* entries opened by the kernel's blocking open, then published
    Copies,     \* bound: entries made by cloneFIFO
    Reading, Writing    \* the openers and publishers that read, that write

Opens == Openers \cup Publishers
Entries == Opens \cup Copies

ASSUME FIFOAssumption ==
    /\ Openers \cap Publishers = {} /\ Opens \cap Copies = {}
    /\ Reading \cup Writing = Opens

VARIABLES
    pc,         \* the goroutine of an entry
    read, write,    \* the entries with that direction
    file,       \* entries whose own descriptor is open
    probe,      \* openers whose probe is open
    pending,    \* fifoPending
    fifos,      \* the registered entries
    matched,    \* matched, ready is closed
    canceled,   \* c.ctx is done
    joined,     \* history: publishers whose open the kernel has let through
    met,        \* history: openers that held a descriptor together with an opposite one
    early,      \* history: openers released by a publisher before they held a descriptor
    owed,       \* history: openers whose descriptor was open when a publisher's open returned
    silent      \* history: openers that registered after their release, matching nobody,
                \* and the duplicates of them

registry == <<pending, fifos, matched>>
kernel == <<file, probe, joined>>
history == <<met, early, owed, silent>>
vars == <<pc, read, write, registry, kernel, canceled, history>>

Init ==
    /\ pc = [e \in Entries |-> "idle"]
    /\ read = Reading /\ write = Writing
    /\ file = {} /\ probe = {} /\ pending = {} /\ fifos = {}
    /\ matched = Publishers     \* a published entry is made matched
    /\ canceled = FALSE
    /\ joined = {} /\ met = {} /\ early = {} /\ owed = {} /\ silent = {}

Step(e, from, to) == pc[e] = from /\ pc' = [pc EXCEPT ![e] = to]

\* The direction test of fifoMatch; an entry that does both is its own peer.
Opposite(e, f) == (e \in read /\ f \in write) \/ (e \in write /\ f \in read)

\* The open is over and its history no longer of interest.
Forget(e) ==
    /\ met' = met \ {e} /\ early' = early \ {e}
    /\ owed' = owed \ {e} /\ silent' = silent \ {e}

-----------------------------------------------------------------------------
(* The kernel.                                                             *)

\* A descriptor of e is opened.  A blocking open returns once the other end was
\* open while it waited; a probe is a read end too.
Opened(e) ==
    /\ file' = file \cup {e}
    /\ met' = met \cup {f \in file' \cap Openers : Opposite(e, f)}
                  \cup (IF \E f \in file' : Opposite(e, f) THEN {e} \cap Openers ELSE {})
    /\ joined' = joined \cup {p \in file' \cap Publishers : Opposite(e, p)}
                        \cup (IF \/ \E f \in file' : Opposite(e, f)
                                 \/ e \in write /\ probe # {}
                              THEN {e} \cap Publishers ELSE {})

-----------------------------------------------------------------------------
(* bashPPFIFOOpen                                                          *)

Announce(e) ==
    /\ Step(e, "idle", "announced")
    /\ pending' = pending \cup {e}
    /\ UNCHANGED <<read, write, fifos, matched, kernel, canceled, history>>

\* bashPPFIFOAcquire: a reader's only descriptor, or a writer's probe ...
AcquireRead(e) ==
    /\ IF e \in write
       THEN /\ Step(e, "announced", "probed")
            /\ probe' = probe \cup {e}
            /\ joined' = joined \cup (file \cap Publishers \cap write)
            /\ UNCHANGED <<file, met>>
       ELSE Step(e, "announced", "acquired") /\ Opened(e) /\ UNCHANGED probe
    /\ UNCHANGED <<read, write, registry, canceled, early, owed, silent>>

\* ... and then its own.
AcquireWrite(e) ==
    /\ Step(e, "probed", "acquired")
    /\ Opened(e)
    /\ UNCHANGED <<read, write, probe, registry, canceled, early, owed, silent>>

\* A failed system call or the cancellation ends the open; so does a descriptor
\* that cannot be made blocking.
AcquireFails(e) ==
    /\ pc[e] \in {"announced", "probed", "acquired"} /\ pc' = [pc EXCEPT ![e] = "failed"]
    /\ pending' = pending \ {e}
    /\ file' = file \ {e} /\ probe' = probe \ {e}
    /\ Forget(e)
    /\ UNCHANGED <<read, write, fifos, matched, joined, canceled>>

\* Mutant of FindsPending: a publisher does not look at announced openers.
FindsRegistered(published) == FALSE

\* Mutant of FindsPending: so does a rendezvous opener.
FindsAnnounced(published) == TRUE

\* Only a published endpoint releases openers that are still acquiring.
FindsPending(published) == published

\* fifoMatch, and the probes it closes.
FifoMatch(e, published) ==
    LET peers == {f \in fifos' : Opposite(e, f)}
        waiting == IF FindsPending(published) THEN {f \in pending' : Opposite(e, f)} ELSE {}
        released == IF peers \cup waiting = {} THEN {} ELSE peers \cup waiting \cup {e}
    IN /\ matched' = matched \cup released
       /\ probe' = probe \ (released \ waiting)

\* The descriptor is registered.
Register(e) ==
    /\ Step(e, "acquired", "wait")
    /\ pending' = pending \ {e}
    /\ fifos' = fifos \cup {e}
    /\ IF e \in matched
       THEN probe' = probe \ {e} /\ silent' = silent \cup {e} /\ UNCHANGED matched
       ELSE FifoMatch(e, FALSE) /\ UNCHANGED silent
    /\ UNCHANGED <<read, write, file, joined, canceled, met, early, owed>>

\* The select and the last look at the context.
Return(e) ==
    /\ Step(e, "wait", "open")
    /\ e \in matched /\ ~canceled
    /\ UNCHANGED <<read, write, registry, kernel, canceled, history>>

\* Entry.Close
CloseEntry(e) ==
    /\ fifos' = fifos \ {e}
    /\ file' = file \ {e} /\ probe' = probe \ {e}
    /\ UNCHANGED <<read, write, pending, matched, joined, canceled>>

Interrupted(e) ==
    /\ Step(e, "wait", "failed")
    /\ canceled
    /\ CloseEntry(e) /\ Forget(e)

-----------------------------------------------------------------------------
(* Publishers, duplicates and the end of an entry.                         *)

\* The blocking open begins: the kernel counts its end at once.
BeginOpen(e) ==
    /\ Step(e, "idle", "opening")
    /\ Opened(e)
    /\ UNCHANGED <<read, write, probe, registry, canceled, early, owed, silent>>

\* The blocking open fails, or its context is done: nothing is published.
OpenFails(e) ==
    /\ Step(e, "opening", "failed")
    /\ file' = file \ {e}
    /\ UNCHANGED <<read, write, probe, joined, registry, canceled, history>>

OpenReturns(e) ==
    /\ Step(e, "opening", "publish")
    /\ e \in joined
    /\ owed' = owed \cup {f \in file \cap Openers : Opposite(e, f)}
    /\ UNCHANGED <<read, write, registry, kernel, canceled, met, early, silent>>

\* bashPPFIFOPublish
Publish(e) ==
    /\ Step(e, "publish", "open")
    /\ fifos' = fifos \cup {e}
    /\ UNCHANGED pending
    /\ FifoMatch(e, TRUE)
    /\ early' = early \cup ((matched' \ matched) \ (file \cup {e}))
    /\ UNCHANGED <<read, write, file, joined, canceled, met, owed, silent>>

\* cloneFIFO, when a go statement duplicates the runner's descriptors.
Clone(e, k) ==
    /\ Step(k, "idle", "open")
    /\ pc[e] = "open" /\ e \in fifos
    /\ file' = file \cup {k} /\ fifos' = fifos \cup {k} /\ matched' = matched \cup {k}
    /\ read' = IF e \in read THEN read \cup {k} ELSE read
    /\ write' = IF e \in write THEN write \cup {k} ELSE write
    /\ silent' = IF e \in silent THEN silent \cup {k} ELSE silent
    /\ UNCHANGED <<probe, joined, pending, canceled, met, early, owed>>

\* The redirection ends, the runner no longer refers to the descriptor, or its
\* task is over.
Close(e) ==
    /\ Step(e, "open", "closed")
    /\ CloseEntry(e) /\ Forget(e)

Cancel ==
    /\ ~canceled /\ canceled' = TRUE
    /\ UNCHANGED <<pc, read, write, registry, kernel, history>>

\* closeFIFOs(nil), when the group fails or is joined.
CloseAll(e) ==
    /\ canceled /\ e \in fifos
    /\ CloseEntry(e)
    /\ UNCHANGED <<pc, history>>

-----------------------------------------------------------------------------
OpenerStep(e) == AcquireRead(e) \/ AcquireWrite(e) \/ Register(e) \/ Return(e) \/ Interrupted(e)
PublisherStep(e) == OpenReturns(e) \/ Publish(e)

Next ==
    \/ \E e \in Openers : Announce(e) \/ OpenerStep(e) \/ AcquireFails(e)
    \/ \E e \in Publishers : BeginOpen(e) \/ OpenFails(e) \/ PublisherStep(e)
    \/ \E e \in Entries : Close(e) \/ CloseAll(e)
    \/ \E e \in Entries, k \in Copies : Clone(e, k)
    \/ Cancel

Spec == Init /\ [][Next]_vars

\* Goroutines that can run do run.  Opens, closes and cancellation are choices.
FairSpec ==
    /\ Spec
    /\ \A e \in Openers : WF_vars(OpenerStep(e))
    /\ \A e \in Publishers : WF_vars(PublisherStep(e))

-----------------------------------------------------------------------------
(* Properties.                                                             *)

TypeOK ==
    /\ pc \in [Entries -> {"idle", "announced", "probed", "acquired", "wait", "opening",
                           "publish", "open", "failed", "closed"}]
    /\ read \subseteq Entries /\ write \subseteq Entries
    /\ file \subseteq Entries /\ probe \subseteq Openers /\ pending \subseteq Openers
    /\ fifos \subseteq Entries /\ matched \subseteq Entries /\ canceled \in BOOLEAN
    /\ joined \subseteq Publishers /\ met \subseteq Openers
    /\ early \subseteq Openers /\ owed \subseteq Openers /\ silent \subseteq Openers \cup Copies

\* A rendezvous returns only when an opposite descriptor has been open while it
\* held its own, so a reader cannot begin at the end of the file.  An opener that
\* a publisher released before it held a descriptor is excepted: the publisher
\* may have been let through by another reader and be gone.  The exception is
\* real, although the comment of bashPPFIFOPublish denies it: "releasing it -
\* even while it is still acquiring - cannot expose a premature end-of-file".
Paired == \A e \in Openers : pc[e] = "open" /\ e \notin early => e \in met

\* Nobody is stranded: an opener whose descriptor was open when a publisher's
\* open returned does not wait for ever, even if the publisher is done before
\* the opener registers; nor does one beside a registered peer, a duplicate
\* included, or one that is canceled.  A peer that registers after its own
\* release, or a duplicate of it, is no such peer: bashPPFIFOOpen does not call
\* fifoMatch for it, so it does not look for the openers that wait for it.
NotStranded ==
    \A e \in Openers :
        (\/ e \in owed \/ canceled
         \/ pc[e] = "wait" /\ \E f \in fifos \ silent : Opposite(e, f))
            ~> pc[e] \notin {"announced", "probed", "acquired", "wait"}

-----------------------------------------------------------------------------
(* The inductive invariant of the proofs (BashPPFIFOProofs).               *)

\* An entry is registered with its descriptor open, and pending before that.
Placed ==
    /\ \A e \in Entries : pc[e] \in {"acquired", "opening", "publish"} => e \in file
    /\ \A e \in fifos : e \in file /\ pc[e] \in {"wait", "open"}
    /\ \A e \in pending : pc[e] \in {"announced", "probed", "acquired"}
    /\ \A k \in Copies : pc[k] = "idle" => k \notin read \cup write

\* Two opposite descriptors that are open have met, duplicates included.
MetWhileOpen ==
    \A e \in file \cap Openers : \A f \in file : Opposite(e, f) => e \in met

\* An opener in its call is released by a descriptor it has met, or early.
ReleasedBy ==
    \A e \in matched \cap Openers :
        pc[e] \notin {"failed", "closed"} => e \in met \cup early

IInv == TypeOK /\ Placed /\ MetWhileOpen /\ ReleasedBy /\ Paired
=============================================================================
