--------------------------- MODULE BashPPFIFOProofs ---------------------------
(***************************************************************************)
(* Proofs about BashPPFIFO, for any set of openers, publishers and         *)
(* duplicates and any directions: a rendezvous that returns has met an     *)
(* opposite descriptor, however descriptors are duplicated, published,     *)
(* closed and canceled meanwhile.                                          *)
(***************************************************************************)
EXTENDS BashPPFIFO, TLAPS

\* Nothing is open before the first open.
LEMMA InitIInv == Init => IInv
  <1> SUFFICES ASSUME Init PROVE IInv
    OBVIOUS
  <1>1. TypeOK
    <2>1. canceled \in BOOLEAN
      BY Zenon DEF Init
    <2> QED
      BY <2>1, FIFOAssumption DEF Init, TypeOK, Entries, Opens
  <1>2. Placed
    BY FIFOAssumption DEF Init, Placed, Opens
  <1>3. MetWhileOpen /\ Paired
    BY DEF Init, MetWhileOpen, Paired, Entries, Opens
  <1>4. ReleasedBy
    BY FIFOAssumption DEF Init, ReleasedBy
  <1> QED
    BY <1>1, <1>2, <1>3, <1>4 DEF IInv

\* The kernel's side of an open: whoever it meets has met it.
LEMMA OpenedMeets ==
    ASSUME TypeOK, MetWhileOpen, NEW e \in Opens, Opened(e), UNCHANGED <<read, write>>
    PROVE  /\ file' = file \cup {e} /\ file' \subseteq Entries
           /\ met \subseteq met' /\ met' \subseteq Openers
           /\ joined' \subseteq Publishers
           /\ MetWhileOpen'
  <1> USE DEF Opened
  <1>1. file' = file \cup {e} /\ met \subseteq met'
    OBVIOUS
  <1>2. file' \subseteq Entries /\ met' \subseteq Openers /\ joined' \subseteq Publishers
    BY DEF TypeOK, Entries
  <1>3. MetWhileOpen'
    <2> SUFFICES ASSUME NEW a \in file' \cap Openers, NEW b \in file', Opposite(a, b)
                 PROVE  a \in met'
      BY DEF MetWhileOpen, Opposite
    <2>1. CASE a \in file /\ b \in file
      BY <1>1, <2>1 DEF MetWhileOpen
    <2>2. CASE a = e
      BY <1>1, <2>2
    <2>3. CASE b = e
      <3>1. Opposite(e, a)
        BY <2>3 DEF Opposite
      <3> QED
        BY <1>1, <3>1
    <2> QED
      BY <1>1, <2>1, <2>2, <2>3
  <1> QED
    BY <1>1, <1>2, <1>3

\* The opens that acquire a descriptor.
LEMMA AcquireIInv ==
    ASSUME IInv, NEW e \in Opens,
           \/ e \in Openers /\ (Announce(e) \/ AcquireRead(e) \/ AcquireWrite(e))
           \/ e \in Publishers /\ BeginOpen(e)
    PROVE  IInv'
  <1> USE DEF IInv
  <1>1. UNCHANGED <<read, write, fifos, matched, canceled, early, owed, silent>>
    BY DEF Announce, AcquireRead, AcquireWrite, BeginOpen, registry, history
  <1>2. /\ \A f \in Entries \ {e} : pc'[f] = pc[f]
        /\ pc[e] \in {"idle", "announced", "probed"}
        /\ pc'[e] \in {"announced", "probed", "acquired", "opening"}
        /\ DOMAIN pc' = Entries /\ e \in Entries /\ e \notin Copies
        /\ pc' \in [Entries -> {"idle", "announced", "probed", "acquired", "wait", "opening",
                                "publish", "open", "failed", "closed"}]
    BY FIFOAssumption
    DEF Announce, AcquireRead, AcquireWrite, BeginOpen, Step, TypeOK, Entries, Opens
  <1>3. /\ \/ UNCHANGED <<file, met>> /\ pc'[e] \in {"announced", "probed"}
           \/ Opened(e) /\ pc'[e] \in {"acquired", "opening"}
        /\ pc[e] = "idle" => pc'[e] \in {"announced", "opening"}
    BY DEF Announce, AcquireRead, AcquireWrite, BeginOpen, Step, TypeOK, Entries, kernel, history
  <1>4. /\ file \subseteq file' /\ file' \subseteq Entries
        /\ met \subseteq met' /\ met' \subseteq Openers
        /\ pc'[e] \in {"acquired", "opening"} => e \in file'
        /\ MetWhileOpen'
    <2>1. CASE UNCHANGED <<file, met>> /\ pc'[e] \in {"announced", "probed"}
      BY <1>1, <2>1 DEF TypeOK, MetWhileOpen, Opposite
    <2>2. CASE Opened(e)
      BY <1>1, <2>2, OpenedMeets
    <2> QED
      BY <1>3, <2>1, <2>2
  <1>5. pending' \subseteq pending \cup {e} /\ (pending' # pending => pc'[e] = "announced")
    BY DEF Announce, AcquireRead, AcquireWrite, BeginOpen, registry, Step, TypeOK, Entries, Opens
  <1>6. joined' \subseteq Publishers /\ probe' \subseteq Openers /\ pending' \subseteq Openers
    BY OpenedMeets DEF Announce, AcquireRead, AcquireWrite, BeginOpen, registry, kernel, TypeOK
  <1>7. TypeOK'
    BY <1>1, <1>2, <1>4, <1>6 DEF TypeOK
  <1>8. Placed'
    <2>1. e \notin fifos
      BY <1>2 DEF Placed
    <2>2. \A f \in Entries : pc'[f] \in {"acquired", "opening", "publish"} => f \in file'
      BY <1>2, <1>4 DEF Placed
    <2>3. \A f \in fifos' : f \in file' /\ pc'[f] \in {"wait", "open"}
      BY <1>1, <1>2, <1>4, <2>1 DEF Placed, TypeOK
    <2>4. \A f \in pending' : pc'[f] \in {"announced", "probed", "acquired"}
      <3> SUFFICES ASSUME NEW f \in pending' PROVE pc'[f] \in {"announced", "probed", "acquired"}
        OBVIOUS
      <3>1. CASE f # e
        BY <1>2, <1>5, <3>1 DEF Placed, TypeOK, Entries, Opens
      <3>2. CASE f = e /\ pending' # pending
        BY <1>5, <3>2
      <3>3. CASE f = e /\ pending' = pending
        <4>1. e \in Openers /\ e \notin Publishers
          BY <1>6, <3>3, FIFOAssumption
        <4>2. Announce(e) \/ AcquireRead(e) \/ AcquireWrite(e)
          BY <4>1
        <4>3. pc'[e] \in {"announced", "probed", "acquired"}
          BY <1>2, <4>2 DEF Announce, AcquireRead, AcquireWrite, Step, TypeOK
        <4> QED
          BY <3>3, <4>3
      <3> QED
        BY <3>1, <3>2, <3>3
    <2>5. \A k \in Copies : pc'[k] = "idle" => k \notin read' \cup write'
      BY <1>1, <1>2 DEF Placed, Entries
    <2> QED
      BY <2>2, <2>3, <2>4, <2>5 DEF Placed
  <1>9. ReleasedBy'
    BY <1>1, <1>2, <1>4 DEF ReleasedBy, Entries, Opens
  <1>10. Paired'
    BY <1>1, <1>2, <1>4 DEF Paired, Entries, Opens
  <1> QED
    BY <1>4, <1>7, <1>8, <1>9, <1>10

\* The ends of an entry: its history goes with it, and nobody else's does.
LEMMA EndIInv ==
    ASSUME IInv, NEW e \in Entries,
           \/ e \in Openers /\ (AcquireFails(e) \/ Interrupted(e))
           \/ e \in Publishers /\ OpenFails(e)
           \/ Close(e) \/ CloseAll(e)
    PROVE  IInv'
  <1> USE DEF IInv
  <1>1. /\ UNCHANGED <<read, write, matched, joined, canceled>>
        /\ file' = file \ {e} /\ probe' = probe \ {e}
        /\ fifos' \subseteq fifos /\ pending' \subseteq pending
    BY FIFOAssumption DEF AcquireFails, Interrupted, OpenFails, Close, CloseAll, CloseEntry, registry,
                          TypeOK
  <1>2. e \notin fifos' /\ e \notin pending'
    BY FIFOAssumption
    DEF AcquireFails, Interrupted, OpenFails, Close, CloseAll, CloseEntry, Placed, Step, registry
  <1>3. \/ /\ pc' = [pc EXCEPT ![e] = "failed"] \/ pc' = [pc EXCEPT ![e] = "closed"]
           /\ Forget(e) \/ (e \in Publishers /\ UNCHANGED history)
        \/ e \in fifos /\ UNCHANGED <<pc, history>>
    BY DEF AcquireFails, Interrupted, OpenFails, Close, CloseAll, Step
  <1>4. /\ met' \subseteq met /\ early' \subseteq early
        /\ owed' \subseteq owed /\ silent' \subseteq silent
        /\ \A f \in Openers \ {e} : (f \in met => f \in met') /\ (f \in early <=> f \in early')
        /\ \A f \in Entries \ {e} : pc'[f] = pc[f]
        /\ \/ pc'[e] \in {"failed", "closed"}
           \/ pc'[e] \in {"wait", "open"} /\ pc'[e] = pc[e] /\ UNCHANGED <<met, early>>
        /\ pc' \in [Entries -> {"idle", "announced", "probed", "acquired", "wait", "opening",
                                "publish", "open", "failed", "closed"}]
    BY <1>3, FIFOAssumption DEF Forget, TypeOK, history, Placed
  <1>5. TypeOK'
    BY <1>1, <1>4 DEF TypeOK
  <1>6. Placed'
    <2>1. \A f \in Entries : pc'[f] \in {"acquired", "opening", "publish"} => f \in file'
      BY <1>1, <1>4 DEF Placed
    <2>2. \A f \in fifos' : f \in file' /\ pc'[f] \in {"wait", "open"}
      BY <1>1, <1>2, <1>4 DEF Placed, TypeOK
    <2>3. \A f \in pending' : pc'[f] \in {"announced", "probed", "acquired"}
      BY <1>1, <1>2, <1>4 DEF Placed, TypeOK, Entries, Opens
    <2>4. \A k \in Copies : pc'[k] = "idle" => k \notin read' \cup write'
      BY <1>1, <1>4 DEF Placed, Entries
    <2> QED
      BY <2>1, <2>2, <2>3, <2>4 DEF Placed
  <1>7. MetWhileOpen'
    BY <1>1, <1>4 DEF MetWhileOpen, Opposite
  <1>8. ReleasedBy'
    BY <1>1, <1>4 DEF ReleasedBy, Entries, Opens
  <1>9. Paired'
    BY <1>4 DEF Paired, Entries, Opens
  <1> QED
    BY <1>5, <1>6, <1>7, <1>8, <1>9

\* Who fifoMatch releases: opposite entries that are registered or, for a
\* published entry, announced; and the entry itself when there is one.
LEMMA MatchReleases ==
    ASSUME TypeOK, Placed, MetWhileOpen, NEW e \in Opens, NEW published \in BOOLEAN,
           published => e \in Publishers,
           e \in file, fifos' = fifos \cup {e}, pending' \subseteq pending, UNCHANGED file,
           FifoMatch(e, published)
    PROVE  /\ matched \subseteq matched' /\ matched' \subseteq Entries
           /\ probe' \subseteq probe
           /\ \A f \in matched' \ matched :
                 /\ f \in file \cup pending
                 /\ f \in file \cap Openers => f \in met
                 /\ ~published => f \in file
  <1> DEFINE peers == {f \in fifos' : Opposite(e, f)}
             waiting == IF FindsPending(published) THEN {f \in pending' : Opposite(e, f)} ELSE {}
             released == IF peers \cup waiting = {} THEN {} ELSE peers \cup waiting \cup {e}
  <1>1. matched' = matched \cup released /\ probe' = probe \ (released \ waiting)
    BY DEF FifoMatch
  <1>2. fifos' \subseteq file
    BY DEF Placed
  <1>3. ASSUME NEW f \in released
        PROVE  /\ f \in file \cup pending
               /\ f \in file \cap Openers => f \in met
               /\ ~published => f \in file
    <2>1. CASE f \in peers \cup waiting
      <3>1. Opposite(f, e)
        BY <2>1 DEF Opposite
      <3>2. f \in file \cup pending /\ (~published => f \in file)
        BY <1>2, <2>1 DEF FindsPending
      <3> QED
        BY <3>1, <3>2 DEF MetWhileOpen
    <2>2. CASE f = e
      <3>1. PICK g \in peers \cup waiting : TRUE
        BY <1>3
      <3>2. ASSUME e \in Openers PROVE e \in met
        <4>1. ~published
          BY <3>2, FIFOAssumption
        <4>2. g \in file /\ Opposite(e, g)
          BY <1>2, <3>1, <4>1 DEF FindsPending
        <4> QED
          BY <3>2, <4>2 DEF MetWhileOpen
      <3> QED
        BY <2>2, <3>2
    <2> QED
      BY <1>3, <2>1, <2>2
  <1> HIDE DEF released, peers, waiting
  <1>4. released \subseteq Entries
    BY <1>3 DEF TypeOK, Entries, Opens
  <1> QED
    BY <1>1, <1>3, <1>4 DEF TypeOK

\* An opener that registers without having been released looks for its peer.
LEMMA RegisterIInv ==
    ASSUME IInv, NEW e \in Openers, Register(e)
    PROVE  IInv'
  <1> USE DEF IInv, Register, Step
  <1>1. /\ e \in Opens /\ e \in Entries /\ e \in file /\ e \notin Copies
        /\ pc' = [pc EXCEPT ![e] = "wait"] /\ pc[e] = "acquired"
    BY FIFOAssumption DEF Placed, Entries, Opens
  <1>2. /\ matched \subseteq matched' /\ matched' \subseteq Entries /\ probe' \subseteq probe
        /\ \A f \in matched' \ matched : f \in file /\ (f \in Openers => f \in met)
    <2>1. CASE e \in matched
      BY <2>1 DEF TypeOK
    <2>2. CASE e \notin matched
      BY <1>1, <2>2, MatchReleases
    <2> QED
      BY <2>1, <2>2
  <1>3. TypeOK'
    <2>1. silent' \subseteq Openers \cup Copies
      BY DEF TypeOK
    <2> QED
      BY <1>1, <1>2, <2>1 DEF TypeOK
  <1>4. Placed'
    BY <1>1 DEF Placed, TypeOK, Entries, Opens
  <1>5. MetWhileOpen'
    BY DEF MetWhileOpen, Opposite
  <1>6. ReleasedBy'
    BY <1>1, <1>2 DEF ReleasedBy, TypeOK, Entries, Opens
  <1>7. Paired'
    BY <1>1 DEF Paired, TypeOK, Entries, Opens
  <1> QED
    BY <1>3, <1>4, <1>5, <1>6, <1>7

\* A publisher's descriptor is open while it releases openers; those of them that
\* hold none are the early ones.
LEMMA PublishIInv ==
    ASSUME IInv, NEW e \in Publishers, Publish(e)
    PROVE  IInv'
  <1> USE DEF IInv, Publish, Step
  <1>1. /\ e \in Opens /\ e \in Entries /\ e \in file /\ e \notin Copies /\ e \notin Openers
        /\ pc' = [pc EXCEPT ![e] = "open"] /\ pc[e] = "publish"
    BY FIFOAssumption DEF Placed, Entries, Opens
  <1>2. /\ matched \subseteq matched' /\ matched' \subseteq Entries /\ probe' \subseteq probe
        /\ \A f \in matched' \ matched : /\ f \in file \cup pending
                                         /\ f \in file \cap Openers => f \in met
    BY <1>1, MatchReleases
  <1>3. early' \subseteq Openers
    BY <1>2 DEF TypeOK
  <1>4. TypeOK'
    BY <1>1, <1>2, <1>3 DEF TypeOK
  <1>5. Placed'
    BY <1>1 DEF Placed, TypeOK, Entries, Opens
  <1>6. MetWhileOpen'
    BY DEF MetWhileOpen, Opposite
  <1>7. ReleasedBy'
    <2> SUFFICES ASSUME NEW f \in matched' \cap Openers, pc'[f] \notin {"failed", "closed"}
                 PROVE  f \in met' \cup early'
      BY DEF ReleasedBy
    <2>1. pc'[f] = pc[f] /\ f # e
      BY <1>1 DEF TypeOK, Entries, Opens
    <2>2. CASE f \in matched
      BY <2>1, <2>2 DEF ReleasedBy
    <2>3. CASE f \notin matched /\ f \in file
      BY <1>2, <2>3
    <2>4. CASE f \notin matched /\ f \notin file
      BY <2>1, <2>4
    <2> QED
      BY <2>2, <2>3, <2>4
  <1>8. Paired'
    BY <1>1 DEF Paired, TypeOK, Entries, Opens
  <1> QED
    BY <1>4, <1>5, <1>6, <1>7, <1>8

\* A duplicate brings no direction that its original does not have.
LEMMA CloneIInv ==
    ASSUME IInv, NEW e \in Entries, NEW k \in Copies, Clone(e, k)
    PROVE  IInv'
  <1> USE DEF IInv, Clone, Step
  <1>1. /\ k \in Entries /\ k \notin Opens /\ k \notin Openers /\ e \in file
        /\ k \notin read /\ k \notin write /\ k # e
        /\ pc' = [pc EXCEPT ![k] = "open"] /\ pc[k] = "idle" /\ k \notin pending
    BY FIFOAssumption DEF Placed, Entries, Opens
  <1>2. TypeOK'
    BY <1>1 DEF TypeOK, history
  <1>3. Placed'
    <2>1. \A f \in Entries : pc'[f] \in {"acquired", "opening", "publish"} => f \in file'
      BY <1>1 DEF Placed, TypeOK
    <2>2. \A f \in fifos' : f \in file' /\ pc'[f] \in {"wait", "open"}
      BY <1>1 DEF Placed, TypeOK
    <2>3. \A f \in pending' : pc'[f] \in {"announced", "probed", "acquired"}
      BY <1>1 DEF Placed, TypeOK
    <2>4. \A c \in Copies : pc'[c] = "idle" => c \notin read' \cup write'
      BY <1>1 DEF Placed, TypeOK, Entries
    <2> QED
      BY <2>1, <2>2, <2>3, <2>4 DEF Placed
  <1>4. MetWhileOpen'
    <2> SUFFICES ASSUME NEW a \in file' \cap Openers, NEW b \in file', Opposite(a, b)'
                 PROVE  a \in met'
      BY DEF MetWhileOpen
    <2>1. a \in file /\ a # k
      BY <1>1
    <2>2. met' = met
      BY DEF history
    <2>3. CASE b # k
      <3>1. Opposite(a, b) /\ b \in file
        BY <2>1, <2>3 DEF Opposite
      <3> QED
        BY <2>1, <2>2, <3>1 DEF MetWhileOpen
    <2>4. CASE b = k
      <3>1. Opposite(a, e)
        BY <1>1, <2>1, <2>4 DEF Opposite
      <3> QED
        BY <1>1, <2>1, <2>2, <3>1 DEF MetWhileOpen
    <2> QED
      BY <2>3, <2>4
  <1>5. ReleasedBy' /\ Paired'
    BY <1>1 DEF ReleasedBy, Paired, history, TypeOK, Entries, Opens
  <1> QED
    BY <1>2, <1>3, <1>4, <1>5

\* The steps that only move a goroutine on.
LEMMA MoveIInv ==
    ASSUME IInv, \/ \E e \in Openers : Return(e)
                 \/ \E e \in Publishers : OpenReturns(e)
                 \/ Cancel \/ UNCHANGED vars
    PROVE  IInv'
  <1> USE DEF IInv
  <1>1. ASSUME NEW e \in Openers, Return(e) PROVE IInv'
    <2> USE <1>1 DEF Return, Step, registry, kernel, history
    <2>1. TypeOK' /\ Placed'
      BY FIFOAssumption DEF TypeOK, Placed, Entries, Opens
    <2>2. MetWhileOpen'
      BY DEF MetWhileOpen, Opposite
    <2>3. ReleasedBy' /\ Paired'
      BY DEF ReleasedBy, Paired, TypeOK, Entries, Opens
    <2> QED
      BY <2>1, <2>2, <2>3
  <1>2. ASSUME NEW e \in Publishers, OpenReturns(e) PROVE IInv'
    <2> USE <1>2 DEF OpenReturns, Step, registry, kernel, history
    <2>1. TypeOK' /\ Placed'
      BY FIFOAssumption DEF TypeOK, Placed, Entries, Opens
    <2>2. MetWhileOpen'
      BY DEF MetWhileOpen, Opposite
    <2>3. ReleasedBy' /\ Paired'
      BY FIFOAssumption DEF ReleasedBy, Paired, TypeOK, Entries, Opens
    <2> QED
      BY <2>1, <2>2, <2>3
  <1>3. CASE Cancel \/ UNCHANGED vars
    <2> USE <1>3 DEF Cancel, vars, registry, kernel, history
    <2>1. TypeOK'
      BY DEF TypeOK
    <2>2. Placed' /\ MetWhileOpen' /\ ReleasedBy' /\ Paired'
      BY DEF Placed, MetWhileOpen, ReleasedBy, Paired, Opposite
    <2> QED
      BY <2>1, <2>2
  <1> QED
    BY <1>1, <1>2, <1>3

\* IInv is an invariant of every group of opens.
THEOREM Inductive == Spec => []IInv
  <1>1. IInv /\ [Next]_vars => IInv'
    <2> SUFFICES ASSUME IInv, [Next]_vars PROVE IInv'
      OBVIOUS
    <2>1. ASSUME NEW e \in Openers, Announce(e) \/ OpenerStep(e) \/ AcquireFails(e) PROVE IInv'
      <3>1. e \in Opens /\ e \in Entries
        BY DEF Opens, Entries
      <3> QED
        BY <2>1, <3>1, AcquireIInv, RegisterIInv, MoveIInv, EndIInv DEF OpenerStep
    <2>2. ASSUME NEW e \in Publishers, BeginOpen(e) \/ OpenFails(e) \/ PublisherStep(e) PROVE IInv'
      <3>1. e \in Opens /\ e \in Entries
        BY DEF Opens, Entries
      <3> QED
        BY <2>2, <3>1, AcquireIInv, EndIInv, PublishIInv, MoveIInv DEF PublisherStep
    <2>3. ASSUME NEW e \in Entries, Close(e) \/ CloseAll(e) PROVE IInv'
      BY <2>3, EndIInv
    <2>4. ASSUME NEW e \in Entries, NEW k \in Copies, Clone(e, k) PROVE IInv'
      BY <2>4, CloneIInv
    <2>5. CASE Cancel \/ UNCHANGED vars
      BY <2>5, MoveIInv
    <2> QED
      BY <2>1, <2>2, <2>3, <2>4, <2>5 DEF Next
  <1> QED
    BY <1>1, InitIInv, PTL DEF Spec

\* Every variable of the rendezvous keeps its type.
THEOREM TypeCorrect == Spec => []TypeOK
  BY Inductive, PTL DEF IInv

\* A rendezvous that returns was open together with an opposite descriptor,
\* unless a publisher released it before it held one.
THEOREM RendezvousPaired == Spec => []Paired
  BY Inductive, PTL DEF IInv
=============================================================================
