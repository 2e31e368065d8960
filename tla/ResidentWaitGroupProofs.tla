------------------------ MODULE ResidentWaitGroupProofs ------------------------
(***************************************************************************)
(* Proofs about ResidentWaitGroup, for any finite set of processes and any *)
(* bound on the count: a program that keeps the counter from going below   *)
(* zero never blocks in the Go Wait with the gate held, and the reuse      *)
(* panic is reported only to a Wait that saw zero, misuse or not.          *)
(***************************************************************************)
EXTENDS ResidentWaitGroup, FiniteSetTheorems, TLAPS

\* A new WaitGroup satisfies the invariant.
LEMMA InitIInv == Init => IInv
  <1> SUFFICES ASSUME Init PROVE IInv
    OBVIOUS
  <1>1. TypeOK
    <2>1. delta \in [Procs -> {-1, 0, 1}]
      <3>1. delta = [p \in Procs |-> 0]
        BY DEF Init
      <3> QED
        BY ONLY <3>1
    <2>2. count \in Nat /\ native \in Int
      BY DEF Init
    <2>3. pc \in [Procs -> {"idle", "gate", "arm", "wait", "woken", "stuck"}]
      BY DEF Init
    <2>4. cancelled \in BOOLEAN
      BY Zenon DEF Init
    <2> QED
      BY <2>1, <2>2, <2>3, <2>4 DEF Init, TypeOK
  <1>2. CountAhead
    BY DEF Init, CountAhead
  <1>3. SignaledSawZero /\ ReuseIsReal
    BY DEF Init, SignaledSawZero, ReuseIsReal
  <1> QED
    BY <1>1, <1>2, <1>3 DEF IInv

\* Add keeps the count natural, and closes generations only at zero.
LEMMA AddIInv ==
    ASSUME IInv, NEW p \in Procs, Add(p)
    PROVE  IInv'
  <1> USE DEF IInv, Add, At
  <1>1. /\ native' = native + delta[p] /\ delta[p] \in {-1, 1}
        /\ native' \in Int /\ count \in Nat /\ native <= count
        /\ count' = IF native' < 0 THEN count ELSE count + delta[p]
    BY DEF TypeOK, CountAhead
  <1>2. count' \in Nat /\ native' <= count'
    <2> HIDE DEF IInv, Add, At
    <2>1. native \in Int
      BY DEF IInv, TypeOK
    <2>2. CASE native' < 0
      BY <1>1, <2>1, <2>2
    <2>3. CASE ~(native' < 0)
      BY <1>1, <2>1, <2>3
    <2> QED
      BY <2>2, <2>3
  <1>3. /\ pc[p] = "gate" /\ pc'[p] = "idle"
        /\ \A q \in Procs \ {p} : pc'[q] = pc[q]
        /\ pc' \in [Procs -> {"idle", "gate", "arm", "wait", "woken", "stuck"}]
    BY DEF TypeOK
  <1>4. Waiters' = Waiters /\ Waiters \subseteq Procs
    BY <1>3 DEF Waiters
  <1>5. \/ UNCHANGED <<signaled, zeroSeen>>
        \/ signaled' = signaled \cup Waiters /\ zeroSeen' = zeroSeen \cup Waiters
    BY DEF NotifyAtZero
  <1>6. TypeOK'
    BY <1>1, <1>2, <1>3, <1>4, <1>5 DEF TypeOK
  <1>7. SignaledSawZero'
    BY <1>3, <1>4, <1>5 DEF SignaledSawZero
  <1>8. ReuseIsReal'
    BY <1>5 DEF ReuseIsReal
  <1> QED
    BY <1>2, <1>6, <1>7, <1>8 DEF CountAhead

\* The other operations leave the counters alone.
LEMMA OtherIInv ==
    ASSUME IInv, NEW p \in Procs,
           \/ \E d \in {-1, 0, 1} : Call(p, d)
           \/ Wait(p) \/ ArmBeforeBlock(p) \/ Woken(p) \/ Canceled(p) \/ WaitAgain(p)
    PROVE  IInv'
  <1> USE DEF IInv, TypeOK, CountAhead, SignaledSawZero, ReuseIsReal, Waiters, At
  <1>1. ASSUME NEW d \in {-1, 0, 1}, Call(p, d) PROVE IInv'
    BY <1>1 DEF Call
  <1>2. CASE Wait(p)
    BY <1>2 DEF Wait, GoWait
  <1>3. CASE ArmBeforeBlock(p)
    BY <1>3 DEF ArmBeforeBlock
  <1>4. CASE Woken(p)
    BY <1>4 DEF Woken
  <1>5. CASE Canceled(p)
    BY <1>5 DEF Canceled
  <1>6. CASE WaitAgain(p)
    BY <1>6 DEF WaitAgain, GoWait
  <1> QED
    BY <1>1, <1>2, <1>3, <1>4, <1>5, <1>6

\* IInv is an invariant, with or without misuse.
THEOREM Inductive == Spec => []IInv
  <1>1. IInv /\ [Next]_vars => IInv'
    <2> SUFFICES ASSUME IInv, [Next]_vars PROVE IInv'
      OBVIOUS
    <2>1. CASE Cancel \/ UNCHANGED vars
      BY <2>1 DEF Cancel, vars, IInv, TypeOK, CountAhead, SignaledSawZero, ReuseIsReal, Waiters
    <2> QED
      BY <2>1, AddIInv, OtherIInv DEF Next, Step
  <1> QED
    BY <1>1, InitIInv, PTL DEF Spec

\* The count of the WaitGroup is a natural number in every state, the ones after
\* a recovered panic of the Go Add included.
THEOREM TypeCorrect == Spec => []TypeOK
  BY Inductive, PTL DEF IInv

\* "WaitGroup is reused before previous Wait has returned" is reported only to a
\* Wait during which the count was zero.
THEOREM ReuseReal == Spec => []ReuseIsReal
  BY Inductive, PTL DEF IInv

-----------------------------------------------------------------------------
(* The gate.                                                               *)

\* The Dones on their way to the gate, as a finite set.
Dones == {p \in Procs : pc[p] = "gate" /\ delta[p] = -1}

\* Their number is a natural number.
LEMMA DonesFinite == IsFiniteSet(Dones) /\ Cardinality(Dones) \in Nat /\ Adding(-1) = Cardinality(Dones)
  <1>1. IsFiniteSet(Dones)
    BY WaitGroupAssumption, FS_Subset DEF Dones
  <1> QED
    BY <1>1, FS_CardinalityType DEF Dones, Adding

\* A step that moves nobody to or from a Done keeps their number.
LEMMA DonesKept ==
    ASSUME Dones' = Dones PROVE Adding(-1)' = Adding(-1)
  BY DEF Dones, Adding

\* A program that does not take the counter below zero keeps the counters equal
\* through every step, so the Go Wait finds zero.
LEMMA NextBInv ==
    ASSUME ~Misuse, IInv, BInv, [Next]_vars
    PROVE  BInv'
  <1> USE DEF BInv, IInv
  <1>1. ASSUME NEW p \in Procs, NEW d \in {-1, 0, 1}, Call(p, d) PROVE BInv'
    <2>1. CASE d = -1
      <3>1. Dones' = Dones \cup {p} /\ p \notin Dones
        BY <1>1, <2>1 DEF Call, At, Dones, TypeOK
      <3>2. Cardinality(Dones') = Cardinality(Dones) + 1
        BY <3>1, DonesFinite, FS_AddElement
      <3>3. native - Adding(-1) >= 1
        BY <1>1, <2>1 DEF Call, Allowed
      <3>4. Adding(-1)' = Cardinality(Dones')
        BY DEF Dones, Adding
      <3> QED
        BY <1>1, <3>2, <3>3, <3>4, DonesFinite DEF Call, Balanced, TypeOK, GateNotKept
    <2>2. CASE d # -1
      <3>1. Dones' = Dones
        BY <1>1, <2>2 DEF Call, At, Dones, TypeOK
      <3> QED
        BY <1>1, <3>1, DonesKept DEF Call, Balanced, GateNotKept
    <2> QED
      BY <2>1, <2>2
  <1>2. ASSUME NEW p \in Procs, Add(p) PROVE BInv'
    <2>1. delta[p] \in {-1, 1} /\ native' = native + delta[p] /\ native \in Int /\ count \in Nat
      BY <1>2 DEF Add, TypeOK
    <2>2. CASE delta[p] = -1
      <3>1. Dones' = Dones \ {p} /\ p \in Dones
        BY <1>2, <2>2 DEF Add, At, Dones, TypeOK
      <3>2. Cardinality(Dones') = Cardinality(Dones) - 1 /\ Cardinality(Dones') \in Nat
        BY <3>1, DonesFinite, FS_RemoveElement, FS_CardinalityType
      <3>3. Adding(-1)' = Cardinality(Dones')
        BY DEF Dones, Adding
      <3>4. native' >= 0 /\ Adding(-1)' <= native'
        BY <2>1, <2>2, <3>2, <3>3, DonesFinite DEF Balanced
      <3> QED
        BY <1>2, <2>1, <3>4 DEF Add, Balanced, GateNotKept
    <2>3. CASE delta[p] = 1
      <3>1. Dones' = Dones
        BY <1>2, <2>3 DEF Add, At, Dones, TypeOK
      <3> QED
        BY <1>2, <2>1, <2>3, <3>1, DonesKept, DonesFinite DEF Add, Balanced, GateNotKept
    <2> QED
      BY <2>1, <2>2, <2>3
  <1>3. ASSUME NEW p \in Procs,
               Wait(p) \/ ArmBeforeBlock(p) \/ Woken(p) \/ Canceled(p) \/ WaitAgain(p)
        PROVE  BInv'
    <2>1. Dones' = Dones
      BY <1>3 DEF Wait, GoWait, ArmBeforeBlock, Woken, Canceled, WaitAgain, At, Dones, TypeOK
    <2>2. UNCHANGED <<count, native>>
      BY <1>3 DEF Wait, ArmBeforeBlock, Woken, Canceled, WaitAgain
    <2>3. UNCHANGED stuck
      BY <1>3 DEF Wait, GoWait, ArmBeforeBlock, Woken, Canceled, WaitAgain, Balanced
    <2> QED
      BY <2>1, <2>2, <2>3, DonesKept DEF Balanced, GateNotKept
  <1>4. CASE Cancel \/ UNCHANGED vars
    BY <1>4 DEF Cancel, vars, Balanced, Adding, GateNotKept
  <1> QED
    BY <1>1, <1>2, <1>3, <1>4 DEF Next, Step

\* The Go Wait that goSourceResidentSyncRequest calls under the gate returns at
\* once, for every number of processes, as long as the program does not take the
\* counter below zero.  (With misuse it need not: run waitgroup_misuse.)
THEOREM GateReleased == ASSUME ~Misuse PROVE Spec => []GateNotKept
  <1>1. Init => BInv
    <2> SUFFICES ASSUME Init PROVE BInv
      OBVIOUS
    <2>1. Dones = {}
      BY DEF Init, Dones
    <2> QED
      BY <2>1, DonesFinite, FS_EmptySet DEF Init, BInv, Balanced, GateNotKept
  <1>2. IInv /\ BInv /\ [Next]_vars => BInv'
    BY NextBInv
  <1>3. BInv => GateNotKept
    BY DEF BInv
  <1> QED
    BY <1>1, <1>2, <1>3, Inductive, PTL DEF Spec
=============================================================================
