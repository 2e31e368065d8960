------------------------- MODULE BashPPChannelProofs -------------------------
(***************************************************************************)
(* Proofs about BashPPChannel, for every set of processes, channels,       *)
(* capacities and selects: the inductive invariant IInv, and from it that  *)
(* no select offers a send on a closed Go channel, that close(ch) runs at  *)
(* most once and that no closer sleeps without a sender that will wake it. *)
(***************************************************************************)
EXTENDS BashPPChannel, FiniteSetTheorems, TLAPS

\* newBashPPChannel establishes the invariant.
LEMMA InitIInv == Init => IInv
  <1> SUFFICES ASSUME Init PROVE IInv
    OBVIOUS
  <1> USE DEF Init
  <1>1. TypeOK
    <2>1. NoOp \in [kind : Kinds, arms : Seq(Arm), def : BOOLEAN]
      BY DEF NoOp, Kinds
    <2>2. /\ \A p \in Procs : "idle" \in PCs /\ "pending" \in Outcomes
          /\ 1 \in Nat \ {0}
      BY DEF PCs, Outcomes
    <2> QED
      BY <2>1, <2>2 DEF TypeOK
  <1>2. ActiveCounts
    BY FS_EmptySet DEF ActiveCounts
  <1>3. HeldByArms /\ OfferedIsHeld /\ ClosedIsEmpty /\ IdleIsClean
    BY DEF HeldByArms, OfferedIsHeld, ClosedIsEmpty, IdleIsClean, Selecting, ArmsOf, NoOp
  <1>4. ClosersWait /\ OneCloser
    BY DEF ClosersWait, OneCloser, Closer
  <1> QED
    BY <1>1, <1>2, <1>3, <1>4 DEF IInv

\* An operation starts: a send, a receive or a select evaluates its operands.
LEMMA StartIInv ==
    ASSUME IInv, NEW p \in Procs, NEW kind \in Kinds, NEW arms \in Seq(Arm),
           NEW def \in BOOLEAN, Start(p, kind, arms, def)
    PROVE  IInv'
  <1> USE DEF Start, chanVars, IInv
  <1>1. TypeOK'
    BY DEF TypeOK, PCs
  <1>2. ActiveCounts'
    BY DEF ActiveCounts
  <1>3. HeldByArms'
    <2> SUFFICES ASSUME NEW c \in Chans, NEW x \in held[c]
                 PROVE  Registered(c, x)'
      BY DEF HeldByArms
    <2>1. Registered(c, x) /\ x[1] \in Procs
      BY DEF HeldByArms, TypeOK
    <2>2. x[1] # p
      BY <2>1 DEF Registered, Selecting
    <2> QED
      BY <2>1, <2>2 DEF Registered, ArmsOf, TypeOK
  <1>4. OfferedIsHeld'
    <2>1. next[p] = 1
      BY DEF IdleIsClean
    <2> QED
      BY <2>1 DEF OfferedIsHeld, Selecting, ArmsOf, TypeOK
  <1>5. ClosedIsEmpty' /\ IdleIsClean'
    BY DEF ClosedIsEmpty, IdleIsClean, TypeOK
  <1>6. ClosersWait' /\ OneCloser'
    BY DEF ClosersWait, OneCloser, Closer, TypeOK
  <1> QED
    BY <1>1, <1>2, <1>3, <1>4, <1>5, <1>6

-----------------------------------------------------------------------------
(* Steps that only move processes through their operations.                *)

\* What a step may do to the program counter of a process without touching a
\* registration: go on inside the select, or leave it for the release.
Moves(q) ==
    \/ pc'[q] = pc[q]
    \/ pc[q] \in Selecting \cup {"eval"} /\ pc'[q] = "release"
    \/ pc[q] \in Selecting /\ pc'[q] \in Selecting
    \/ pc[q] = "eval" /\ next[q] \notin ArmsOf(q) /\ pc'[q] \in Selecting

\* A step that only moves processes preserves the invariant.
LEMMA MovesIInv ==
    ASSUME IInv, TypeOK', \A q \in Procs : Moves(q),
           UNCHANGED <<goClosed, closed, active, held, op, next, off>>
    PROVE  IInv'
  <1> USE DEF IInv
  <1>1. ActiveCounts' /\ ClosedIsEmpty'
    BY DEF ActiveCounts, ClosedIsEmpty
  <1>2. HeldByArms'
    <2> SUFFICES ASSUME NEW c \in Chans, NEW x \in held[c]
                 PROVE  Registered(c, x)'
      BY DEF HeldByArms
    <2>1. Registered(c, x) /\ x[1] \in Procs
      BY DEF HeldByArms, TypeOK
    <2>2. Moves(x[1])
      BY <2>1
    <2> QED
      BY <2>1, <2>2 DEF Registered, ArmsOf, Moves, Selecting
  <1>3. OfferedIsHeld'
    <2> SUFFICES ASSUME NEW p \in Procs, NEW c \in Chans, NEW i \in ArmsOf(p) \ off[p],
                        op[p].arms[i] = [dir |-> "send", ch |-> c],
                        pc'[p] \in Selecting \/ (pc'[p] = "eval" /\ i < next[p])
                 PROVE  <<p, i>> \in held[c]
      BY DEF OfferedIsHeld, ArmsOf
    <2>1. CASE pc[p] = "eval" /\ pc'[p] \in Selecting
      <3>1. next[p] \notin ArmsOf(p)
        BY <2>1 DEF Moves, Selecting
      <3>2. /\ op[p].arms \in Seq(Arm) /\ next[p] \in Nat /\ next[p] # 0
            /\ i \in DOMAIN op[p].arms /\ next[p] \notin DOMAIN op[p].arms
        BY <3>1 DEF ArmsOf, TypeOK
      <3>3. i < next[p]
        BY <3>2
      <3> QED
        BY <2>1, <3>3 DEF OfferedIsHeld
    <2>2. CASE ~(pc[p] = "eval" /\ pc'[p] \in Selecting)
      <3>1. pc[p] \in Selecting \/ (pc[p] = "eval" /\ i < next[p])
        BY <2>2 DEF Moves, Selecting
      <3> QED
        BY <3>1 DEF OfferedIsHeld
    <2> QED
      BY <2>1, <2>2
  <1>4. IdleIsClean'
    BY DEF IdleIsClean, Moves, Selecting
  <1>5. ClosersWait' /\ OneCloser'
    BY DEF ClosersWait, OneCloser, Closer, Moves, Selecting
  <1> QED
    BY <1>1, <1>2, <1>3, <1>4, <1>5

MovesTyped ==
    /\ queued' \in [Chans -> Nat]
    /\ took' \in [Procs -> SUBSET Nat]
    /\ pc' \in [Procs -> PCs]
    /\ outcome' \in [Procs -> Outcomes]
    /\ \A q \in Procs : Moves(q)

\* Completing an operation and one parked peer are such moves.
LEMMA ReadyCaseMoves ==
    ASSUME IInv, NEW p \in Procs, pc[p] \in {"probe", "block"}, ReadyCase(p)
    PROVE  MovesTyped
  <1> USE DEF IInv, TypeOK, PCs, Outcomes, Moves, Selecting, MovesTyped
  <1>1. ASSUME NEW i \in ArmsOf(p), SendCase(p, i, op[p].arms[i].ch)
        PROVE  MovesTyped
    <2> DEFINE c == op[p].arms[i].ch
    <2>1. i \in Nat /\ c \in Chans
      BY <1>1 DEF ArmsOf, SendCase, SendReady
    <2>2. took' \in [Procs -> SUBSET Nat]
      BY <1>1, <2>1 DEF SendCase
    <2>3. CASE Parked("recv", c) # {}
      <3>1. PICK q \in Parked("recv", c) :
              /\ pc' = [pc EXCEPT ![p] = "release", ![q] = "release"]
              /\ outcome' = [outcome EXCEPT ![p] = "sent", ![q] = "received"]
              /\ UNCHANGED queued
        BY <1>1, <2>3 DEF SendCase
      <3>2. q \in Procs /\ pc[q] = "parked"
        BY DEF Parked
      <3> QED
        BY <2>2, <3>1, <3>2
    <2>4. CASE Parked("recv", c) = {}
      <3>1. Decide(p, "sent") /\ queued' = [queued EXCEPT ![c] = @ + 1]
        BY <1>1, <2>4 DEF SendCase
      <3> QED
        BY <2>1, <2>2, <3>1 DEF Decide
    <2> QED
      BY <2>3, <2>4
  <1>2. ASSUME NEW i \in ArmsOf(p), RecvCase(p, i, op[p].arms[i].ch)
        PROVE  MovesTyped
    <2> DEFINE c == op[p].arms[i].ch
    <2>1. c \in Chans
      BY <1>2 DEF RecvCase, RecvReady
    <2>2. CASE Parked("send", c) # {}
      <3>0. PICK q \in Parked("send", c) : \E j \in ArmsOf(q) :
              /\ pc' = [pc EXCEPT ![p] = "release", ![q] = "release"]
              /\ outcome' = [outcome EXCEPT ![p] = "received", ![q] = "sent"]
              /\ took' = [took EXCEPT ![q] = @ \cup {j}]
              /\ UNCHANGED queued
        BY <1>2, <2>2 DEF RecvCase
      <3>1. PICK j \in ArmsOf(q) :
              /\ pc' = [pc EXCEPT ![p] = "release", ![q] = "release"]
              /\ outcome' = [outcome EXCEPT ![p] = "received", ![q] = "sent"]
              /\ took' = [took EXCEPT ![q] = @ \cup {j}]
              /\ UNCHANGED queued
        BY <3>0
      <3>2. q \in Procs /\ pc[q] = "parked" /\ j \in Nat
        BY DEF Parked, ArmsOf
      <3> QED
        BY <3>1, <3>2
    <2>3. CASE Parked("send", c) = {}
      <3>1. /\ Decide(p, IF queued[c] # 0 THEN "received" ELSE "eof")
            /\ queued' = [queued EXCEPT ![c] = IF @ = 0 THEN 0 ELSE @ - 1]
            /\ UNCHANGED took
        BY <1>2, <2>3 DEF RecvCase
      <3> QED
        BY <2>1, <3>1 DEF Decide
    <2> QED
      BY <2>2, <2>3
  <1>3. ASSUME NEW i \in ArmsOf(p), ClosingCase(p, i)
        PROVE  MovesTyped
    BY <1>3 DEF ClosingCase, Decide
  <1>4. ASSUME CanceledCase(p)
        PROVE  MovesTyped
    BY <1>4 DEF CanceledCase, Decide
  <1> QED
    BY <1>1, <1>2, <1>3, <1>4 DEF ReadyCase

\* Every step between registration and release preserves the invariant.
LEMMA SelectStepIInv ==
    ASSUME IInv, NEW p \in Procs,
           \/ OperandError(p) \/ Evaluated(p) \/ CheckContext(p)
           \/ Probe(p) \/ ArmBeforeBlock(p) \/ Block(p)
    PROVE  IInv'
  <1>1. CASE OperandError(p) \/ Evaluated(p) \/ CheckContext(p) \/ ArmBeforeBlock(p)
    <2>1. TypeOK'
      BY <1>1 DEF IInv, TypeOK, PCs, Outcomes, OperandError, Evaluated, CheckContext,
                  ArmBeforeBlock, Decide, chanVars
    <2>2. \A q \in Procs : Moves(q)
      BY <1>1 DEF IInv, TypeOK, PCs, Moves, Selecting, OperandError, Evaluated,
                  CheckContext, ArmBeforeBlock, Decide
    <2>3. UNCHANGED <<goClosed, closed, active, held, op, next, off>>
      BY <1>1 DEF OperandError, Evaluated, CheckContext, ArmBeforeBlock, chanVars
    <2> QED
      BY <2>1, <2>2, <2>3, MovesIInv
  <1>2. CASE Probe(p) \/ Block(p)
    <2>1. UNCHANGED <<goSource, goClosed, closed, active, held, cancelled, op, next, off>>
      BY <1>2 DEF Probe, Block
    <2>2. MovesTyped
      <3>1. CASE ReadyCase(p)
        BY <1>2, <3>1, ReadyCaseMoves DEF Probe, Block
      <3>2. CASE ~ReadyCase(p)
        BY <1>2, <3>2 DEF Probe, Block, Decide, IInv, TypeOK, PCs, Outcomes, Moves,
                          Selecting, MovesTyped
      <3> QED
        BY <3>1, <3>2
    <2>3. TypeOK'
      BY <2>1, <2>2 DEF IInv, TypeOK, MovesTyped
    <2> QED
      BY <2>1, <2>2, <2>3, MovesIInv DEF MovesTyped
  <1> QED
    BY <1>1, <1>2

\* Cancellation wakes the parked processes and touches no registration, whether
\* it comes from outside or from a process with a malformed operand.
LEMMA CancelIInv ==
    ASSUME IInv, Cancel \/ \E p \in Procs : MalformedOperand(p)
    PROVE  IInv'
  <1>1. TypeOK'
    <2>1. CASE Cancel
      BY <2>1 DEF IInv, TypeOK, PCs, Outcomes, Cancel, chanVars
    <2>2. ASSUME NEW p \in Procs, MalformedOperand(p) PROVE TypeOK'
      <3>1. pc' \in [Procs -> PCs]
        BY <2>2 DEF IInv, TypeOK, PCs, MalformedOperand
      <3>2. outcome' \in [Procs -> Outcomes]
        BY <2>2 DEF IInv, TypeOK, Outcomes, MalformedOperand
      <3> QED
        BY <2>2, <3>1, <3>2 DEF IInv, TypeOK, MalformedOperand, chanVars
    <2> QED
      BY <2>1, <2>2
  <1>2. \A q \in Procs : Moves(q)
    BY DEF IInv, TypeOK, Moves, Selecting, Cancel, MalformedOperand
  <1>3. UNCHANGED <<goClosed, closed, active, held, op, next, off>>
    BY DEF Cancel, MalformedOperand, chanVars
  <1> QED
    BY <1>1, <1>2, <1>3, MovesIInv

-----------------------------------------------------------------------------
(* Registration and release.                                               *)

\* Registering the next arm, refusing it or passing over it.
LEMMA RegisterArmIInv ==
    ASSUME IInv, NEW p \in Procs, RegisterArm(p)
    PROVE  IInv'
  <1> DEFINE i == next[p]
             c == op[p].arms[i].ch
  <1>0. /\ pc[p] = "eval" /\ i \in ArmsOf(p) /\ i \in Nat \ {0}
        /\ op[p].arms \in Seq(Arm)
        /\ UNCHANGED <<goSource, queued, goClosed, closed, cancelled, op, took>>
    BY DEF RegisterArm, IInv, TypeOK, ArmsOf
  <1>1. CASE op[p].arms[i].dir = "send" /\ c \in Chans /\ BeginSend(p, i, c)
    <2> USE <1>0, <1>1 DEF IInv, BeginSend
    <2>0. /\ op[p].arms[i] = [dir |-> "send", ch |-> c]
          /\ <<p, i>> \notin held[c]
      <3>1. op[p].arms[i] \in Arm
        BY DEF ArmsOf
      <3>2. op[p].arms[i] = [dir |-> "send", ch |-> c]
        BY <3>1 DEF Arm
      <3>3. ASSUME <<p, i>> \in held[c] PROVE FALSE
        <4>1. Registered(c, <<p, i>>)
          BY <3>3 DEF HeldByArms
        <4> QED
          BY <4>1 DEF Registered
      <3> QED
        BY <3>2, <3>3
    <2>1. TypeOK'
      <3>1. active' \in [Chans -> Nat] /\ held' \in [Chans -> SUBSET (Procs \X Nat)]
        BY DEF TypeOK
      <3>2. next' \in [Procs -> Nat \ {0}]
        BY DEF TypeOK
      <3> QED
        BY <3>1, <3>2 DEF TypeOK
    <2>2. ActiveCounts'
      <3>1. IsFiniteSet(held[c]) /\ active[c] = Cardinality(held[c])
        BY DEF ActiveCounts
      <3>2. /\ IsFiniteSet(held[c] \cup {<<p, i>>})
            /\ Cardinality(held[c] \cup {<<p, i>>}) = Cardinality(held[c]) + 1
        BY <3>1, <2>0, FS_AddElement
      <3> QED
        BY <3>1, <3>2 DEF ActiveCounts, TypeOK
    <2>3. HeldByArms'
      <3> SUFFICES ASSUME NEW d \in Chans, NEW x \in held'[d]
                   PROVE  Registered(d, x)'
        BY DEF HeldByArms
      <3>1. CASE x \in held[d]
        <4>1. Registered(d, x) /\ x[1] \in Procs /\ x[2] \in Nat
          BY <3>1 DEF HeldByArms, TypeOK
        <4> QED
          BY <4>1 DEF Registered, ArmsOf, TypeOK
      <3>2. CASE x \notin held[d]
        <4>1. d = c /\ x = <<p, i>>
          BY <3>2 DEF TypeOK
        <4> QED
          BY <4>1, <2>0 DEF Registered, ArmsOf, TypeOK
      <3> QED
        BY <3>1, <3>2
    <2>4. OfferedIsHeld'
      <3> SUFFICES ASSUME NEW q \in Procs, NEW d \in Chans, NEW j \in ArmsOf(q) \ off[q],
                          op[q].arms[j] = [dir |-> "send", ch |-> d],
                          pc[q] \in Selecting \/ (pc[q] = "eval" /\ j < next'[q])
                   PROVE  <<q, j>> \in held'[d]
        BY DEF OfferedIsHeld, ArmsOf
      <3>1. CASE q = p /\ j = i
        BY <3>1, <2>0 DEF TypeOK
      <3>2. CASE ~(q = p /\ j = i)
        <4>1. j \in Nat
          BY DEF ArmsOf, TypeOK
        <4>2. pc[q] \in Selecting \/ (pc[q] = "eval" /\ j < next[q])
          BY <3>2, <4>1 DEF TypeOK, Selecting
        <4>3. <<q, j>> \in held[d]
          BY <4>2 DEF OfferedIsHeld
        <4> QED
          BY <4>3 DEF TypeOK
      <3> QED
        BY <3>1, <3>2
    <2>5. ClosedIsEmpty' /\ IdleIsClean'
      BY DEF ClosedIsEmpty, IdleIsClean, TypeOK
    <2>6. ClosersWait' /\ OneCloser'
      BY DEF ClosersWait, OneCloser, Closer, TypeOK
    <2> QED
      BY <2>1, <2>2, <2>3, <2>4, <2>5, <2>6
  <1>2. CASE Decide(p, "closed") /\ UNCHANGED <<active, held, next, off>>
    <2>1. TypeOK'
      BY <1>0, <1>2 DEF IInv, TypeOK, PCs, Outcomes, Decide
    <2>2. \A q \in Procs : Moves(q)
      BY <1>0, <1>2 DEF IInv, TypeOK, Moves, Decide
    <2> QED
      BY <1>0, <1>2, <2>1, <2>2, MovesIInv
  <1>3. CASE /\ \/ op[p].arms[i].dir # "send" \/ c \notin Chans
                \/ op[p].arms[i] = [dir |-> "send", ch |-> c] /\ i \in off'[p]
             /\ next' = [next EXCEPT ![p] = i + 1]
             /\ off' \in [Procs -> SUBSET Nat]
             /\ \A q \in Procs : off[q] \subseteq off'[q]
             /\ UNCHANGED <<active, held, pc, outcome>>
    <2> USE <1>0, <1>3 DEF IInv
    <2>1. TypeOK'
      BY DEF TypeOK
    <2>2. ActiveCounts' /\ ClosedIsEmpty' /\ IdleIsClean' /\ ClosersWait' /\ OneCloser'
      BY DEF ActiveCounts, ClosedIsEmpty, IdleIsClean, ClosersWait, OneCloser, Closer, TypeOK
    <2>3. HeldByArms'
      <3> SUFFICES ASSUME NEW d \in Chans, NEW x \in held[d]
                   PROVE  Registered(d, x)'
        BY DEF HeldByArms
      <3>1. Registered(d, x) /\ x[1] \in Procs /\ x[2] \in Nat
        BY DEF HeldByArms, TypeOK
      <3> QED
        BY <3>1 DEF Registered, ArmsOf, TypeOK
    <2>4. OfferedIsHeld'
      <3> SUFFICES ASSUME NEW q \in Procs, NEW d \in Chans, NEW j \in ArmsOf(q) \ off'[q],
                          op[q].arms[j] = [dir |-> "send", ch |-> d],
                          pc[q] \in Selecting \/ (pc[q] = "eval" /\ j < next'[q])
                   PROVE  <<q, j>> \in held[d]
        BY DEF OfferedIsHeld, ArmsOf
      <3>1. ~(q = p /\ j = i)
        OBVIOUS
      <3>2. j \in Nat /\ j \in ArmsOf(q) \ off[q]
        BY DEF ArmsOf, TypeOK
      <3>3. pc[q] \in Selecting \/ (pc[q] = "eval" /\ j < next[q])
        BY <3>1, <3>2 DEF TypeOK, Selecting
      <3> QED
        BY <3>2, <3>3 DEF OfferedIsHeld
    <2> QED
      BY <2>1, <2>2, <2>3, <2>4
  <1>4. CASE op[p].arms[i].dir = "send" /\ c \in Chans /\ RefuseSend(p, i, c)
    <2>1. CASE op[p].kind = "select" /\ goSource
      <3>1. op[p].arms[i] = [dir |-> "send", ch |-> c]
        <4>1. op[p].arms[i] \in Arm
          BY <1>0 DEF ArmsOf
        <4> QED
          BY <4>1, <1>4 DEF Arm
      <3> DEFINE nilled == {j \in ArmsOf(p) : op[p].arms[j] = [dir |-> "send", ch |-> c]}
      <3>a. off' = [off EXCEPT ![p] = off[p] \cup nilled]
        BY <1>4, <2>1 DEF RefuseSend
      <3>b. i \in nilled /\ nilled \subseteq Nat
        BY <1>0, <3>1 DEF ArmsOf
      <3> HIDE DEF nilled
      <3>2. i \in off'[p] /\ off' \in [Procs -> SUBSET Nat]
        BY <3>a, <3>b DEF IInv, TypeOK
      <3>3. \A q \in Procs : off[q] \subseteq off'[q]
        BY <3>a DEF IInv, TypeOK
      <3> QED
        BY <1>3, <1>4, <2>1, <3>1, <3>2, <3>3 DEF RefuseSend
    <2>2. CASE ~(op[p].kind = "select" /\ goSource)
      BY <1>2, <1>4, <2>2 DEF RefuseSend
    <2> QED
      BY <2>1, <2>2
  <1>5. CASE ~(op[p].arms[i].dir = "send" /\ c \in Chans) /\ SkipArm(p, i)
    BY <1>3, <1>5 DEF SkipArm, IInv, TypeOK
  <1> QED
    BY <1>1, <1>4, <1>5 DEF RegisterArm

\* endSend gives up one registration and, as the last one, wakes the closers.
LEMMA EndSendIInv ==
    ASSUME IInv, NEW p \in Procs, NEW c \in Chans, NEW i \in ArmsOf(p), EndSend(p, c, i)
    PROVE  IInv'
  <1> USE DEF IInv, EndSend
  <1>0. /\ i \in Nat
        /\ IsFiniteSet(held[c]) /\ active[c] = Cardinality(held[c])
        /\ active[c] \in Nat
    BY DEF ArmsOf, TypeOK, ActiveCounts
  <1>1. /\ IsFiniteSet(held[c] \ {<<p, i>>})
        /\ Cardinality(held[c] \ {<<p, i>>}) = Cardinality(held[c]) - 1
    BY <1>0, FS_RemoveElement
  <1>2. active[c] - 1 \in Nat
    BY <1>0, <1>1, FS_CardinalityType
  <1>3. \A q \in Procs : \/ pc'[q] = pc[q]
                         \/ pc[q] = "asleep" /\ pc'[q] = "closing"
    BY DEF TypeOK
  <1>4. TypeOK'
    <2>1. active' \in [Chans -> Nat] /\ held' \in [Chans -> SUBSET (Procs \X Nat)]
      BY <1>2 DEF TypeOK
    <2>2. pc' \in [Procs -> PCs]
      BY DEF TypeOK, PCs
    <2> QED
      BY <2>1, <2>2 DEF TypeOK
  <1>5. ActiveCounts'
    BY <1>0, <1>1 DEF ActiveCounts, TypeOK
  <1>6. HeldByArms'
    <2> SUFFICES ASSUME NEW d \in Chans, NEW x \in held'[d]
                 PROVE  Registered(d, x)'
      BY DEF HeldByArms
    <2>1. Registered(d, x) /\ x[1] \in Procs
      BY DEF HeldByArms, TypeOK
    <2>2. pc'[x[1]] = pc[x[1]]
      BY <2>1, <1>3 DEF Registered, Selecting
    <2> QED
      BY <2>1, <2>2 DEF Registered, ArmsOf
  <1>7. OfferedIsHeld'
    <2> SUFFICES ASSUME NEW q \in Procs, NEW d \in Chans, NEW j \in ArmsOf(q) \ off[q],
                        op[q].arms[j] = [dir |-> "send", ch |-> d],
                        pc'[q] \in Selecting \/ (pc'[q] = "eval" /\ j < next[q])
                 PROVE  <<q, j>> \in held'[d]
      BY DEF OfferedIsHeld, ArmsOf
    <2>1. pc'[q] = pc[q]
      BY <1>3 DEF Selecting
    <2>2. <<q, j>> \in held[d]
      BY <2>1 DEF OfferedIsHeld
    <2>3. q # p
      BY <2>1 DEF Selecting
    <2> QED
      BY <2>2, <2>3 DEF TypeOK
  <1>8. ClosedIsEmpty' /\ IdleIsClean'
    BY <1>3 DEF ClosedIsEmpty, IdleIsClean, TypeOK
  <1>9. OneCloser'
    BY <1>3 DEF OneCloser, Closer
  <1>10. ClosersWait'
    <2> SUFFICES ASSUME NEW q \in Procs, pc'[q] \in {"closing", "asleep"}
                 PROVE  /\ op[q].arms \in Seq(Arm) /\ op[q].arms # << >>
                        /\ op[q].arms[1].ch \in Chans
                        /\ pc'[q] = "asleep" => active'[op[q].arms[1].ch] # 0
      BY DEF ClosersWait
    <2>1. pc[q] \in {"closing", "asleep"}
      BY <1>3
    <2>2. ASSUME pc'[q] = "asleep" PROVE active'[op[q].arms[1].ch] # 0
      <3>1. pc[q] = "asleep"
        BY <2>2, <1>3
      <3>2. CASE op[q].arms[1].ch = c
        BY <2>2, <3>1, <3>2
      <3>3. CASE op[q].arms[1].ch # c
        BY <2>1, <3>1, <3>3 DEF ClosersWait, TypeOK
      <3> QED
        BY <3>2, <3>3
    <2> QED
      BY <2>1, <2>2 DEF ClosersWait
  <1> QED
    BY <1>4, <1>5, <1>6, <1>7, <1>8, <1>9, <1>10

\* A released operation is forgotten; it holds no registration any more.
LEMMA ReturnIInv ==
    ASSUME IInv, NEW p \in Procs, Return(p)
    PROVE  IInv'
  <1> USE DEF IInv, Return, chanVars
  <1>1. TypeOK'
    <2>1. NoOp \in [kind : Kinds, arms : Seq(Arm), def : BOOLEAN]
      BY DEF NoOp, Kinds
    <2>2. "idle" \in PCs /\ "pending" \in Outcomes /\ 1 \in Nat \ {0}
      BY DEF PCs, Outcomes
    <2> QED
      BY <2>1, <2>2 DEF TypeOK
  <1>2. ActiveCounts' /\ ClosedIsEmpty' /\ IdleIsClean'
    BY DEF ActiveCounts, ClosedIsEmpty, IdleIsClean, TypeOK
  <1>3. HeldByArms'
    <2> SUFFICES ASSUME NEW c \in Chans, NEW x \in held[c]
                 PROVE  Registered(c, x)'
      BY DEF HeldByArms
    <2>1. /\ Registered(c, x) /\ x[1] \in Procs /\ x[2] \in ArmsOf(x[1])
          /\ x = <<x[1], x[2]>>
      BY DEF HeldByArms, TypeOK, Registered
    <2>2. x[1] # p
      BY <2>1
    <2> QED
      BY <2>1, <2>2 DEF Registered, ArmsOf, TypeOK
  <1>4. OfferedIsHeld'
    BY DEF OfferedIsHeld, ArmsOf, TypeOK, Selecting
  <1>5. ClosersWait' /\ OneCloser'
    BY DEF ClosersWait, OneCloser, Closer, TypeOK
  <1> QED
    BY <1>1, <1>2, <1>3, <1>4, <1>5

-----------------------------------------------------------------------------
(* Closing.                                                                *)

\* The step of a closer that has passed the closed check, at its first look at
\* c.active and after every wakeup.
LEMMA FinishOrSleepIInv ==
    ASSUME IInv, NEW p \in Procs, NEW c \in Chans, NEW W \in SUBSET Procs,
           \A q \in W : pc[q] = "parked",
           pc[p] \in {"idle", "closing"},
           ~goClosed[c],
           \A q \in Procs : Closer(q, c) => q = p,
           op' \in [Procs -> [kind : Kinds, arms : Seq(Arm), def : BOOLEAN]],
           \A q \in Procs \ {p} : op'[q] = op[q],
           op'[p].arms # << >>, op'[p].arms[1].ch = c,
           closed' = [closed EXCEPT ![c] = TRUE],
           FinishOrSleep(p, c, W),
           UNCHANGED <<goSource, queued, active, held, cancelled, next, off, took>>
    PROVE  IInv'
  <1> USE DEF IInv
  <1>0. p \notin W
    OBVIOUS
  <1>1. TypeOK'
    <2>1. CASE active[c] # 0
      BY <2>1 DEF FinishOrSleep, TypeOK, PCs, Outcomes
    <2>2. CASE active[c] = 0
      <3>1. pc' \in [Procs -> PCs]
        BY <2>2 DEF FinishOrSleep, TypeOK, PCs
      <3>2. outcome' \in [Procs -> Outcomes]
        BY <2>2 DEF FinishOrSleep, TypeOK, Outcomes
      <3>3. goClosed' \in [Chans -> BOOLEAN] /\ closed' \in [Chans -> BOOLEAN]
        BY <2>2 DEF FinishOrSleep, TypeOK
      <3> QED
        BY <3>1, <3>2, <3>3 DEF TypeOK
    <2> QED
      BY <2>1, <2>2
  <1>2. \A q \in Procs \ {p} : pc'[q] = pc[q] \/ (pc[q] = "parked" /\ pc'[q] = "release")
    <2> SUFFICES ASSUME NEW q \in Procs \ {p}
                 PROVE  pc'[q] = pc[q] \/ (pc[q] = "parked" /\ pc'[q] = "release")
      OBVIOUS
    <2>1. CASE active[c] # 0
      BY <2>1 DEF FinishOrSleep, TypeOK
    <2>2. CASE active[c] = 0
      BY <2>2 DEF FinishOrSleep, Parked, TypeOK
    <2> QED
      BY <2>1, <2>2
  <1>3. /\ active[c] # 0 => pc'[p] = "asleep" /\ goClosed' = goClosed
        /\ active[c] = 0 => pc'[p] = "release" /\ goClosed' = [goClosed EXCEPT ![c] = TRUE]
    BY <1>0 DEF FinishOrSleep, TypeOK
  <1>4. ActiveCounts'
    BY DEF ActiveCounts
  <1>5. HeldByArms'
    <2> SUFFICES ASSUME NEW d \in Chans, NEW x \in held[d]
                 PROVE  Registered(d, x)'
      BY DEF HeldByArms
    <2>1. Registered(d, x) /\ x[1] \in Procs
      BY DEF HeldByArms, TypeOK
    <2>2. x[1] # p
      BY <2>1 DEF Registered, Selecting
    <2> QED
      BY <2>1, <2>2, <1>2 DEF Registered, ArmsOf, Selecting
  <1>6. OfferedIsHeld'
    <2> SUFFICES ASSUME NEW q \in Procs, NEW d \in Chans, NEW j \in (ArmsOf(q) \ off[q])',
                        op'[q].arms[j] = [dir |-> "send", ch |-> d],
                        pc'[q] \in Selecting \/ (pc'[q] = "eval" /\ j < next[q])
                 PROVE  <<q, j>> \in held[d]
      BY DEF OfferedIsHeld
    <2>1. q # p
      BY <1>3 DEF Selecting, TypeOK
    <2>2. op'[q] = op[q] /\ (pc[q] \in Selecting \/ (pc[q] = "eval" /\ j < next[q]))
      BY <2>1, <1>2 DEF Selecting
    <2> QED
      BY <2>2 DEF OfferedIsHeld, ArmsOf
  <1>7. ClosedIsEmpty'
    <2> SUFFICES ASSUME NEW d \in Chans, goClosed'[d]
                 PROVE  closed'[d] /\ held[d] = {}
      BY DEF ClosedIsEmpty
    <2>1. CASE goClosed[d]
      BY <2>1 DEF ClosedIsEmpty, TypeOK
    <2>2. CASE ~goClosed[d]
      <3>1. d = c /\ active[c] = 0
        BY <2>2, <1>3 DEF TypeOK
      <3>2. held[c] = {}
        BY <3>1, FS_EmptySet DEF ActiveCounts
      <3> QED
        BY <3>1, <3>2 DEF TypeOK
    <2> QED
      BY <2>1, <2>2
  <1>8. IdleIsClean'
    BY <1>2, <1>3 DEF IdleIsClean, TypeOK
  <1>9. ClosersWait'
    <2> SUFFICES ASSUME NEW q \in Procs, pc'[q] \in {"closing", "asleep"}
                 PROVE  /\ op'[q].arms \in Seq(Arm) /\ op'[q].arms # << >>
                        /\ op'[q].arms[1].ch \in Chans
                        /\ pc'[q] = "asleep" => active[op'[q].arms[1].ch] # 0
      BY DEF ClosersWait
    <2>1. CASE q = p
      BY <2>1, <1>3 DEF TypeOK
    <2>2. CASE q # p
      BY <2>2, <1>2 DEF ClosersWait
    <2> QED
      BY <2>1, <2>2
  <1>10. OneCloser'
    <2> SUFFICES ASSUME NEW d \in Chans, NEW q \in Procs, Closer(q, d)'
                 PROVE  /\ closed'[d] /\ ~goClosed'[d]
                        /\ \A r \in Procs : Closer(r, d)' => r = q
      BY DEF OneCloser
    <2>1. \A r \in Procs \ {p} : Closer(r, d)' => Closer(r, d) /\ d # c
      BY <1>2 DEF Closer
    <2>2. Closer(p, d)' => d = c /\ active[c] # 0 /\ goClosed' = goClosed
      BY <1>3 DEF Closer, TypeOK
    <2>3. CASE q = p
      BY <2>1, <2>2, <2>3 DEF TypeOK
    <2>4. CASE q # p
      BY <2>1, <2>2, <2>4, <1>3 DEF OneCloser, TypeOK
    <2> QED
      BY <2>3, <2>4
  <1> QED
    BY <1>1, <1>4, <1>5, <1>6, <1>7, <1>8, <1>9, <1>10

\* A close sets the flag, and finishes or sleeps.
LEMMA BashPPCloseIInv ==
    ASSUME IInv, NEW p \in Procs, NEW c \in Chans \cup {NilChan}, BashPPClose(p, c)
    PROVE  IInv'
  <1> USE DEF IInv
  <1>0. /\ pc[p] = "idle"
        /\ op' = [op EXCEPT ![p] = [kind |-> "close", def |-> FALSE,
                                    arms |-> <<[dir |-> "recv", ch |-> c]>>]]
        /\ UNCHANGED <<goSource, queued, active, held, cancelled, next, off, took>>
    BY DEF BashPPClose
  <1>1. op' \in [Procs -> [kind : Kinds, arms : Seq(Arm), def : BOOLEAN]]
    <2>1. [dir |-> "recv", ch |-> c] \in Arm
      BY DEF Arm
    <2> QED
      BY <1>0, <2>1 DEF TypeOK, Kinds
  <1>2. op'[p].arms # << >> /\ op'[p].arms[1].ch = c
    BY <1>0 DEF TypeOK
  <1>3. \A q \in Procs \ {p} : op'[q] = op[q]
    BY <1>0 DEF TypeOK
  <1>4. CASE c = NilChan \/ closed[c]
    <2>0. Decide(p, "closed") /\ UNCHANGED <<goClosed, closed>>
      BY <1>4 DEF BashPPClose
    <2>1. TypeOK'
      BY <1>0, <1>1, <2>0 DEF TypeOK, Decide, PCs, Outcomes
    <2>2. ActiveCounts' /\ ClosedIsEmpty' /\ IdleIsClean'
      BY <1>0, <2>0 DEF ActiveCounts, ClosedIsEmpty, IdleIsClean, Decide, TypeOK
    <2>3. HeldByArms'
      <3> SUFFICES ASSUME NEW d \in Chans, NEW x \in held[d]
                   PROVE  Registered(d, x)'
        BY <1>0 DEF HeldByArms
      <3>1. Registered(d, x) /\ x[1] \in Procs
        BY DEF HeldByArms, TypeOK
      <3>2. x[1] # p
        BY <3>1, <1>0 DEF Registered, Selecting
      <3> QED
        BY <3>1, <3>2, <1>0, <1>3, <2>0 DEF Registered, ArmsOf, Decide, TypeOK
    <2>4. OfferedIsHeld'
      BY <1>0, <1>3, <2>0 DEF OfferedIsHeld, ArmsOf, Selecting, Decide, TypeOK
    <2>5. ClosersWait' /\ OneCloser'
      BY <1>0, <1>3, <2>0 DEF ClosersWait, OneCloser, Closer, Decide, TypeOK
    <2> QED
      BY <2>1, <2>2, <2>3, <2>4, <2>5
  <1>5. CASE ~(c = NilChan \/ closed[c])
    <2>1. closed' = [closed EXCEPT ![c] = TRUE] /\ FinishOrSleep(p, c, WakeSenders(c))
      BY <1>5 DEF BashPPClose
    <2>2. c \in Chans /\ ~goClosed[c] /\ \A q \in Procs : ~Closer(q, c)
      BY <1>5 DEF ClosedIsEmpty, OneCloser
    <2>3. WakeSenders(c) \in SUBSET Procs /\ \A q \in WakeSenders(c) : pc[q] = "parked"
      BY DEF WakeSenders
    <2> QED
      BY <1>0, <1>1, <1>2, <1>3, <2>1, <2>2, <2>3, FinishOrSleepIInv
  <1> QED
    BY <1>4, <1>5

\* A woken closer finishes, or goes back to sleep.
LEMMA CloseWokenIInv ==
    ASSUME IInv, NEW p \in Procs, CloseWoken(p)
    PROVE  IInv'
  <1>0. PICK c \in Chans : c = op[p].arms[1].ch
    BY DEF IInv, ClosersWait, CloseWoken
  <1>1. /\ op[p].arms # << >> /\ Closer(p, c)
        /\ closed[c] /\ ~goClosed[c]
        /\ \A q \in Procs : Closer(q, c) => q = p
    BY <1>0 DEF IInv, ClosersWait, OneCloser, CloseWoken, Closer
  <1>2. closed' = [closed EXCEPT ![c] = TRUE]
    BY <1>1 DEF IInv, TypeOK, CloseWoken
  <1>3. /\ op' \in [Procs -> [kind : Kinds, arms : Seq(Arm), def : BOOLEAN]]
        /\ \A q \in Procs \ {p} : op'[q] = op[q]
        /\ op'[p].arms # << >> /\ op'[p].arms[1].ch = c
    BY <1>0, <1>1 DEF IInv, TypeOK, CloseWoken
  <1>4. /\ FinishOrSleep(p, c, {}) /\ pc[p] = "closing"
        /\ UNCHANGED <<goSource, queued, active, held, cancelled, next, off, took>>
    BY <1>0 DEF CloseWoken
  <1>5. PICK W \in SUBSET Procs : W = {}
    OBVIOUS
  <1>6. FinishOrSleep(p, c, W) /\ \A q \in W : pc[q] = "parked"
    BY <1>4, <1>5
  <1> QED
    BY <1>1, <1>2, <1>3, <1>4, <1>6, FinishOrSleepIInv

-----------------------------------------------------------------------------
(* The theorems.                                                           *)

\* IInv holds in every reachable state, whatever the program's processes do.
THEOREM Inductive == Spec => []IInv
  <1>1. ASSUME IInv, [Next]_vars PROVE IInv'
    <2>1. CASE Cancel
      BY <1>1, <2>1, CancelIInv
    <2>2. ASSUME NEW p \in Procs, Begin(p) PROVE IInv'
      <3>1. ASSUME NEW c \in Chans \cup {NilChan}, BashPPSend(p, c) \/ BashPPReceive(p, c)
            PROVE  IInv'
        <4>1. /\ <<[dir |-> "send", ch |-> c]>> \in Seq(Arm)
              /\ <<[dir |-> "recv", ch |-> c]>> \in Seq(Arm)
              /\ "send" \in Kinds /\ "recv" \in Kinds /\ FALSE \in BOOLEAN
          BY DEF Arm, Kinds
        <4> QED
          BY <1>1, <3>1, <4>1, StartIInv DEF BashPPSend, BashPPReceive
      <3>2. ASSUME NEW c \in Chans \cup {NilChan}, BashPPClose(p, c) PROVE IInv'
        BY <1>1, <3>2, BashPPCloseIInv
      <3>3. ASSUME NEW s \in Selects, BashPPSelect(p, s) PROVE IInv'
        <4>1. s.arms \in Seq(Arm) /\ s.def \in BOOLEAN /\ "select" \in Kinds
          BY SelectsAssumption DEF Kinds
        <4> QED
          BY <1>1, <3>3, <4>1, StartIInv DEF BashPPSelect
      <3> QED
        BY <2>2, <3>1, <3>2, <3>3 DEF Begin
    <2>3. ASSUME NEW p \in Procs, Step(p) PROVE IInv'
      <3>1. CASE \E c \in Chans : \E i \in ArmsOf(p) : EndSend(p, c, i)
        BY <1>1, <3>1, EndSendIInv
      <3> QED
        BY <1>1, <2>3, <3>1, RegisterArmIInv, SelectStepIInv, ReturnIInv, CloseWokenIInv,
           CancelIInv DEF Step
    <2>4. CASE UNCHANGED vars
      <3>1. TypeOK'
        BY <1>1, <2>4 DEF IInv, TypeOK, vars, chanVars, procVars
      <3>2. UNCHANGED <<goClosed, closed, active, held, op, next, off>>
        BY <2>4 DEF vars, chanVars, procVars
      <3>3. \A q \in Procs : Moves(q)
        BY <2>4 DEF Moves, vars, procVars
      <3> QED
        BY <1>1, <3>1, <3>2, <3>3, MovesIInv
    <2> QED
      BY <1>1, <2>1, <2>2, <2>3, <2>4 DEF Next
  <1> QED
    BY <1>1, InitIInv, PTL DEF Spec

\* The state of the channels and of their users is always well formed.
THEOREM TypeCorrect == Spec => []TypeOK
  BY Inductive, PTL DEF IInv

\* No Go select ever offers a send on a Go channel that close() has closed: a
\* send arm in a select is registered, and the channel is closed only when the
\* last registration is gone and closed refuses new ones.
THEOREM SendSafety == Spec => []NoSendOnClosed
  <1>1. ASSUME IInv PROVE NoSendOnClosed
    <2> SUFFICES ASSUME NEW p \in Procs, pc[p] \in Selecting, NEW i \in ArmsOf(p),
                        NEW c \in Chans, Offers(p, i, "send", c), goClosed[c]
                 PROVE  FALSE
      BY DEF NoSendOnClosed
    <2>1. op[p].arms[i] \in Arm
      BY <1>1 DEF IInv, TypeOK, ArmsOf
    <2>2. op[p].arms[i] = [dir |-> "send", ch |-> c] /\ i \in ArmsOf(p) \ off[p]
      BY <2>1 DEF Offers, Arm
    <2>3. <<p, i>> \in held[c]
      BY <1>1, <2>2 DEF IInv, OfferedIsHeld
    <2> QED
      BY <1>1, <2>3 DEF IInv, ClosedIsEmpty
  <1> QED
    BY <1>1, Inductive, PTL

\* close(ch) runs at most once per channel.
THEOREM CloseOnce == Spec => []OneCloser
  BY Inductive, PTL DEF IInv

\* A closer asleep on the condition variable always has a registered sender
\* whose endSend will broadcast.
THEOREM BroadcastNotLost == Spec => []NoLostBroadcast
  <1>1. ASSUME IInv PROVE NoLostBroadcast
    <2> SUFFICES ASSUME NEW p \in Procs, pc[p] = "asleep"
                 PROVE  /\ active[op[p].arms[1].ch] # 0
                        /\ held[op[p].arms[1].ch] # {}
      BY DEF NoLostBroadcast
    <2>1. op[p].arms[1].ch \in Chans /\ active[op[p].arms[1].ch] # 0
      BY <1>1 DEF IInv, ClosersWait
    <2> QED
      BY <1>1, <2>1, FS_EmptySet DEF IInv, ActiveCounts
  <1> QED
    BY <1>1, Inductive, PTL

-----------------------------------------------------------------------------
(* What a statement reports.                                               *)

\* What a step may do to the outcome of a process: nothing, decide it without
\* a value, decide it with the one value a channel took, or forget it.
Settles(q) ==
    \/ pc[q] # "release" /\ pc'[q] # "release" /\ outcome'[q] = outcome[q] /\ took'[q] = took[q]
    \/ pc'[q] = pc[q] /\ outcome'[q] = outcome[q] /\ took'[q] = took[q]
    \/ /\ pc[q] # "release" /\ pc'[q] = "release"
       /\ outcome'[q] # "sent" /\ took'[q] = took[q]
    \/ /\ pc[q] # "release" /\ pc'[q] = "release"
       /\ outcome'[q] = "sent" /\ \E i \in Nat : took'[q] = took[q] \cup {i}
    \/ outcome'[q] = "pending" /\ took'[q] = {}

\* Such steps keep every report honest.
LEMMA SettlesDecided ==
    ASSUME Decided, \A q \in Procs : Settles(q)
    PROVE  Decided'
  <1> SUFFICES ASSUME NEW p \in Procs
               PROVE  /\ pc'[p] # "release" => outcome'[p] = "pending"
                      /\ outcome'[p] # "sent" => took'[p] = {}
                      /\ outcome'[p] = "sent" => \E i \in took'[p] : took'[p] = {i}
    BY DEF Decided
  <1>1. /\ pc[p] # "release" => outcome[p] = "pending"
        /\ outcome[p] # "sent" => took[p] = {}
        /\ outcome[p] = "sent" => \E i \in took[p] : took[p] = {i}
    BY DEF Decided
  <1> QED
    BY <1>1 DEF Settles

\* Starting, registering and going on inside an operation decide nothing, or
\* decide without a value.
LEMMA PlainSettles ==
    ASSUME TypeOK, NEW p \in Procs, NEW q \in Procs,
           \/ \E kind, arms, def : Start(p, kind, arms, def)
           \/ RegisterArm(p) \/ OperandError(p) \/ Evaluated(p) \/ CheckContext(p)
           \/ ArmBeforeBlock(p) \/ Return(p)
           \/ MalformedOperand(p) \/ Cancel
           \/ \E c \in Chans : \E i \in ArmsOf(p) : EndSend(p, c, i)
           \/ UNCHANGED vars
    PROVE  Settles(q)
  <1> USE DEF Settles, TypeOK
  <1>1. CASE \E kind, arms, def : Start(p, kind, arms, def)
    BY <1>1 DEF Start
  <1>2. CASE RegisterArm(p)
    <2>1. took' = took /\ pc[p] # "release"
      BY <1>2 DEF RegisterArm
    <2>2. \/ pc' = pc /\ outcome' = outcome
          \/ Decide(p, "closed")
      BY <1>2 DEF RegisterArm, BeginSend, RefuseSend, SkipArm
    <2> QED
      BY <2>1, <2>2 DEF Decide
  <1>3. CASE OperandError(p) \/ Evaluated(p) \/ CheckContext(p) \/ ArmBeforeBlock(p)
    BY <1>3 DEF OperandError, Evaluated, CheckContext, ArmBeforeBlock, Decide
  <1>4. CASE Return(p)
    BY <1>4 DEF Return
  <1>5. CASE MalformedOperand(p)
    BY <1>5 DEF MalformedOperand
  <1>6. CASE Cancel
    BY <1>6 DEF Cancel
  <1>7. CASE \E c \in Chans : \E i \in ArmsOf(p) : EndSend(p, c, i)
    BY <1>7 DEF EndSend
  <1>8. CASE UNCHANGED vars
    BY <1>8 DEF vars, procVars
  <1> QED
    BY <1>1, <1>2, <1>3, <1>4, <1>5, <1>6, <1>7, <1>8

\* A pass of a Go select commits one arm of the process, and at most one of a
\* parked peer.
LEMMA SelectSettles ==
    ASSUME TypeOK, NEW p \in Procs, NEW q \in Procs, Probe(p) \/ Block(p)
    PROVE  Settles(q)
  <1> USE DEF Settles, TypeOK
  <1>0. pc[p] \in {"probe", "block"}
    BY DEF Probe, Block
  <1>1. ASSUME NEW i \in ArmsOf(p), SendCase(p, i, op[p].arms[i].ch)
        PROVE  Settles(q)
    <2>1. i \in Nat /\ took' = [took EXCEPT ![p] = @ \cup {i}]
      BY <1>1 DEF ArmsOf, SendCase
    <2>2. CASE Parked("recv", op[p].arms[i].ch) # {}
      <3>1. PICK r \in Parked("recv", op[p].arms[i].ch) :
              /\ pc' = [pc EXCEPT ![p] = "release", ![r] = "release"]
              /\ outcome' = [outcome EXCEPT ![p] = "sent", ![r] = "received"]
        BY <1>1, <2>2 DEF SendCase
      <3>2. r \in Procs /\ pc[r] = "parked" /\ r # p
        BY <1>0 DEF Parked
      <3> QED
        BY <1>0, <2>1, <3>1, <3>2
    <2>3. CASE Parked("recv", op[p].arms[i].ch) = {}
      <3>1. Decide(p, "sent")
        BY <1>1, <2>3 DEF SendCase
      <3> QED
        BY <1>0, <2>1, <3>1 DEF Decide
    <2> QED
      BY <2>2, <2>3
  <1>2. ASSUME NEW i \in ArmsOf(p), RecvCase(p, i, op[p].arms[i].ch)
        PROVE  Settles(q)
    <2>1. CASE Parked("send", op[p].arms[i].ch) # {}
      <3>1. PICK r \in Parked("send", op[p].arms[i].ch) : \E j \in ArmsOf(r) :
              /\ pc' = [pc EXCEPT ![p] = "release", ![r] = "release"]
              /\ outcome' = [outcome EXCEPT ![p] = "received", ![r] = "sent"]
              /\ took' = [took EXCEPT ![r] = @ \cup {j}]
        BY <1>2, <2>1 DEF RecvCase
      <3>2. PICK j \in ArmsOf(r) :
              /\ pc' = [pc EXCEPT ![p] = "release", ![r] = "release"]
              /\ outcome' = [outcome EXCEPT ![p] = "received", ![r] = "sent"]
              /\ took' = [took EXCEPT ![r] = @ \cup {j}]
        BY <3>1
      <3>3. r \in Procs /\ pc[r] = "parked" /\ r # p /\ j \in Nat
        BY <1>0 DEF Parked, ArmsOf
      <3> QED
        BY <1>0, <3>2, <3>3
    <2>2. CASE Parked("send", op[p].arms[i].ch) = {}
      <3>1. PICK e \in {"received", "eof"} : Decide(p, e) /\ UNCHANGED took
        BY <1>2, <2>2 DEF RecvCase
      <3> QED
        BY <1>0, <3>1 DEF Decide
    <2> QED
      BY <2>1, <2>2
  <1>3. CASE ~ReadyCase(p) \/ CanceledCase(p) \/ \E i \in ArmsOf(p) : ClosingCase(p, i)
    <2>1. PICK e \in {"closed", "canceled", "default", "undecided"} :
            /\ took' = took
            /\ \/ Decide(p, e) /\ e # "undecided"
               \/ pc' \in {[pc EXCEPT ![p] = "arm"], [pc EXCEPT ![p] = "parked"]}
                  /\ outcome' = outcome
      BY <1>3 DEF ClosingCase, CanceledCase, Probe, Block
    <2> QED
      BY <1>0, <2>1 DEF Decide
  <1> QED
    BY <1>1, <1>2, <1>3 DEF ReadyCase

\* Closing decides the closer, the senders it wakes and the parked receivers.
LEMMA CloseSettles ==
    ASSUME TypeOK, NEW p \in Procs, NEW q \in Procs,
           CloseWoken(p) \/ \E c \in Chans \cup {NilChan} : BashPPClose(p, c)
    PROVE  Settles(q)
  <1> USE DEF Settles, TypeOK
  <1>1. pc[p] \in {"idle", "closing"} /\ took' = took
    BY DEF CloseWoken, BashPPClose
  <1>2. ASSUME NEW c, NEW woken \in {{}, WakeSenders(c)}, FinishOrSleep(p, c, woken)
        PROVE  Settles(q)
    <2>1. \A r \in woken \cup Parked("recv", c) : pc[r] = "parked"
      BY DEF WakeSenders, Parked
    <2> QED
      BY <1>1, <1>2, <2>1 DEF FinishOrSleep
  <1>3. CASE Decide(p, "closed")
    BY <1>1, <1>3 DEF Decide
  <1>4. CASE CloseWoken(p)
    <2>1. FinishOrSleep(p, op[p].arms[1].ch, {})
      BY <1>4 DEF CloseWoken
    <2> QED
      BY <1>2, <2>1
  <1> QED
    BY <1>2, <1>3, <1>4 DEF BashPPClose

\* A statement reports what happened: a send exactly when a channel took one
\* of its values, and never more than one.
THEOREM HonestReports == Spec => []HonestOutcome
  <1>1. Init => HInv
    <2>1. Init => TypeOK
      BY InitIInv DEF IInv
    <2> QED
      BY <2>1 DEF Init, HInv, Decided
  <1>2. HInv /\ TypeOK' /\ [Next]_vars => HInv'
    <2> SUFFICES ASSUME HInv, TypeOK', [Next]_vars PROVE HInv'
      OBVIOUS
    <2>1. ASSUME NEW q \in Procs PROVE Settles(q)
      <3>1. CASE Cancel \/ UNCHANGED vars
        BY <3>1, PlainSettles DEF HInv
      <3>2. ASSUME NEW p \in Procs, Begin(p) PROVE Settles(q)
        <4>1. CASE \E kind, arms, def : Start(p, kind, arms, def)
          BY <4>1, PlainSettles DEF HInv
        <4>2. CASE \E c \in Chans \cup {NilChan} : BashPPClose(p, c)
          BY <4>2, CloseSettles DEF HInv
        <4> QED
          BY <3>2, <4>1, <4>2 DEF Begin, BashPPSend, BashPPReceive, BashPPSelect
      <3>3. ASSUME NEW p \in Procs, Step(p) PROVE Settles(q)
        BY <3>3, PlainSettles, SelectSettles, CloseSettles DEF HInv, Step
      <3> QED
        BY <3>1, <3>2, <3>3 DEF Next
    <2> QED
      BY <2>1, SettlesDecided DEF HInv
  <1>3. HInv => HonestOutcome
    <2> SUFFICES ASSUME HInv, NEW p \in Procs
                 PROVE  Cardinality(took[p]) = IF outcome[p] = "sent" THEN 1 ELSE 0
      BY DEF HonestOutcome
    <2>1. CASE outcome[p] = "sent"
      BY <2>1, FS_Singleton DEF HInv, Decided
    <2>2. CASE outcome[p] # "sent"
      BY <2>2, FS_EmptySet DEF HInv, Decided
    <2> QED
      BY <2>1, <2>2
  <1> QED
    BY <1>1, <1>2, <1>3, TypeCorrect, PTL DEF Spec
=============================================================================
