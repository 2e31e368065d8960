------------------------ MODULE CallbackMailboxProofs ------------------------
(***************************************************************************)
(* Proofs about CallbackMailbox, for any number of callbacks, slots and    *)
(* requests: the mapping is there whenever the interpreter touches it, a   *)
(* body runs at most once, and until the connection closes a callback      *)
(* returns the answer of its own body.                                     *)
(***************************************************************************)
EXTENDS CallbackMailbox, FiniteSetTheorems, SequenceTheorems, TLAPS

\* The values of the mailbox are told apart by their first component.
LEMMA Shapes ==
    /\ <<"none">> \in Work /\ <<"wake">> \in Message
    /\ <<"read">> \in Hand /\ <<"ended">> \in Hand
    /\ \A c \in Calls :
         /\ <<"sock", c>> \in Work /\ <<"callback", c>> \in Message
         /\ \A s \in Slots : <<"slot", c, s>> \in Work
         /\ \A r \in Requests : <<"push", c, r>> \in Hand
    /\ \A r \in Requests : <<"reply", r>> \in Message
    /\ \A x \in Work :
         /\ x[1] \in {"none", "slot", "sock"}
         /\ x[1] # "none" => x[2] \in Calls
         /\ x[1] = "slot" => x[3] \in Slots
    /\ \A m \in Message :
         /\ m[1] \in {"wake", "callback", "reply"}
         /\ m[1] = "callback" => m[2] \in Calls
         /\ m[1] = "reply" => m[2] \in Requests
    /\ \A x \in Hand : x[1] = "push" => x[2] \in Calls /\ x[3] \in Requests
  BY DEF Message, Work, Hand

\* A stack without its last element.
LEMMA FrontOf ==
    ASSUME NEW S, NEW seq \in Seq(S), Len(seq) >= 1
    PROVE  LET front == SubSeq(seq, 1, Len(seq) - 1)
           IN  /\ Len(front) = Len(seq) - 1
               /\ \A i \in 1 .. Len(seq) - 1 : front[i] = seq[i]
  <1>1. Len(seq) \in Nat /\ Len(seq) - 1 \in Int /\ \A i \in 1 .. Len(seq) - 1 : seq[i] \in S
    OBVIOUS
  <1>2. PICK n \in Int : n = Len(seq) - 1
    BY <1>1
  <1>3. /\ Len(SubSeq(seq, 1, n)) = IF 1 <= n THEN n - 1 + 1 ELSE 0
        /\ \A i \in 1 .. n - 1 + 1 : SubSeq(seq, 1, n)[i] = seq[1 + i - 1]
    BY <1>1, <1>2, SubSeqProperties
  <1>4. n >= 0 /\ n - 1 + 1 = n /\ \A i \in 1 .. n : 1 + i - 1 = i
    BY <1>1, <1>2
  <1>5. Len(SubSeq(seq, 1, n)) = n
    BY <1>3, <1>4
  <1>6. \A i \in 1 .. n : SubSeq(seq, 1, n)[i] = seq[i]
    BY <1>3, <1>4
  <1> QED
    BY <1>2, <1>5, <1>6

\* What a request is serving.
LEMMA ServingShape ==
    ASSUME HostType, NEW r \in Requests
    PROVE  /\ serving[r][1] \in {"none", "slot", "sock"}
           /\ serving[r][1] # "none" => serving[r][2] \in Calls
           /\ serving[r][1] = "slot" => serving[r][3] \in Slots
  BY Shapes DEF HostType

\* Outside of "out" there is an innermost request.
LEMMA TopOpen ==
    ASSUME IInv, hpc # "out"
    PROVE  /\ Len(stack) \in Nat /\ Len(stack) >= 1 /\ Top \in Requests /\ stack \in Seq(Requests)
           /\ Top = stack[Len(stack)]
  BY DEF IInv, TypeOK, HostType, Nested, Top

\* Slots and requests are numbers above zero.
LEMMA Numbers ==
    /\ NumSlots \in Nat /\ NumSlots >= 1 /\ MaxRequests \in Nat /\ 0 \notin Calls
    /\ Slots \subseteq Nat /\ 0 \notin Slots /\ 1 \in Slots
    /\ Requests \subseteq Nat /\ 0 \notin Requests
  BY MailboxAssumption DEF Slots, Requests

\* Nothing is in flight at the start.
LEMMA InitIInv == Init => IInv
  <1> SUFFICES ASSUME Init PROVE IInv
    OBVIOUS
  <1>1. TypeOK
    <2>1. MemoryType
      BY DEF Init, MemoryType
    <2>2. CallType
      BY DEF Init, CallType
    <2>3. HostType
      <3>1. active \in [Requests -> BOOLEAN] /\ retained \in [Requests -> BOOLEAN]
        BY DEF Init
      <3>2. /\ stack \in Seq(Requests) /\ nextReq \in Nat /\ look \in 0 .. NumSlots
            /\ event \in Events \cup {"none", "cancel"}
            /\ serving \in [Requests -> Work]
        BY Numbers, Shapes DEF Init, Events
      <3>3. hpc = "out"
        BY DEF Init
      <3> QED
        BY <3>1, <3>2, <3>3 DEF HostType
    <2>4. WireType
      <3>1. /\ reply \in [Requests -> BOOLEAN] /\ wake \in BOOLEAN
            /\ connected \in BOOLEAN /\ done \in BOOLEAN
        BY DEF Init
      <3>2. /\ callbacks \in [Requests -> {0} \cup Calls] /\ asked \in SUBSET Requests
            /\ toHost \in Seq(Message) /\ reader \in Hand
        BY Shapes DEF Init
      <3> QED
        BY <3>1, <3>2 DEF WireType
    <2>5. LifeType
      BY DEF Init, LifeType
    <2> QED
      BY <2>1, <2>2, <2>3, <2>4, <2>5 DEF TypeOK
  <1>2. Nested
    BY DEF Init, Nested
  <1>3. Referenced
    <2>1. {r \in Requests : active[r]} = {}
      BY DEF Init
    <2> QED
      BY <2>1, FS_EmptySet DEF Init, Referenced
  <1>4. InTransit
    BY Numbers DEF Init, InTransit, OnePlace, InSlot, OnWire, InHand
  <1>5. Ran /\ Owned /\ OwnAnswerOnce
    BY Numbers DEF Init, Ran, Owned, Holds, OwnAnswerOnce
  <1> QED
    BY <1>1, <1>2, <1>3, <1>4, <1>5 DEF IInv

-----------------------------------------------------------------------------
(* Types.                                                                  *)

\* The steps of the control reader, the closer and the dependency.
OtherStep ==
    ReaderStep \/ CloseConn \/ CloseStep \/ \E r \in Requests : DepReplies(r)

\* Next by what its steps may change.
LEMMA NextCases ==
    ASSUME [Next]_vars
    PROVE  \/ \E c \in Calls : CallStep(c) \/ Fallback(c) \/ \E s \in Slots : Claim(c, s)
           \/ Enter \/ HostStep \/ HostCanceled
           \/ OtherStep \/ WorkerExits \/ UNCHANGED vars
  BY DEF Next, OtherStep

\* The worker leaves the interpreter's requests alone.
LEMMA CallFrame ==
    ASSUME NEW c \in Calls, CallStep(c) \/ Fallback(c) \/ \E s \in Slots : Claim(c, s)
    PROVE  UNCHANGED <<hostVars, chanVars, reader, connected, done, life, ran, hostParked>>
  BY DEF CallStep, CheckHost, SpinEnds, Recheck, Parked, Abandon, Take, Await, AwaitStopped,
         Fallback, Claim, memory, wires

\* The control reader and the closer leave the memory and the requests alone.
LEMMA OtherFrame ==
    ASSUME OtherStep
    PROVE  UNCHANGED <<memory, hostVars, ran, refs, cpc, slotOf, early, answeredBy>>
  BY DEF OtherStep, ReaderStep, CloseStep, ReaderReads, ReaderPushes, ReaderEnds, CloseConn,
         CloseDrop, CloseMailbox, DepReplies, callVars, life

\* So does the end of the worker.
LEMMA ExitFrame ==
    ASSUME WorkerExits
    PROVE  /\ UNCHANGED <<memory, hostVars, ran, callbacks, reply, wake, toHost, reader, connected,
                          life>>
           /\ done' = TRUE /\ asked' = {}
  BY DEF WorkerExits

\* The interpreter leaves the worker's goroutines and the wires alone, but for wait.
LEMMA HostFrame ==
    ASSUME Enter \/ HostStep \/ HostCanceled
    PROVE  /\ UNCHANGED <<cpc, slotOf, early, answeredBy, wires, closer, mailbox, closing,
                          workerParked>>
  BY DEF Enter, HostStep, HostCanceled, Send, TakeSlot, Poll, PollNothing, Scan, ParkedEvent,
         ParkedWake, UnparkHost, BodyEnds, Answer, AnswerWakes, Overflow, PublishMarker,
         SocketReply, Leave, Select, callVars, wires, memory, life

\* The interpreter's steps keep the memory well formed, hostParked aside.
LEMMA HostMemory ==
    ASSUME IInv, HostStep
    PROVE  /\ word' \in [Slots -> {"free", "request", "serving", "reply"}]
           /\ owner' \in [Slots -> {0} \cup Calls] /\ marker' \in [Slots -> {"no", "sent", "error"}]
  <1> USE DEF IInv, TypeOK
  <1>0. MemoryType /\ (hpc # "out" => Top \in Requests)
    BY TopOpen
  <1>1. CASE TakeSlot
    BY <1>0, <1>1 DEF TakeSlot, MemoryType, TakenWord
  <1>2. CASE Answer \/ PublishMarker \/ Overflow
    <2>1. Slot \in Slots /\ Served \in Calls
      BY <1>0, <1>2, ServingShape DEF Answer, PublishMarker, Overflow, Host, Nested, Slot, Served
    <2>2. CASE Answer
      BY <1>0, <2>1, <2>2 DEF Answer, MemoryType
    <2>3. CASE PublishMarker
      BY <1>0, <2>1, <2>3 DEF PublishMarker, MemoryType
    <2>4. CASE Overflow
      BY <1>0, <2>1, <2>4 DEF Overflow, MemoryType
    <2> QED
      BY <1>2, <2>2, <2>3, <2>4
  <1>3. CASE \/ Send \/ Poll \/ PollNothing \/ Scan \/ ParkedEvent \/ ParkedWake
             \/ UnparkHost \/ BodyEnds \/ AnswerWakes \/ SocketReply \/ Leave
    <2>1. UNCHANGED <<word, owner, marker>>
      BY <1>3 DEF Send, Poll, PollNothing, Scan, ParkedEvent, ParkedWake, UnparkHost, BodyEnds,
                  AnswerWakes, SocketReply, Leave, Select, memory
    <2> QED
      BY <1>0, <2>1 DEF MemoryType
  <1> QED
    BY <1>1, <1>2, <1>3 DEF HostStep

\* A callback's goroutine past the claim has a slot until it gives it back.
LEMMA SlotHeld ==
    ASSUME IInv, NEW c \in Calls, cpc[c] \in {"published", "spin", "recheck", "parked", "take"}
    PROVE  slotOf[c] \in Slots
  BY DEF IInv, TypeOK, CallType, Owned

\* The memory of the mapping.
LEMMA MemoryStep ==
    ASSUME IInv, [Next]_vars, Nested'
    PROVE  MemoryType'
  <1> USE DEF IInv, TypeOK
  <1>0. MemoryType /\ CallType
    OBVIOUS
  <1>1. hostParked' \in {0, 1}
    BY DEF Nested
  <1>2. ASSUME NEW c \in Calls, CallStep(c) \/ Fallback(c) \/ \E s \in Slots : Claim(c, s)
        PROVE  MemoryType'
    <2>1. ASSUME NEW s \in Slots, Claim(c, s) PROVE MemoryType'
      BY <1>0, <1>1, <2>1 DEF Claim, MemoryType
    <2>2. CASE CheckHost(c) \/ Await(c) \/ AwaitStopped(c) \/ Fallback(c)
      BY <1>0, <2>2 DEF CheckHost, Await, AwaitStopped, Fallback, MemoryType, memory
    <2>3. CASE SpinEnds(c)
      <3>1. slotOf[c] \in Slots
        BY <2>3, SlotHeld DEF SpinEnds, Call
      <3> QED
        BY <1>0, <2>3, <3>1 DEF SpinEnds, MemoryType
    <2>4. CASE Recheck(c)
      <3>1. workerParked' = [workerParked EXCEPT ![slotOf[c]] = ~RecheckSees(c)]
        BY <2>4 DEF Recheck
      <3>2. (~RecheckSees(c)) \in BOOLEAN
        BY DEF RecheckSees, Replied
      <3>3. workerParked' \in [Slots -> BOOLEAN]
        BY <1>0, <3>1, <3>2 DEF MemoryType
      <3> QED
        BY <1>0, <2>4, <3>3 DEF Recheck, MemoryType
    <2>5. CASE Parked(c)
      <3>1. slotOf[c] \in Slots
        BY <2>5, SlotHeld DEF Parked, Call
      <3> QED
        BY <1>0, <2>5, <3>1 DEF Parked, MemoryType
    <2>6. CASE Abandon(c)
      <3>1. slotOf[c] \in Slots
        BY <2>6, SlotHeld DEF Abandon, Call
      <3> QED
        BY <1>0, <2>6, <3>1 DEF Abandon, Free, MemoryType
    <2>7. CASE Take(c)
      <3>1. slotOf[c] \in Slots
        BY <2>7, SlotHeld DEF Take, Call
      <3> QED
        BY <1>0, <2>7, <3>1 DEF Take, Free, MemoryType
    <2> QED
      BY <1>2, <2>1, <2>2, <2>3, <2>4, <2>5, <2>6, <2>7 DEF CallStep
  <1>3. CASE HostStep
    <2>1. workerParked' = workerParked
      BY <1>3, HostFrame
    <2> QED
      BY <1>0, <1>1, <1>3, <2>1, HostMemory DEF MemoryType
  <1>4. CASE Enter \/ HostCanceled
    BY <1>0, <1>4 DEF Enter, HostCanceled, memory, MemoryType
  <1>5. CASE OtherStep \/ WorkerExits \/ UNCHANGED vars
    <2>1. UNCHANGED memory
      BY <1>5, OtherFrame, ExitFrame DEF vars
    <2> QED
      BY <1>0, <2>1 DEF memory, MemoryType
  <1> QED
    BY <1>2, <1>3, <1>4, <1>5, NextCases

\* A message to the worker fills the wait channel of its callback or is dropped.
LEMMA ToWorkerEffect ==
    ASSUME CallType, NEW m \in {"wake", "reply", "error"}, NEW c \in Calls, ToWorker(m, c)
    PROVE  /\ wait' \in [Calls -> {"empty", "wake", "reply", "error"}]
           /\ \A d \in Calls : wait'[d] = wait[d] \/ (d = c /\ wait'[d] = m)
  BY DEF ToWorker, CallType

\* The callback that is served, at the steps that answer it.
LEMMA ServedCall ==
    ASSUME IInv, hpc \in {"answer", "flag", "marker", "socket"}
    PROVE  /\ Served \in Calls /\ ran[Served] = 1 /\ Served = serving[Top][2]
           /\ hpc # "socket" => Slot \in Slots /\ serving[Top][1] = "slot" /\ Slot = serving[Top][3]
  <1>1. Top \in Requests /\ serving[Top][1] # "none"
    BY TopOpen DEF IInv, Nested
  <1>2. HostType /\ Ran
    BY DEF IInv, TypeOK
  <1>3. hpc # "socket" => serving[Top][1] = "slot"
    BY DEF IInv, Nested
  <1> QED
    BY <1>1, <1>2, <1>3, ServingShape DEF Ran, Served, Slot

\* The wait channels after a step: a reply comes only from a body that ran.
LEMMA WaitStep ==
    ASSUME IInv, [Next]_vars
    PROVE  /\ wait' \in [Calls -> {"empty", "wake", "reply", "error"}]
           /\ \A d \in Calls : wait'[d] = "reply" => ran[d] = 1
  <1> USE DEF IInv, TypeOK
  <1>0. CallType /\ \A d \in Calls : wait[d] = "reply" => ran[d] = 1
    BY DEF Ran
  <1>1. CASE UNCHANGED wait
    BY <1>0, <1>1 DEF CallType
  <1>2. ASSUME NEW c \in Calls, CallStep(c) \/ Fallback(c) \/ \E s \in Slots : Claim(c, s)
        PROVE  wait' = wait \/ wait' = [wait EXCEPT ![c] = "empty"]
    BY <1>2 DEF CallStep, Claim, Fallback, CheckHost, SpinEnds, Recheck, Parked, Abandon, Take,
                Await, AwaitStopped
  <1>3. ASSUME NEW c \in Calls, wait' = [wait EXCEPT ![c] = "empty"]
        PROVE  /\ wait' \in [Calls -> {"empty", "wake", "reply", "error"}]
               /\ \A d \in Calls : wait'[d] = "reply" => ran[d] = 1
    BY <1>0, <1>3 DEF CallType
  <1>4. CASE AnswerWakes \/ Overflow \/ SocketReply
    <2>1. Served \in Calls /\ ran[Served] = 1
      BY <1>4, ServedCall DEF AnswerWakes, Overflow, SocketReply, Host
    <2>2. PICK c \in Calls : c = Served
      BY <2>1
    <2>3. \/ UNCHANGED wait \/ ToWorker("wake", c) \/ ToWorker("reply", c)
      BY <1>4, <2>2 DEF AnswerWakes, Overflow, SocketReply
    <2> QED
      BY <1>0, <1>1, <2>1, <2>2, <2>3, ToWorkerEffect
  <1>5. CASE ReaderReads
    <2>1. UNCHANGED wait \/ (Head(toHost)[1] = "callback" /\ ToWorker("error", Head(toHost)[2]))
      BY <1>5 DEF ReaderReads
    <2>2. Head(toHost) \in Message
      BY <1>5 DEF ReaderReads, WireType
    <2>3. PICK m \in Message : m = Head(toHost)
      BY <2>2
    <2>4. CASE m[1] = "callback" /\ ToWorker("error", m[2])
      <3>1. PICK c \in Calls : c = m[2]
        BY <2>4, Shapes
      <3> QED
        BY <1>0, <2>4, <3>1, ToWorkerEffect
    <2> QED
      BY <1>1, <2>1, <2>3, <2>4
  <1>6. CASE WorkerExits
    BY <1>6 DEF WorkerExits
  <1>7. CASE HostStep \/ Enter \/ HostCanceled
    <2>1. \/ UNCHANGED wait \/ AnswerWakes \/ Overflow \/ SocketReply
      BY <1>7 DEF Enter, HostStep, HostCanceled, Send, TakeSlot, Poll, PollNothing, Scan,
                  ParkedEvent, ParkedWake, UnparkHost, BodyEnds, Answer, PublishMarker, Leave,
                  Select, callVars
    <2> QED
      BY <1>1, <1>4, <2>1
  <1>8. CASE OtherStep \/ UNCHANGED vars
    <2>1. UNCHANGED wait \/ ReaderReads
      BY <1>8 DEF OtherStep, ReaderStep, CloseStep, ReaderPushes, ReaderEnds, CloseConn,
                  CloseDrop, CloseMailbox, DepReplies, callVars, vars
    <2> QED
      BY <1>1, <1>5, <2>1
  <1> QED
    BY <1>1, <1>2, <1>3, <1>6, <1>7, <1>8, NextCases

\* A step runs no body, or that of one callback of the worker.
LEMMA RanStep ==
    ASSUME IInv, [Next]_vars
    PROVE  \/ UNCHANGED ran
           \/ /\ hpc = "take" /\ look \in Slots /\ word[look] = "request" /\ owner[look] \in Calls
              /\ TakeSlot /\ ran' = [ran EXCEPT ![owner[look]] = @ + 1]
           \/ /\ hpc \in {"poll", "parked"} /\ callbacks[Top] \in Calls
              /\ (Poll \/ ParkedEvent)
              /\ ran' = [ran EXCEPT ![callbacks[Top]] = @ + 1]
              /\ callbacks' = [callbacks EXCEPT ![Top] = 0]
              /\ serving' = [serving EXCEPT ![Top] = <<"sock", callbacks[Top]>>]
  <1> USE DEF IInv, TypeOK
  <1>1. CASE TakeSlot
    BY <1>1 DEF TakeSlot, Ran
  <1>2. ASSUME NEW ev \in Events, Select(ev), Poll \/ ParkedEvent
        PROVE  \/ UNCHANGED ran
               \/ /\ hpc \in {"poll", "parked"} /\ callbacks[Top] \in Calls
                  /\ ran' = [ran EXCEPT ![callbacks[Top]] = @ + 1]
                  /\ callbacks' = [callbacks EXCEPT ![Top] = 0]
                  /\ serving' = [serving EXCEPT ![Top] = <<"sock", callbacks[Top]>>]
    <2>1. hpc \in {"poll", "parked"} /\ Top \in Requests
      BY <1>2, TopOpen DEF Poll, ParkedEvent, Host
    <2>2. callbacks[Top] \in {0} \cup Calls
      BY <2>1 DEF WireType
    <2> QED
      BY <1>2, <2>1, <2>2 DEF Select
  <1>3. CASE HostStep
    <2>1. UNCHANGED ran \/ TakeSlot \/ Poll \/ ParkedEvent
      BY <1>3 DEF HostStep, Send, PollNothing, Scan, ParkedWake, UnparkHost, BodyEnds, Answer,
                  AnswerWakes, Overflow, PublishMarker, SocketReply, Leave
    <2>2. Poll \/ ParkedEvent => \E ev \in Events : Select(ev)
      BY DEF Poll, ParkedEvent
    <2> QED
      BY <1>1, <1>2, <2>1, <2>2
  <1>4. CASE Enter \/ HostCanceled
    BY <1>4 DEF Enter, HostCanceled
  <1> QED
    BY <1>3, <1>4, NextCases, CallFrame, OtherFrame, ExitFrame DEF vars

\* The worker's goroutines.
LEMMA CallTypeStep ==
    ASSUME IInv, [Next]_vars
    PROVE  CallType'
  <1> USE DEF IInv, TypeOK
  <1>0. CallType /\ MemoryType
    OBVIOUS
  <1>1. wait' \in [Calls -> {"empty", "wake", "reply", "error"}]
    BY WaitStep
  <1>2. ran' \in [Calls -> Nat]
    <2>1. ran' = ran \/ \E c \in Calls : ran' = [ran EXCEPT ![c] = @ + 1]
      BY RanStep
    <2> QED
      BY <1>0, <2>1 DEF CallType
  <1>3. CASE UNCHANGED <<cpc, slotOf, early, answeredBy>>
    BY <1>0, <1>1, <1>2, <1>3 DEF CallType
  <1>4. ASSUME NEW c \in Calls, CallStep(c) \/ Fallback(c) \/ \E s \in Slots : Claim(c, s)
        PROVE  CallType'
    <2>1. cpc' \in [Calls -> {"none", "published", "spin", "recheck", "parked", "take", "await",
                               "overflow", "done", "failed"}]
      BY <1>0, <1>4 DEF CallType, CallStep, Claim, Fallback, CheckHost, SpinEnds, Recheck, Parked,
                        Abandon, Take, Await, AwaitStopped, Call
    <2>2. slotOf' \in [Calls -> {0} \cup Slots]
      BY <1>0, <1>4 DEF CallType, CallStep, Claim, Fallback, CheckHost, SpinEnds, Recheck, Parked,
                        Abandon, Take, Await, AwaitStopped
    <2>3. early' \in [Calls -> BOOLEAN]
      BY <1>0, <1>4 DEF CallType, CallStep, Claim, Fallback, CheckHost, SpinEnds, Recheck, Parked,
                        Abandon, Take, Await, AwaitStopped
    <2>4. answeredBy' \in [Calls -> {0} \cup Calls]
      <3>1. CASE Take(c)
        <4>1. owner[slotOf[c]] \in {0} \cup Calls
          BY <1>0, <3>1, SlotHeld DEF Take, Call, MemoryType
        <4> QED
          BY <1>0, <3>1, <4>1 DEF CallType, Take
      <3>2. CASE Await(c)
        BY <1>0, <3>2 DEF CallType, Await
      <3> QED
        BY <1>0, <1>4, <3>1, <3>2 DEF CallType, CallStep, Claim, Fallback, CheckHost, SpinEnds,
                                      Recheck, Parked, Abandon, AwaitStopped
    <2> QED
      BY <1>1, <1>2, <2>1, <2>2, <2>3, <2>4 DEF CallType
  <1>5. CASE WorkerExits
    <2>1. early' \in [Calls -> BOOLEAN]
      BY <1>5 DEF WorkerExits
    <2>2. /\ cpc' \in [Calls -> {"none", "published", "spin", "recheck", "parked", "take", "await",
                               "overflow", "done", "failed"}]
          /\ slotOf' \in [Calls -> {0} \cup Slots] /\ answeredBy' \in [Calls -> {0} \cup Calls]
      BY <1>5 DEF WorkerExits
    <2> QED
      BY <1>1, <1>2, <2>1, <2>2 DEF CallType
  <1> QED
    BY <1>3, <1>4, <1>5, NextCases, HostFrame, OtherFrame DEF vars, callVars

\* What a step of the loop may do to what the innermost request serves.
LEMMA ServingStep ==
    ASSUME IInv, HostStep
    PROVE  serving' \in [Requests -> Work]
  <1> USE DEF IInv, TypeOK
  <1>0. serving \in [Requests -> Work] /\ MemoryType /\ WireType
    BY DEF HostType
  <1>1. CASE TakeSlot
    <2>1. ASSUME look \in Slots, word[look] = "request" PROVE <<"slot", owner[look], look>> \in Work
      BY <2>1, Shapes DEF Ran
    <2> QED
      BY <1>0, <1>1, <2>1 DEF TakeSlot
  <1>2. CASE Poll \/ ParkedEvent
    <2>1. Top \in Requests
      BY <1>2, TopOpen DEF Poll, ParkedEvent, Host
    <2>2. ASSUME callbacks[Top] # 0 PROVE <<"sock", callbacks[Top]>> \in Work
      BY <1>0, <2>1, <2>2, Shapes DEF WireType
    <2> QED
      BY <1>0, <1>2, <2>2 DEF Poll, ParkedEvent, Select
  <1>3. CASE \/ Send \/ PollNothing \/ Scan \/ ParkedWake \/ UnparkHost \/ BodyEnds \/ Answer
             \/ AnswerWakes \/ Overflow \/ PublishMarker \/ SocketReply \/ Leave
    <2>1. serving' = serving \/ serving' = [serving EXCEPT ![Top] = <<"none">>]
      BY <1>3 DEF Send, PollNothing, Scan, ParkedWake, UnparkHost, BodyEnds, Answer,
                  AnswerWakes, Overflow, PublishMarker, SocketReply, Leave, Continue
    <2> QED
      BY <1>0, <2>1, Shapes
  <1> QED
    BY <1>1, <1>2, <1>3 DEF HostStep

\* The requests of the interpreter.
LEMMA HostTypeStep ==
    ASSUME IInv, [Next]_vars
    PROVE  HostType'
  <1> USE DEF IInv, TypeOK
  <1>0. HostType
    OBVIOUS
  <1>1. CASE UNCHANGED hostVars
    BY <1>0, <1>1 DEF hostVars, HostType
  <1>2. CASE Enter
    <2>1. stack' \in Seq(Requests) /\ nextReq' \in Nat
      BY <1>0, <1>2 DEF Enter, HostType
    <2>2. retained' \in [Requests -> BOOLEAN]
      BY <1>0, <1>2 DEF Enter, HostType, LifeType
    <2>3. hpc' = "retain"
      BY <1>2 DEF Enter, Host
    <2> QED
      BY <1>0, <1>2, <2>1, <2>2, <2>3 DEF Enter, HostType
  <1>3. CASE HostCanceled
    <2>1. hpc' \in {"close", "unpark"} /\ event' \in {event, "cancel"}
      BY <1>3 DEF HostCanceled, Host
    <2> QED
      BY <1>0, <1>3, <2>1 DEF HostCanceled, HostType
  <1>4. CASE HostStep
    <2>1. serving' \in [Requests -> Work]
      BY <1>4, ServingStep
    <2>2. nextReq' = nextReq /\ (stack' = stack \/ Leave)
      BY <1>4 DEF HostStep, Send, TakeSlot, Poll, PollNothing, Scan, ParkedEvent,
         ParkedWake, UnparkHost, BodyEnds, Answer, AnswerWakes, Overflow, PublishMarker,
         SocketReply, Leave, Select
    <2>3. stack' \in Seq(Requests)
      <3>1. CASE Leave
        <4>1. Len(stack) \in Nat /\ Len(stack) >= 1 /\ stack \in Seq(Requests)
          BY <3>1, TopOpen DEF Leave
        <4>2. stack' = SubSeq(stack, 1, Len(stack) - 1)
          BY <3>1 DEF Leave
        <4> QED
          BY <4>1, <4>2
      <3> QED
        BY <1>0, <2>2, <3>1 DEF HostType
    <2>4. active' \in [Requests -> BOOLEAN] /\ retained' \in [Requests -> BOOLEAN]
      <3>1. CASE Send
        <4>1. Retains \in BOOLEAN
          BY DEF Retains
        <4> QED
          BY <1>0, <3>1, <4>1 DEF Send, HostType
      <3>2. CASE Leave
        BY <1>0, <3>2 DEF Leave, HostType
      <3>3. CASE ~Send /\ ~Leave
        <4>1. UNCHANGED <<active, retained>>
          BY <1>4, <3>3 DEF HostStep, TakeSlot, Poll, PollNothing, Scan, ParkedEvent,
             ParkedWake, UnparkHost, BodyEnds, Answer, AnswerWakes, Overflow, PublishMarker,
             SocketReply, Select
        <4> QED
          BY <1>0, <4>1 DEF HostType
      <3> QED
        BY <3>1, <3>2, <3>3
    <2>5. hpc' \in {"out", "retain", "take", "poll", "scan", "parked", "unpark", "body", "answer",
                    "flag", "marker", "socket", "leave", "close"}
      BY <1>0, <1>4 DEF HostStep, Send, TakeSlot, Poll, PollNothing, Scan, ParkedEvent,
             ParkedWake, UnparkHost, BodyEnds, Answer, AnswerWakes, Overflow, PublishMarker,
             SocketReply, Leave, Continue, LoopOf, Handle, Host, Events
    <2>6. look' \in 0 .. NumSlots
      <3>1. look \in 0 .. NumSlots /\ 1 \in 0 .. NumSlots /\ 0 \in 0 .. NumSlots
        BY <1>0, Numbers DEF HostType
      <3>2. look < NumSlots => look + 1 \in 0 .. NumSlots
        BY <3>1, Numbers
      <3> QED
        BY <1>4, <3>1, <3>2 DEF HostStep, Send, TakeSlot, Poll, PollNothing, Scan, ParkedEvent,
             ParkedWake, UnparkHost, BodyEnds, Answer, AnswerWakes, Overflow, PublishMarker,
             SocketReply, Leave, Continue, LoopOf
    <2>7. event' \in Events \cup {"none", "cancel"}
      <3>1. event \in Events \cup {"none", "cancel"}
        BY <1>0 DEF HostType
      <3> QED
        BY <1>4, <3>1 DEF HostStep, Send, TakeSlot, Poll, PollNothing, Scan, ParkedEvent,
             ParkedWake, UnparkHost, BodyEnds, Answer, AnswerWakes, Overflow, PublishMarker,
             SocketReply, Leave
    <2> QED
      BY <1>0, <2>1, <2>2, <2>3, <2>4, <2>5, <2>6, <2>7 DEF HostType
  <1> QED
    BY <1>1, <1>2, <1>3, <1>4, NextCases, CallFrame, OtherFrame, ExitFrame DEF vars

\* The channels and the connection.
LEMMA WireStep ==
    ASSUME IInv, [Next]_vars
    PROVE  WireType'
  <1> USE DEF IInv, TypeOK
  <1>0. WireType
    OBVIOUS
  <1>1. CASE UNCHANGED <<chanVars, wires>>
    BY <1>0, <1>1 DEF chanVars, wires, WireType
  <1>2. ASSUME NEW m \in Message, ToHost(m) PROVE toHost' \in Seq(Message)
    BY <1>0, <1>2 DEF WireType, ToHost
  <1>3. ASSUME NEW c \in Calls, CallStep(c) \/ Fallback(c) \/ \E s \in Slots : Claim(c, s)
        PROVE  WireType'
    <2>1. UNCHANGED <<chanVars, reader, connected, done>>
      BY <1>3, CallFrame
    <2>2. toHost' = toHost \/ ToHost(<<"callback", c>>) \/ ToHost(<<"wake">>)
      BY <1>3 DEF CallStep, Claim, Fallback, CheckHost, SpinEnds, Recheck, Parked,
                  Abandon, Take, Await, AwaitStopped, wires
    <2>3. toHost' \in Seq(Message)
      BY <1>0, <1>2, <2>2, Shapes DEF WireType
    <2> QED
      BY <1>0, <2>1, <2>3 DEF WireType, chanVars
  <1>4. CASE Enter \/ HostStep \/ HostCanceled
    <2>1. UNCHANGED wires
      BY <1>4, HostFrame
    <2>2. asked' \in SUBSET Requests
      <3>1. hpc = "retain" => Top \in Requests
        BY TopOpen
      <3>2. asked \in SUBSET Requests
        BY <1>0 DEF WireType
      <3> QED
        BY <1>4, <3>1, <3>2 DEF Enter, HostStep, HostCanceled, Send, TakeSlot, Poll, PollNothing,
             Scan, ParkedEvent, ParkedWake, UnparkHost, BodyEnds, Answer, AnswerWakes, Overflow,
             PublishMarker, SocketReply, Leave, Select, chanVars
    <2>3. callbacks' \in [Requests -> {0} \cup Calls]
      <3>1. callbacks' = callbacks \/ callbacks' = [callbacks EXCEPT ![Top] = 0]
        BY <1>4 DEF Enter, HostStep, HostCanceled, Send, TakeSlot, Poll, PollNothing,
             Scan, ParkedEvent, ParkedWake, UnparkHost, BodyEnds, Answer, AnswerWakes, Overflow,
             PublishMarker, SocketReply, Leave, Select, chanVars
      <3> QED
        BY <1>0, <3>1 DEF WireType
    <2>4. reply' \in [Requests -> BOOLEAN] /\ wake' \in BOOLEAN
      <3>1. /\ reply' = reply \/ reply' = [reply EXCEPT ![Top] = FALSE]
            /\ wake' = wake \/ wake' = FALSE
        BY <1>4 DEF Enter, HostStep, HostCanceled, Send, TakeSlot, Poll, PollNothing,
             Scan, ParkedEvent, ParkedWake, UnparkHost, BodyEnds, Answer, AnswerWakes, Overflow,
             PublishMarker, SocketReply, Leave, Select, chanVars
      <3> QED
        BY <1>0, <3>1 DEF WireType
    <2> QED
      BY <1>0, <2>1, <2>2, <2>3, <2>4 DEF WireType, wires
  <1>5. CASE ReaderReads
    <2>0. /\ Head(toHost) \in Message /\ Tail(toHost) \in Seq(Message)
          /\ UNCHANGED <<asked, connected, done>>
      BY <1>0, <1>5 DEF ReaderReads, WireType
    <2>1. PICK m \in Message : m = Head(toHost)
      BY <2>0
    <2>2. (m[1] = "callback" => m[2] \in Calls) /\ (m[1] = "reply" => m[2] \in Requests)
      BY <2>1, Shapes
    <2>3. stack # <<>> => Top \in Requests
      BY TopOpen DEF Nested
    <2>4. reply' \in [Requests -> BOOLEAN]
      <3>1. reply' = reply \/ reply' = [reply EXCEPT ![m[2]] = TRUE]
        BY <1>5, <2>1 DEF ReaderReads
      <3> QED
        BY <1>0, <3>1 DEF WireType
    <2>5. wake' \in BOOLEAN
      BY <1>5 DEF ReaderReads
    <2>6. callbacks' \in [Requests -> {0} \cup Calls]
      <3>1. callbacks' = callbacks
            \/ (m[1] = "callback" /\ callbacks' = [callbacks EXCEPT ![Top] = m[2]])
        BY <1>5, <2>1 DEF ReaderReads
      <3> QED
        BY <1>0, <2>2, <3>1 DEF WireType
    <2>7. reader' \in Hand
      <3>1. \/ reader' = reader
            \/ m[1] = "callback" /\ stack # <<>> /\ reader' = <<"push", m[2], Top>>
        BY <1>5, <2>1 DEF ReaderReads
      <3> QED
        BY <1>0, <2>2, <2>3, <3>1, Shapes DEF WireType
    <2>8. toHost' \in Seq(Message)
      BY <1>5, <2>0 DEF ReaderReads
    <2> QED
      BY <1>0, <2>0, <2>4, <2>5, <2>6, <2>7, <2>8 DEF WireType
  <1>6. CASE ReaderPushes
    <2>1. reader[2] \in Calls
      BY <1>0, <1>6, Shapes DEF ReaderPushes, WireType
    <2>2. callbacks' \in [Requests -> {0} \cup Calls] /\ reader' \in Hand
      BY <1>0, <1>6, <2>1, Shapes DEF ReaderPushes, WireType
    <2> QED
      BY <1>0, <1>6, <2>2 DEF ReaderPushes, WireType
  <1>7. CASE ReaderEnds \/ CloseConn
    <2>1. /\ UNCHANGED <<chanVars, done>> /\ (toHost' = toHost \/ toHost' = <<>>)
          /\ reader' = reader \/ reader' = <<"ended">>
          /\ connected' = connected \/ connected' = FALSE
      BY <1>7 DEF ReaderEnds, CloseConn
    <2>2. reader' \in Hand
      BY <1>0, <2>1, Shapes DEF WireType
    <2>4. toHost' \in Seq(Message)
      <3>1. CASE toHost' = <<>>
        BY <3>1
      <3>2. CASE toHost' = toHost
        BY <1>0, <3>2 DEF WireType
      <3> QED
        BY <2>1, <3>1, <3>2
    <2>3. connected' \in BOOLEAN
      BY <1>0, <2>1 DEF WireType
    <2> QED
      BY <1>0, <2>1, <2>2, <2>3, <2>4 DEF WireType, chanVars
  <1>8. ASSUME NEW r \in Requests, DepReplies(r) PROVE WireType'
    <2>1. toHost' \in Seq(Message)
      BY <1>2, <1>8, Shapes DEF DepReplies
    <2> QED
      BY <1>0, <1>8, <2>1 DEF DepReplies, WireType
  <1>9. CASE WorkerExits
    BY <1>0, <1>9 DEF WorkerExits, WireType
  <1> QED
    BY <1>1, <1>3, <1>4, <1>5, <1>6, <1>7, <1>8, <1>9, NextCases
    DEF OtherStep, ReaderStep, CloseStep, CloseDrop, CloseMailbox, vars

-----------------------------------------------------------------------------
(* The nesting of requests.                                                *)

\* A step of the innermost request.
LEMMA InnerStep ==
    ASSUME IInv, hpc # "out", hpc' # "out", UNCHANGED <<stack, nextReq>>,
           \A r \in Requests : r # Top => serving'[r] = serving[r],
           hpc' = "body" => serving'[Top][1] # "none",
           hpc' \in {"answer", "flag", "marker"} => serving'[Top][1] = "slot",
           hpc' = "socket" => serving'[Top][1] = "sock",
           hpc' = "unpark" /\ event' = "callback" => serving'[Top][1] = "sock",
           hpc' # "unpark" => event' = "none",
           hostParked' = IF hpc' \in {"scan", "parked", "unpark"} THEN 1 ELSE 0
    PROVE  Nested'
  <1>1. Nested /\ stack \in Seq(Requests) /\ Len(stack) \in Nat /\ Len(stack) >= 1
    BY TopOpen DEF IInv
  <1>2. Top' = Top /\ Top = stack[Len(stack)]
    BY DEF Top
  <1>3. ASSUME NEW i \in 1 .. Len(stack), i < Len(stack) PROVE serving'[stack[i]][1] # "none"
    <2>1. stack[i] # Top /\ stack[i] \in Requests /\ serving[stack[i]][1] # "none"
      BY <1>1, <1>2, <1>3 DEF Nested
    <2> QED
      BY <2>1
  <1>4. hpc' = "out" <=> stack' = <<>>
    BY <1>1 DEF Nested
  <1> QED
    BY <1>1, <1>2, <1>3, <1>4 DEF Nested

\* A step that answers, or drops, the callback of the innermost request.
LEMMA ContinueNested ==
    ASSUME IInv, hpc \in {"body", "flag", "marker", "socket"}, Continue,
           UNCHANGED <<stack, nextReq, event, hostParked>>
    PROVE  Nested'
  <1>1. hpc' \in {"take", "poll", "leave"} /\ event' = "none" /\ hostParked' = 0
    BY DEF Continue, LoopOf, IInv, Nested
  <1>2. \A r \in Requests : r # Top => serving'[r] = serving[r]
    BY DEF Continue, IInv, TypeOK, HostType
  <1> QED
    BY <1>1, <1>2, InnerStep

\* The requests nest.
LEMMA NestedStep ==
    ASSUME IInv, [Next]_vars
    PROVE  Nested'
  <1> USE DEF IInv
  <1>0. /\ Nested /\ serving \in [Requests -> Work] /\ event \in Events \cup {"none", "cancel"}
        /\ \A c : <<"sock", c>>[1] = "sock" /\ \A x : <<"slot", c, x>>[1] = "slot"
    BY DEF TypeOK, HostType
  <1>1. CASE UNCHANGED <<hostVars, hostParked>>
    BY <1>0, <1>1 DEF hostVars, Nested, Top
  <1>2. CASE Enter
    <2>1. /\ nextReq \in Requests /\ nextReq \in Nat /\ stack \in Seq(Requests)
          /\ stack' = Append(stack, nextReq) /\ nextReq' = nextReq + 1 /\ hpc' = "retain"
          /\ UNCHANGED <<serving, event, hostParked>> /\ hpc \in {"out", "body"}
          /\ (stack # <<>> => hpc = "body")
      BY <1>2 DEF Enter, Host, TypeOK, HostType, memory
    <2>2. /\ Len(stack') = Len(stack) + 1 /\ Len(stack) \in Nat /\ stack'[Len(stack) + 1] = nextReq
          /\ \A i \in 1 .. Len(stack) : stack'[i] = stack[i] /\ stack[i] \in Nat
          /\ stack' # <<>>
      <3>1. \A i \in 1 .. Len(stack) : stack[i] \in Requests
        BY <2>1
      <3>2. Len(stack') = Len(stack) + 1 /\ Len(stack) \in Nat /\ stack'[Len(stack) + 1] = nextReq
        BY <2>1
      <3>3. \A i \in 1 .. Len(stack) : stack'[i] = stack[i]
        BY <2>1
      <3>4. stack' # <<>>
        BY <3>2
      <3> QED
        BY <3>1, <3>2, <3>3, <3>4, Numbers
    <2>3. \A i \in 1 .. Len(stack') : stack'[i] < nextReq'
      BY <1>0, <2>1, <2>2 DEF Nested
    <2>4. \A i, j \in 1 .. Len(stack') : stack'[i] = stack'[j] => i = j
      BY <1>0, <2>1, <2>2 DEF Nested
    <2>5. ASSUME NEW i \in 1 .. Len(stack'), i < Len(stack') PROVE serving'[stack'[i]][1] # "none"
      <3>1. i \in 1 .. Len(stack) /\ stack'[i] = stack[i] /\ stack # <<>>
        BY <2>1, <2>2, <2>5
      <3>2. CASE i < Len(stack)
        BY <1>0, <2>1, <3>1, <3>2 DEF Nested
      <3>3. CASE i = Len(stack)
        BY <1>0, <2>1, <3>1, <3>3 DEF Nested, Top
      <3> QED
        BY <2>2, <3>1, <3>2, <3>3
    <2>6. event' = "none" /\ hostParked' = 0
      BY <1>0, <2>1 DEF Nested
    <2> QED
      BY <2>1, <2>2, <2>3, <2>4, <2>5, <2>6 DEF Nested
  <1>3. CASE Leave
    <2>1. /\ stack \in Seq(Requests) /\ Len(stack) \in Nat /\ Len(stack) >= 1
          /\ Top = stack[Len(stack)] /\ Top \in Requests
      BY <1>3, TopOpen DEF Leave
    <2>2. /\ stack' = SubSeq(stack, 1, Len(stack) - 1) /\ hpc \in {"leave", "close"}
          /\ hpc' = IF Len(stack) = 1 THEN "out" ELSE "body"
          /\ serving' = [serving EXCEPT ![Top] = <<"none">>]
          /\ UNCHANGED <<nextReq, event, hostParked>>
      BY <1>3 DEF Leave, memory
    <2>3. /\ Len(stack') = Len(stack) - 1
          /\ \A i \in 1 .. Len(stack) - 1 : stack'[i] = stack[i]
          /\ stack' \in Seq(Requests)
      <3>1. stack' = SubSeq(stack, 1, Len(stack) - 1)
        BY <2>2
      <3>2. Len(stack') = Len(stack) - 1 /\ \A i \in 1 .. Len(stack) - 1 : stack'[i] = stack[i]
        BY <2>1, <3>1, FrontOf
      <3>4. stack' \in Seq(Requests)
        BY HostTypeStep DEF HostType
      <3> QED
        BY <3>2, <3>4
    <2>4. \A i \in 1 .. Len(stack) - 1 : serving'[stack'[i]][1] # "none"
      <3> SUFFICES ASSUME NEW i \in 1 .. Len(stack) - 1 PROVE serving'[stack'[i]][1] # "none"
        OBVIOUS
      <3>1. stack'[i] = stack[i] /\ stack[i] # Top /\ stack[i] \in Requests
        BY <1>0, <2>1, <2>3 DEF Nested
      <3>2. serving[stack[i]][1] # "none"
        BY <1>0, <2>1 DEF Nested
      <3> QED
        BY <1>0, <2>2, <3>1, <3>2
    <2>5. hpc' = "out" <=> stack' = <<>>
      <3>1. hpc' = "out" <=> Len(stack) = 1
        BY <2>2
      <3>2. stack' = <<>> <=> Len(stack') = 0
        BY <2>3
      <3> QED
        BY <2>1, <2>3, <3>1, <3>2
    <2>6. hpc' = "body" => serving'[stack'[Len(stack')]][1] # "none"
      BY <2>1, <2>2, <2>3, <2>4
    <2>7. event' = "none" /\ hostParked' = 0
      BY <1>0, <2>2 DEF Nested
    <2>8. /\ \A i \in 1 .. Len(stack') : stack'[i] < nextReq'
          /\ \A i, j \in 1 .. Len(stack') : stack'[i] = stack'[j] => i = j
      BY <1>0, <2>1, <2>2, <2>3 DEF Nested
    <2>9. \A i \in 1 .. Len(stack') : i < Len(stack') => serving'[stack'[i]][1] # "none"
      BY <2>3, <2>4
    <2>10. Top' = stack'[Len(stack')]
      BY DEF Top
    <2>11. hpc' \in {"out", "body"}
      BY <2>2
    <2> QED
      BY <2>5, <2>6, <2>7, <2>8, <2>9, <2>10, <2>11 DEF Nested
  <1>4. CASE TakeSlot
    <2>1. /\ hpc = "take" /\ UNCHANGED <<stack, nextReq, event, hostParked>>
          /\ \/ hpc' = "body" /\ serving' = [serving EXCEPT ![Top] = <<"slot", owner[look], look>>]
             \/ hpc' \in {"take", "poll"} /\ serving' = serving
      BY <1>4 DEF TakeSlot
    <2>2. Top \in Requests /\ event' = "none" /\ hostParked' = 0
      BY <1>0, <2>1, TopOpen DEF Nested
    <2>3. \A r \in Requests : r # Top => serving'[r] = serving[r]
      BY <1>0, <2>1
    <2>4. hpc' = "body" => serving'[Top][1] # "none"
      BY <1>0, <2>1, <2>2
    <2> QED
      BY <2>1, <2>2, <2>3, <2>4, InnerStep
  <1>5. CASE Poll \/ ParkedEvent
    <2>1. PICK ev \in Events :
            /\ Select(ev) /\ UNCHANGED <<stack, nextReq, hostParked>>
            /\ \/ /\ hpc = "poll" /\ event' = event
                  /\ hpc' = IF ev = "callback" THEN "body" ELSE "leave"
               \/ hpc = "parked" /\ event' = ev /\ hpc' = "unpark"
      BY <1>5 DEF Poll, ParkedEvent, Host, Handle, Events, Select, memory
    <2>2. \/ serving' = [serving EXCEPT ![Top] = <<"sock", callbacks[Top]>>]
          \/ ev # "callback" /\ serving' = serving
      BY <2>1 DEF Select, Events
    <2>3. Top \in Requests
      BY <2>1, TopOpen
    <2>4. \A r \in Requests : r # Top => serving'[r] = serving[r]
      BY <1>0, <2>2
    <2>5. ev = "callback" => serving'[Top][1] = "sock"
      BY <1>0, <2>2, <2>3
    <2> QED
      BY <1>0, <2>1, <2>4, <2>5, InnerStep DEF Nested
  <1>6. CASE UnparkHost
    <2>1. /\ hpc = "unpark" /\ UNCHANGED <<stack, nextReq, serving>> /\ event' = "none"
          /\ hostParked' = 0 /\ hpc' \in {"take", "body", "leave", "close"}
          /\ hpc' = "body" => event = "callback"
      BY <1>0, <1>6 DEF UnparkHost, Handle, Nested
    <2>2. hpc' = "body" => serving'[Top][1] # "none"
      BY <1>0, <2>1 DEF Nested
    <2> QED
      BY <2>1, <2>2, InnerStep
  <1>7. CASE Send \/ PollNothing \/ Scan \/ ParkedWake \/ HostCanceled
    <2>1. /\ hpc \in {"retain", "poll", "scan", "parked"} /\ UNCHANGED <<stack, nextReq, serving>>
          /\ hpc' \in {"take", "poll", "leave", "scan", "unpark", "parked", "close"}
          /\ event' = event \/ (hpc' = "unpark" /\ event' = "cancel")
          /\ hostParked' = IF hpc' \in {"scan", "parked", "unpark"} THEN 1 ELSE 0
      BY <1>0, <1>7 DEF Send, PollNothing, Scan, ParkedWake, HostCanceled, Host, LoopOf, Nested,
                        memory
    <2>2. (hpc' # "unpark" => event' = "none") /\ event' # "callback"
      BY <1>0, <2>1 DEF Nested
    <2> QED
      BY <2>1, <2>2, InnerStep
  <1>8. CASE BodyEnds
    <2>1. CASE serving[Top][1] = "slot" /\ ~mailbox
      BY <1>8, <2>1, ContinueNested DEF BodyEnds, memory
    <2>2. CASE ~(serving[Top][1] = "slot" /\ ~mailbox)
      <3>1. /\ hpc = "body" /\ hpc' = IF serving[Top][1] = "slot" THEN "answer" ELSE "socket"
            /\ UNCHANGED <<stack, nextReq, event, hostParked, serving>>
        BY <1>8, <2>2 DEF BodyEnds, memory
      <3>2. serving[Top][1] \in {"slot", "sock"} /\ event' = "none" /\ hostParked' = 0
        BY <1>0, <3>1, TopOpen, ServingShape DEF Nested, TypeOK
      <3> QED
        BY <3>1, <3>2, InnerStep
    <2> QED
      BY <2>1, <2>2
  <1>9. CASE Answer \/ Overflow
    <2>1. /\ hpc = "answer" /\ hpc' \in {"flag", "marker"}
          /\ UNCHANGED <<stack, nextReq, event, hostParked, serving>>
      BY <1>9 DEF Answer, Overflow, Host
    <2> QED
      BY <1>0, <2>1, InnerStep DEF Nested
  <1>10. CASE AnswerWakes \/ PublishMarker \/ SocketReply
    BY <1>10, ContinueNested DEF AnswerWakes, PublishMarker, SocketReply, memory
  <1>11. HostStep \/ HostCanceled => Nested'
    BY <1>3, <1>4, <1>5, <1>6, <1>7, <1>8, <1>9, <1>10 DEF HostStep
  <1> QED
    BY <1>1, <1>2, <1>11, NextCases, CallFrame, OtherFrame, ExitFrame DEF vars, memory

-----------------------------------------------------------------------------
(* The references to the mapping.                                          *)

\* The places of a request that touch the mapping, or wait between two that do.
Touching == {"take", "scan", "parked", "unpark", "answer", "flag", "marker"}

\* The requests that serve the mailbox are finitely many.
LEMMA ActiveFinite == IsFiniteSet({r \in Requests : active[r]})
  <1>1. IsFiniteSet(Requests)
    BY MailboxAssumption, FS_Interval DEF Requests
  <1> QED
    BY <1>1, FS_Subset

\* The closer unmaps the memory only when no request holds it.
LEMMA CloseEffect ==
    ASSUME OtherStep
    PROVE  \/ UNCHANGED <<mapped, closing>>
           \/ closing' = TRUE /\ mapped' = (mapped /\ refs # 0)
  BY DEF OtherStep, ReaderStep, CloseStep, ReaderReads, ReaderPushes, ReaderEnds, CloseConn,
         CloseDrop, CloseMailbox, Unused, DepReplies, life

\* A step of the loop neither retains nor releases.
LEMMA LoopReferenced ==
    ASSUME IInv, hpc \notin {"out", "retain"}, hpc' # "retain",
           UNCHANGED <<active, retained, stack, nextReq, refs, mapped, closing>>,
           hpc' \in Touching => active[Top],
           \A r \in Requests : serving'[r][1] = "slot" => active[r]
    PROVE  Referenced'
  <1>1. Referenced /\ Top' = Top
    BY DEF IInv, Top
  <1> QED
    BY <1>1 DEF Referenced, Touching

\* The references are counted.
LEMMA ReferencedStep ==
    ASSUME IInv, [Next]_vars
    PROVE  Referenced'
  <1> USE DEF IInv
  <1>0. /\ Referenced /\ active \in [Requests -> BOOLEAN] /\ retained \in [Requests -> BOOLEAN]
        /\ serving \in [Requests -> Work] /\ refs \in Nat
    BY DEF TypeOK, HostType, LifeType
  <1>1. CASE UNCHANGED <<hostVars, refs>> /\ (OtherStep \/ UNCHANGED <<mapped, closing>>)
    <2>1. mapped' \/ (closing' /\ refs = 0)
      BY <1>0, <1>1, CloseEffect DEF Referenced, TypeOK, LifeType
    <2> QED
      BY <1>0, <1>1, <2>1 DEF hostVars, Referenced, Top
  <1>2. CASE Enter
    <2>1. /\ nextReq \in Requests /\ nextReq \in Nat /\ stack \in Seq(Requests)
          /\ stack' = Append(stack, nextReq) /\ nextReq' = nextReq + 1 /\ hpc' = "retain"
          /\ UNCHANGED <<serving, active, refs, mapped, closing>> /\ hpc \in {"out", "body"}
          /\ retained' = [retained EXCEPT ![nextReq] = mailbox]
      BY <1>2 DEF Enter, Host, TypeOK, HostType, life
    <2>2. Top' = nextReq
      BY <2>1 DEF Top
    <2>3. ~active[nextReq]
      BY <1>0, <2>1 DEF Referenced
    <2>4. \A r \in Requests : r = nextReq \/ retained'[r] = active[r]
      BY <1>0, <2>1 DEF Referenced
    <2>5. \A r \in Requests : active[r] => r < nextReq + 1
      BY <1>0, <2>1, Numbers DEF Referenced
    <2> QED
      BY <1>0, <2>1, <2>2, <2>3, <2>4, <2>5 DEF Referenced
  <1>3. CASE Send
    <2>1. /\ hpc = "retain" /\ Top \in Requests /\ ~active[Top]
          /\ UNCHANGED <<stack, nextReq, serving, mapped, closing>> /\ Top' = Top
      BY <1>0, <1>3, TopOpen DEF Send, Referenced, Top
    <2>2. /\ retained' = [retained EXCEPT ![Top] = Retains]
          /\ active' = [active EXCEPT ![Top] = Retains]
          /\ refs' = refs + (IF Retains THEN 1 ELSE 0) /\ Retains \in BOOLEAN
          /\ hpc' \in {"take", "poll", "leave"} /\ (hpc' = "take" => Retains)
      BY <1>3 DEF Send, LoopOf, Retains
    <2>3. active'[Top] = Retains /\ retained'[Top] = Retains
      BY <1>0, <2>1, <2>2
    <2>4. \A r \in Requests : r # Top => active'[r] = active[r] /\ retained'[r] = retained[r]
      BY <1>0, <2>2
    <2>5. Top < nextReq
      BY <2>1, TopOpen DEF Nested
    <2>6. refs' = Cardinality({r \in Requests : active'[r]})
      <3>1. CASE Retains
        <4>1. {r \in Requests : active'[r]} = {r \in Requests : active[r]} \cup {Top}
          BY <2>1, <2>3, <2>4, <3>1
        <4>2. Top \notin {r \in Requests : active[r]}
          BY <2>1
        <4>3. Cardinality({r \in Requests : active[r]} \cup {Top})
                = Cardinality({r \in Requests : active[r]}) + 1
          BY <4>2, ActiveFinite, FS_AddElement
        <4> QED
          BY <1>0, <2>2, <3>1, <4>1, <4>3 DEF Referenced
      <3>2. CASE ~Retains
        <4>1. {r \in Requests : active'[r]} = {r \in Requests : active[r]}
          BY <2>1, <2>3, <2>4, <3>2
        <4>2. refs' = refs
          BY <1>0, <2>2, <3>2
        <4> QED
          BY <1>0, <4>1, <4>2 DEF Referenced
      <3> QED
        BY <3>1, <3>2
    <2>7. mapped' \/ (closing' /\ refs' = 0)
      <3>1. CASE Retains
        BY <1>0, <2>1, <3>1 DEF Referenced, Retains
      <3>2. CASE ~Retains
        BY <1>0, <2>1, <2>2, <3>2 DEF Referenced
      <3> QED
        BY <3>1, <3>2
    <2>8. \A r \in Requests : active'[r] => r < nextReq'
      BY <1>0, <2>1, <2>4, <2>5 DEF Referenced
    <2>9. \A r \in Requests : retained'[r] = active'[r]
      BY <1>0, <2>1, <2>3, <2>4 DEF Referenced
    <2>10. \A r \in Requests : serving'[r][1] = "slot" => active'[r]
      BY <1>0, <2>1, <2>4 DEF Referenced
    <2>11. hpc' # "retain" /\ (hpc' \in Touching => active'[Top'])
      BY <2>1, <2>2, <2>3 DEF Touching
    <2> QED
      BY <2>6, <2>7, <2>8, <2>9, <2>10, <2>11 DEF Referenced, Touching
  <1>4. CASE Leave
    <2>1. /\ Top \in Requests /\ hpc \in {"leave", "close"} /\ retained[Top] = active[Top]
          /\ UNCHANGED <<nextReq, closing>> /\ hpc' \in {"out", "body"}
      BY <1>0, <1>4, TopOpen DEF Leave, Referenced
    <2>2. /\ refs' = refs - (IF retained[Top] THEN 1 ELSE 0)
          /\ mapped' = (mapped /\ ~(retained[Top] /\ closing /\ refs' = 0))
          /\ serving' = [serving EXCEPT ![Top] = <<"none">>]
          /\ active' = [active EXCEPT ![Top] = FALSE]
          /\ retained' = [retained EXCEPT ![Top] = FALSE]
      BY <1>4 DEF Leave
    <2>3. ~active'[Top] /\ ~retained'[Top]
      BY <1>0, <2>1, <2>2
    <2>4. \A r \in Requests : r # Top => active'[r] = active[r] /\ retained'[r] = retained[r]
      BY <1>0, <2>2
    <2>5. refs' = Cardinality({r \in Requests : active'[r]})
      <3>1. CASE active[Top]
        <4>1. {r \in Requests : active'[r]} = {r \in Requests : active[r]} \ {Top}
          BY <2>3, <2>4
        <4>2. Top \in {r \in Requests : active[r]}
          BY <2>1, <3>1
        <4>3. Cardinality({r \in Requests : active[r]} \ {Top})
                = Cardinality({r \in Requests : active[r]}) - 1
          BY <4>2, ActiveFinite, FS_RemoveElement
        <4> QED
          BY <1>0, <2>1, <2>2, <3>1, <4>1, <4>3 DEF Referenced
      <3>2. CASE ~active[Top]
        <4>1. {r \in Requests : active'[r]} = {r \in Requests : active[r]}
          BY <2>3, <2>4, <3>2
        <4>2. refs' = refs
          BY <1>0, <2>1, <2>2, <3>2
        <4> QED
          BY <1>0, <4>1, <4>2 DEF Referenced
      <3> QED
        BY <3>1, <3>2
    <2>6. mapped' \/ (closing' /\ refs' = 0)
      <3>1. CASE active[Top]
        <4>1. refs # 0
          <5>1. {r \in Requests : active[r]} # {}
            BY <2>1, <3>1
          <5> QED
            BY <1>0, <5>1, ActiveFinite, FS_EmptySet DEF Referenced
        <4> QED
          BY <1>0, <2>1, <2>2, <4>1 DEF Referenced
      <3>2. CASE ~active[Top]
        <4>1. refs' = refs
          BY <1>0, <2>1, <2>2, <3>2
        <4>2. (mapped /\ ~retained[Top]) => mapped'
          BY <2>2
        <4> QED
          BY <1>0, <2>1, <3>2, <4>1, <4>2 DEF Referenced
      <3> QED
        BY <3>1, <3>2
    <2>7. ASSUME NEW r \in Requests, serving'[r][1] = "slot" PROVE active'[r]
      <3>1. r # Top
        BY <1>0, <2>1, <2>2, <2>7
      <3> QED
        BY <1>0, <2>2, <2>4, <2>7, <3>1 DEF Referenced
    <2>8. \A r \in Requests : active'[r] => r < nextReq'
      BY <1>0, <2>1, <2>3, <2>4 DEF Referenced
    <2>9. \A r \in Requests : retained'[r] = active'[r]
      BY <1>0, <2>1, <2>2, <2>4 DEF Referenced
    <2> QED
      BY <2>1, <2>5, <2>6, <2>7, <2>8, <2>9 DEF Referenced
  <1>5. CASE \/ TakeSlot \/ Poll \/ PollNothing \/ Scan \/ ParkedEvent \/ ParkedWake
             \/ UnparkHost \/ BodyEnds \/ Answer \/ AnswerWakes \/ Overflow \/ PublishMarker
             \/ SocketReply \/ HostCanceled
    <2>1. UNCHANGED <<active, retained, stack, nextReq, refs, mapped, closing>>
      BY <1>5 DEF TakeSlot, Poll, PollNothing, Scan, ParkedEvent, ParkedWake, UnparkHost, BodyEnds,
             Answer, AnswerWakes, Overflow, PublishMarker, SocketReply, HostCanceled, Select, life
    <2>2. hpc \notin {"out", "retain"} /\ hpc' # "retain"
      BY <1>5 DEF TakeSlot, Poll, PollNothing, Scan, ParkedEvent, ParkedWake, UnparkHost, BodyEnds,
             Answer, AnswerWakes, Overflow, PublishMarker, SocketReply, HostCanceled, Host, Handle,
             Continue, LoopOf, Events
    <2>3. Top \in Requests
      BY <2>2, TopOpen
    <2>4. hpc' \in Touching => active[Top]
      <3>1. hpc \in Touching => active[Top]
        BY <1>0 DEF Referenced, Touching
      <3>2. hpc = "body" /\ serving[Top][1] = "slot" => active[Top]
        BY <1>0, <2>3 DEF Referenced
      <3>3. CASE TakeSlot \/ Scan \/ ParkedEvent \/ ParkedWake \/ UnparkHost \/ Answer \/ Overflow
                 \/ AnswerWakes \/ PublishMarker
        BY <3>1, <3>3 DEF TakeSlot, Scan, ParkedEvent, ParkedWake, UnparkHost, Answer, Overflow,
             AnswerWakes, PublishMarker, Host, Touching
      <3>4. CASE Poll \/ PollNothing \/ SocketReply \/ HostCanceled
        BY <3>1, <3>4 DEF Poll, PollNothing, SocketReply, HostCanceled, Host, Handle, Continue,
             LoopOf, Touching, Events
      <3>5. CASE BodyEnds
        BY <3>2, <3>5 DEF BodyEnds, Continue, LoopOf, Touching
      <3> QED
        BY <1>5, <3>3, <3>4, <3>5
    <2>5. ASSUME NEW r \in Requests, serving'[r][1] = "slot" PROVE active[r]
      <3>1. \/ serving'[r] = serving[r]
            \/ r = Top /\ hpc = "take"
            \/ r = Top /\ serving'[r][1] # "slot"
        <4>1. CASE TakeSlot
          BY <1>0, <4>1 DEF TakeSlot
        <4>2. CASE Poll \/ ParkedEvent
          <5>1. \/ serving' = serving
                \/ serving' = [serving EXCEPT ![Top] = <<"sock", callbacks[Top]>>]
            BY <4>2 DEF Poll, ParkedEvent, Select
          <5> QED
            BY <1>0, <5>1
        <4>3. CASE ~TakeSlot /\ ~Poll /\ ~ParkedEvent
          <5>1. serving' = serving \/ serving' = [serving EXCEPT ![Top] = <<"none">>]
            BY <1>5, <4>3 DEF PollNothing, Scan, ParkedWake, UnparkHost, BodyEnds, Answer,
                 AnswerWakes, Overflow, PublishMarker, SocketReply, HostCanceled, Continue
          <5> QED
            BY <1>0, <5>1
        <4> QED
          BY <4>1, <4>2, <4>3
      <3> QED
        BY <1>0, <2>5, <3>1 DEF Referenced
    <2> QED
      BY <2>1, <2>2, <2>4, <2>5, LoopReferenced
  <1>6. HostStep \/ HostCanceled => Referenced'
    BY <1>3, <1>4, <1>5 DEF HostStep
  <1> QED
    BY <1>1, <1>2, <1>6, NextCases, CallFrame, OtherFrame, ExitFrame DEF vars, life

\* The life of the session.
LEMMA LifeStep ==
    ASSUME IInv, [Next]_vars
    PROVE  LifeType'
  <1> USE DEF IInv, TypeOK
  <1>0. LifeType
    OBVIOUS
  <1>1. refs' \in Nat
    <2>1. refs' = Cardinality({r \in Requests : active'[r]})
      BY ReferencedStep DEF Referenced
    <2>2. IsFiniteSet({r \in Requests : active'[r]})
      <3>1. IsFiniteSet(Requests)
        BY MailboxAssumption, FS_Interval DEF Requests
      <3> QED
        BY <3>1, FS_Subset
    <2> QED
      BY <2>1, <2>2, FS_CardinalityType
  <1>2. CASE UNCHANGED <<closer, mailbox, closing, mapped>>
    BY <1>0, <1>1, <1>2 DEF LifeType
  <1>3. CASE OtherStep
    <2>1. /\ closer' \in {"idle", "wait", "drop", "closed"}
          /\ mailbox' \in BOOLEAN /\ closing' \in BOOLEAN /\ mapped' \in BOOLEAN
      BY <1>0, <1>3 DEF OtherStep, ReaderStep, CloseStep, ReaderReads, ReaderPushes, ReaderEnds,
           CloseConn, CloseDrop, CloseMailbox, DepReplies, life, LifeType
    <2> QED
      BY <1>1, <2>1 DEF LifeType
  <1>4. CASE Enter \/ HostStep \/ HostCanceled
    <2>1. UNCHANGED <<closer, mailbox, closing>>
      BY <1>4, HostFrame
    <2>2. mapped' \in BOOLEAN
      BY <1>0, <1>4 DEF Enter, HostStep, HostCanceled, Send, TakeSlot, Poll, PollNothing, Scan,
             ParkedEvent, ParkedWake, UnparkHost, BodyEnds, Answer, AnswerWakes, Overflow,
             PublishMarker, SocketReply, Leave, Select, life, LifeType
    <2> QED
      BY <1>0, <1>1, <2>1, <2>2 DEF LifeType
  <1> QED
    BY <1>2, <1>3, <1>4, NextCases, CallFrame, ExitFrame DEF life, vars

-----------------------------------------------------------------------------
(* Callbacks in transit.                                                   *)

\* Callback c is nowhere.
Nowhere(c) ==
    /\ \A s \in Slots : ~InSlot(c, s)
    /\ \A i \in 1 .. Len(toHost) : ~OnWire(c, i)
    /\ \A r \in Requests : callbacks[r] # c
    /\ ~InHand(c)

\* A callback that was not raised, or whose body ran, is nowhere.
LEMMA RunIsNowhere ==
    ASSUME IInv, NEW c \in Calls, ~Unrun(c)
    PROVE  Nowhere(c)
  BY DEF IInv, InTransit, OnePlace, Nowhere

\* A callback that is raised stays raised; it runs once, when it was on its way.
LEMMA RunsOnce ==
    ASSUME IInv, [Next]_vars, NEW c \in Calls
    PROVE  /\ cpc[c] # "none" => cpc'[c] # "none"
           /\ \/ ran'[c] = ran[c]
              \/ /\ Unrun(c) /\ ran'[c] = 1
                 /\ \/ /\ TakeSlot /\ look \in Slots /\ InSlot(c, look)
                       /\ ran' = [ran EXCEPT ![c] = @ + 1]
                    \/ /\ hpc \in {"poll", "parked"} /\ (Poll \/ ParkedEvent) /\ callbacks[Top] = c
                       /\ callbacks' = [callbacks EXCEPT ![Top] = 0]
                       /\ serving' = [serving EXCEPT ![Top] = <<"sock", c>>]
  <1> USE DEF IInv, TypeOK
  <1>0. CallType /\ InTransit
    OBVIOUS
  <1>1. cpc[c] # "none" => cpc'[c] # "none"
    <2>1. ASSUME NEW d \in Calls, CallStep(d) \/ Fallback(d) \/ \E s \in Slots : Claim(d, s)
          PROVE  \E to : to # "none" /\ cpc' = [cpc EXCEPT ![d] = to]
      BY <2>1 DEF CallStep, Claim, Fallback, CheckHost, SpinEnds, Recheck, Parked, Abandon,
                  Take, Await, AwaitStopped, Call
    <2>2. WorkerExits => cpc'[c] # "none"
      BY DEF WorkerExits
    <2>3. \/ UNCHANGED cpc \/ WorkerExits
          \/ \E d \in Calls : \E to : to # "none" /\ cpc' = [cpc EXCEPT ![d] = to]
      BY <2>1, NextCases, HostFrame, OtherFrame DEF vars, callVars
    <2> QED
      BY <1>0, <2>2, <2>3 DEF CallType
  <1>2. CASE UNCHANGED ran
    BY <1>1, <1>2
  <1>3. CASE /\ look \in Slots /\ word[look] = "request" /\ owner[look] \in Calls
             /\ TakeSlot /\ ran' = [ran EXCEPT ![owner[look]] = @ + 1]
    <2>1. owner[look] = c => InSlot(c, look) /\ Unrun(c)
      BY <1>0, <1>3 DEF InSlot, InTransit, OnePlace
    <2>2. owner[look] = c => ran'[c] = 1
      BY <1>0, <1>3, <2>1 DEF Unrun, CallType
    <2>3. owner[look] # c => ran'[c] = ran[c]
      BY <1>0, <1>3 DEF CallType
    <2> QED
      BY <1>1, <1>3, <2>1, <2>2, <2>3
  <1>4. CASE /\ hpc \in {"poll", "parked"} /\ callbacks[Top] \in Calls
             /\ (Poll \/ ParkedEvent)
             /\ ran' = [ran EXCEPT ![callbacks[Top]] = @ + 1]
             /\ callbacks' = [callbacks EXCEPT ![Top] = 0]
             /\ serving' = [serving EXCEPT ![Top] = <<"sock", callbacks[Top]>>]
    <2>0. Top \in Requests
      BY <1>4, TopOpen
    <2>1. callbacks[Top] = c => Unrun(c)
      BY <1>0, <2>0 DEF InTransit, OnePlace
    <2>2. callbacks[Top] = c => ran'[c] = 1
      BY <1>0, <1>4, <2>1 DEF Unrun, CallType
    <2>3. callbacks[Top] # c => ran'[c] = ran[c]
      BY <1>0, <1>4 DEF CallType
    <2> QED
      BY <1>1, <1>4, <2>1, <2>2, <2>3
  <1> QED
    BY <1>2, <1>3, <1>4, RanStep

\* Nothing came to a new place for c, and its body did not run; the messages on the
\* connection may have moved up.
LEMMA OnePlaceKept ==
    ASSUME NEW c \in Calls, OnePlace(c), NEW k \in {0, 1}, Unrun(c) => Unrun(c)',
           \A s \in Slots : InSlot(c, s)' => InSlot(c, s),
           \A i \in 1 .. Len(toHost') :
               OnWire(c, i)' => i + k \in 1 .. Len(toHost) /\ OnWire(c, i + k),
           Len(toHost') \in Nat,
           \A r \in Requests : callbacks'[r] = c => callbacks[r] = c,
           InHand(c)' => InHand(c)
    PROVE  OnePlace(c)'
  <1>1. \A i, j \in 1 .. Len(toHost') : OnWire(c, i)' /\ OnWire(c, j)' => i = j
    <2> SUFFICES ASSUME NEW i \in 1 .. Len(toHost'), NEW j \in 1 .. Len(toHost'),
                        OnWire(c, i)', OnWire(c, j)'
                 PROVE  i = j
      OBVIOUS
    <2>1. /\ i + k \in 1 .. Len(toHost) /\ j + k \in 1 .. Len(toHost)
          /\ OnWire(c, i + k) /\ OnWire(c, j + k)
      OBVIOUS
    <2>2. i + k = j + k
      BY <2>1 DEF OnePlace
    <2> QED
      BY <2>2
  <1> QED
    BY <1>1 DEF OnePlace

\* The connection after a message to the interpreter.
LEMMA ToHostEffect ==
    ASSUME IInv, NEW m \in Message, ToHost(m), NEW c \in Calls
    PROVE  /\ Len(toHost') \in Nat
           /\ \A i \in 1 .. Len(toHost') : OnWire(c, i)' =>
                \/ i \in 1 .. Len(toHost) /\ OnWire(c, i)
                \/ i = Len(toHost) + 1 /\ m[1] = "callback" /\ m[2] = c
  <1>1. toHost \in Seq(Message) /\ (toHost' = toHost \/ toHost' = Append(toHost, m))
    BY DEF IInv, TypeOK, WireType, ToHost
  <1>2. CASE toHost' = toHost
    BY <1>1, <1>2 DEF OnWire
  <1>3. CASE toHost' = Append(toHost, m)
    <2>1. /\ Len(toHost') = Len(toHost) + 1 /\ Len(toHost) \in Nat
          /\ toHost'[Len(toHost) + 1] = m
          /\ \A i \in 1 .. Len(toHost) : toHost'[i] = toHost[i]
      BY <1>1, <1>3
    <2> QED
      BY <2>1 DEF OnWire
  <1> QED
    BY <1>1, <1>2, <1>3

\* The worker moves a callback out of nowhere, and frees slots.
LEMMA CallTransit ==
    ASSUME IInv, [Next]_vars, NEW d \in Calls, NEW c \in Calls,
           CallStep(d) \/ Fallback(d) \/ \E s \in Slots : Claim(d, s)
    PROVE  OnePlace(c)'
  <1> USE DEF IInv, TypeOK
  <1>0. OnePlace(c) /\ MemoryType /\ CallType /\ WireType
    BY DEF InTransit
  <1>1. /\ UNCHANGED <<callbacks, reader, ran>>
        /\ cpc[c] # "none" => cpc'[c] # "none"
    BY CallFrame, RunsOnce DEF chanVars
  <1>2. Unrun(c) => Unrun(c)'
    BY <1>1 DEF Unrun
  <1>3. InHand(c)' <=> InHand(c)
    BY <1>1 DEF InHand
  <1>4. CASE CheckHost(d) \/ SpinEnds(d) \/ Recheck(d) \/ Parked(d) \/ Await(d) \/ AwaitStopped(d)
    <2>1. UNCHANGED <<word, owner>>
      BY <1>4 DEF CheckHost, SpinEnds, Recheck, Parked, Await, AwaitStopped, memory
    <2>2. toHost' = toHost \/ ToHost(<<"wake">>)
      BY <1>4 DEF CheckHost, SpinEnds, Recheck, Parked, Await, AwaitStopped, wires
    <2>3. /\ Len(toHost') \in Nat
          /\ \A i \in 1 .. Len(toHost') : OnWire(c, i)' => i \in 1 .. Len(toHost) /\ OnWire(c, i)
      <3>1. CASE toHost' = toHost
        BY <1>0, <3>1 DEF OnWire, WireType
      <3>2. CASE ToHost(<<"wake">>)
        <4>1. PICK m \in Message : m = <<"wake">> /\ m[1] # "callback"
          BY Shapes
        <4> QED
          BY <3>2, <4>1, ToHostEffect
      <3> QED
        BY <2>2, <3>1, <3>2
    <2>4. \A s \in Slots : InSlot(c, s)' => InSlot(c, s)
      BY <2>1 DEF InSlot
    <2>5. \A i \in 1 .. Len(toHost') :
              OnWire(c, i)' => i + 0 \in 1 .. Len(toHost) /\ OnWire(c, i + 0)
      <3> SUFFICES ASSUME NEW i \in 1 .. Len(toHost')
                   PROVE  OnWire(c, i)' => i + 0 \in 1 .. Len(toHost) /\ OnWire(c, i + 0)
        OBVIOUS
      <3>1. i + 0 = i
        BY <2>3
      <3> QED
        BY <2>3, <3>1
    <2> QED
      BY <1>0, <1>1, <1>2, <1>3, <2>3, <2>4, <2>5, OnePlaceKept
  <1>5. CASE Abandon(d) \/ Take(d)
    <2>1. UNCHANGED toHost
      BY <1>5 DEF Abandon, Take, wires
    <2>2. PICK x \in Slots : x = slotOf[d]
      BY <1>5, SlotHeld DEF Abandon, Take, Call
    <2>3. word' = [word EXCEPT ![x] = "free"] /\ owner' = [owner EXCEPT ![x] = 0]
      BY <1>5, <2>2 DEF Abandon, Take, Free
    <2>4. \A s \in Slots : InSlot(c, s)' => InSlot(c, s)
      BY <1>0, <2>3 DEF InSlot, MemoryType
    <2>5. Len(toHost') \in Nat /\ \A i \in 1 .. Len(toHost') : OnWire(c, i)' <=> OnWire(c, i)
      BY <1>0, <2>1 DEF OnWire, WireType
    <2>6. \A i \in 1 .. Len(toHost') : i + 0 = i
      BY <2>5
    <2>7. \A i \in 1 .. Len(toHost') :
              OnWire(c, i)' => i + 0 \in 1 .. Len(toHost) /\ OnWire(c, i + 0)
      BY <2>1, <2>5, <2>6
    <2> QED
      BY <1>0, <1>1, <1>2, <1>3, <2>4, <2>5, <2>7, OnePlaceKept
  <1>6. CASE Fallback(d)
    <2>1. /\ UNCHANGED <<word, owner>> /\ cpc[d] = "none" /\ cpc'[d] = "await"
          /\ ToHost(<<"callback", d>>)
      BY <1>0, <1>6 DEF Fallback, memory, Call, CallType
    <2>2. PICK m \in Message : m = <<"callback", d>> /\ m[1] = "callback" /\ m[2] = d
      BY Shapes
    <2>3. /\ Len(toHost') \in Nat /\ Len(toHost) \in Nat
          /\ \A i \in 1 .. Len(toHost') : OnWire(c, i)' =>
                \/ i \in 1 .. Len(toHost) /\ OnWire(c, i)
                \/ i = Len(toHost) + 1 /\ d = c
      BY <1>0, <2>1, <2>2, ToHostEffect DEF WireType
    <2>4. \A s \in Slots : InSlot(c, s)' => InSlot(c, s)
      BY <2>1 DEF InSlot
    <2>5. CASE c # d
      <3>1. \A i \in 1 .. Len(toHost') : i + 0 = i
        BY <2>3
      <3>2. \A i \in 1 .. Len(toHost') :
                OnWire(c, i)' => i + 0 \in 1 .. Len(toHost) /\ OnWire(c, i + 0)
        BY <2>3, <2>5, <3>1
      <3> QED
        BY <1>0, <1>1, <1>2, <1>3, <2>3, <2>4, <3>2, OnePlaceKept
    <2>6. CASE c = d
      <3>1. Nowhere(c)
        BY <2>1, <2>6, RunIsNowhere DEF Unrun
      <3>2. \A i \in 1 .. Len(toHost') : OnWire(c, i)' => i = Len(toHost) + 1
        BY <2>3, <3>1 DEF Nowhere
      <3>3. Unrun(c)'
        BY <1>1, <2>1, <2>6 DEF Unrun, Ran
      <3> QED
        BY <1>1, <1>3, <2>4, <3>1, <3>2, <3>3 DEF OnePlace, Nowhere
    <2> QED
      BY <2>5, <2>6
  <1>7. ASSUME NEW s \in Slots, Claim(d, s) PROVE OnePlace(c)'
    <2>1. /\ UNCHANGED toHost /\ cpc[d] = "none" /\ cpc'[d] = "published"
          /\ word' = [word EXCEPT ![s] = "request"] /\ owner' = [owner EXCEPT ![s] = d]
      BY <1>0, <1>7 DEF Claim, wires, Call, CallType
    <2>2. \A t \in Slots : InSlot(c, t)' => (t = s /\ c = d) \/ (t # s /\ InSlot(c, t))
      BY <1>0, <2>1 DEF InSlot, MemoryType
    <2>3. Len(toHost') \in Nat /\ \A i \in 1 .. Len(toHost') : OnWire(c, i)' <=> OnWire(c, i)
      BY <1>0, <2>1 DEF OnWire, WireType
    <2>5. CASE c # d
      <3>1. \A i \in 1 .. Len(toHost') : i + 0 = i
        BY <2>3
      <3>2. \A i \in 1 .. Len(toHost') :
                OnWire(c, i)' => i + 0 \in 1 .. Len(toHost) /\ OnWire(c, i + 0)
        BY <2>1, <2>3, <3>1
      <3> QED
        BY <1>0, <1>1, <1>2, <1>3, <2>2, <2>3, <2>5, <3>2, OnePlaceKept
    <2>6. CASE c = d
      <3>1. Nowhere(c)
        BY <2>1, <2>6, RunIsNowhere DEF Unrun
      <3>2. \A i \in 1 .. Len(toHost') : ~OnWire(c, i)'
        BY <2>1, <2>3, <3>1 DEF Nowhere
      <3>3. Unrun(c)'
        BY <1>1, <2>1, <2>6 DEF Unrun, Ran
      <3>4. \A t \in Slots : InSlot(c, t)' => t = s
        BY <2>2, <3>1 DEF Nowhere
      <3> QED
        BY <1>1, <1>3, <3>1, <3>2, <3>3, <3>4 DEF OnePlace, Nowhere
    <2> QED
      BY <2>5, <2>6
  <1> QED
    BY <1>4, <1>5, <1>6, <1>7 DEF CallStep

\* The interpreter moves no callback: it takes one and runs its body.
LEMMA HostTransit ==
    ASSUME IInv, [Next]_vars, NEW c \in Calls, Enter \/ HostStep \/ HostCanceled
    PROVE  OnePlace(c)'
  <1> USE DEF IInv, TypeOK
  <1>0. OnePlace(c) /\ MemoryType /\ WireType
    BY DEF InTransit
  <1>1. UNCHANGED <<reader, toHost, cpc>>
    BY HostFrame DEF wires
  <1>2. (InHand(c)' <=> InHand(c)) /\ Len(toHost') \in Nat
        /\ \A i \in 1 .. Len(toHost') : OnWire(c, i)' <=> OnWire(c, i)
    BY <1>0, <1>1 DEF InHand, OnWire, WireType
  <1>3. \A r \in Requests : callbacks'[r] = c => callbacks[r] = c
    <2>1. callbacks' = callbacks \/ callbacks' = [callbacks EXCEPT ![Top] = 0]
      BY DEF Enter, HostStep, HostCanceled, Send, TakeSlot, Poll, PollNothing,
             Scan, ParkedEvent, ParkedWake, UnparkHost, BodyEnds, Answer, AnswerWakes, Overflow,
             PublishMarker, SocketReply, Leave, Select, chanVars
    <2> QED
      BY <1>0, <2>1, Numbers DEF WireType
  <1>4. \A s \in Slots : InSlot(c, s)' => InSlot(c, s) /\ ~(TakeSlot /\ s = look)
    <2>1. CASE TakeSlot
      <3>1. \/ look \in Slots /\ word[look] = "request" /\ word' = [word EXCEPT ![look] = "serving"]
            \/ ~(look \in Slots /\ word[look] = "request") /\ word' = word
        BY <2>1 DEF TakeSlot, TakenWord
      <3>2. owner' = owner
        BY <2>1 DEF TakeSlot
      <3> QED
        BY <1>0, <3>1, <3>2 DEF InSlot, MemoryType
    <2>2. CASE ~TakeSlot
      <3>1. \/ UNCHANGED <<word, owner>>
            \/ \E x, d : /\ word' = [word EXCEPT ![x] = "reply"] /\ owner' = [owner EXCEPT ![x] = d]
        BY <2>2 DEF Enter, HostStep, HostCanceled, Send, Poll, PollNothing,
             Scan, ParkedEvent, ParkedWake, UnparkHost, BodyEnds, Answer, AnswerWakes, Overflow,
             PublishMarker, SocketReply, Leave, memory
      <3> QED
        BY <1>0, <2>2, <3>1 DEF InSlot, MemoryType
    <2> QED
      BY <2>1, <2>2
  <1>5. CASE Unrun(c) => Unrun(c)'
    <2>1. \A i \in 1 .. Len(toHost') : i + 0 = i
      BY <1>2
    <2>2. \A i \in 1 .. Len(toHost') :
              OnWire(c, i)' => i + 0 \in 1 .. Len(toHost) /\ OnWire(c, i + 0)
      BY <1>1, <1>2, <2>1
    <2> QED
      BY <1>0, <1>2, <1>3, <1>4, <1>5, <2>2, OnePlaceKept
  <1>6. CASE Unrun(c) /\ ~Unrun(c)'
    <2>1. ran'[c] # ran[c]
      BY <1>1, <1>6 DEF Unrun
    <2>2. \/ TakeSlot /\ look \in Slots /\ InSlot(c, look)
          \/ /\ hpc \in {"poll", "parked"} /\ callbacks[Top] = c
             /\ callbacks' = [callbacks EXCEPT ![Top] = 0]
      BY <2>1, RunsOnce
    <2>3. CASE TakeSlot /\ look \in Slots /\ InSlot(c, look)
      <3>1. /\ \A s \in Slots : InSlot(c, s) => s = look
            /\ ~InHand(c) /\ \A i \in 1 .. Len(toHost) : ~OnWire(c, i)
            /\ \A r \in Requests : callbacks[r] # c
        BY <1>0, <2>3 DEF OnePlace
      <3> QED
        BY <1>1, <1>2, <1>3, <1>4, <2>3, <3>1 DEF OnePlace
    <2>4. CASE /\ hpc \in {"poll", "parked"} /\ callbacks[Top] = c
               /\ callbacks' = [callbacks EXCEPT ![Top] = 0]
      <3>0. Top \in Requests
        BY <2>4, TopOpen
      <3>1. /\ \A s \in Slots : ~InSlot(c, s)
            /\ ~InHand(c) /\ \A i \in 1 .. Len(toHost) : ~OnWire(c, i)
            /\ \A r \in Requests : callbacks[r] = c => r = Top
        BY <1>0, <2>4, <3>0 DEF OnePlace
      <3>2. \A r \in Requests : callbacks'[r] # c
        BY <1>0, <1>3, <2>4, <3>0, <3>1, Numbers DEF WireType
      <3> QED
        BY <1>1, <1>2, <1>4, <3>1, <3>2 DEF OnePlace
    <2> QED
      BY <2>2, <2>3, <2>4
  <1> QED
    BY <1>5, <1>6

\* The control reader moves a callback on: to the channel of the innermost request, into
\* its own hands, or, without a request, nowhere.
LEMMA ReaderTransit ==
    ASSUME IInv, [Next]_vars, NEW c \in Calls, ReaderReads
    PROVE  OnePlace(c)'
  <1> USE DEF IInv, TypeOK
  <1>0. OnePlace(c) /\ WireType
    BY DEF InTransit
  <1>1. UNCHANGED <<word, owner, cpc, ran>>
    BY DEF ReaderReads, memory
  <1>2. /\ \A s \in Slots : InSlot(c, s)' <=> InSlot(c, s)
        /\ Unrun(c)' <=> Unrun(c)
    BY <1>1 DEF InSlot, Unrun
  <1>3. toHost \in Seq(Message) /\ toHost # <<>> /\ toHost' = Tail(toHost) /\ reader = <<"read">>
    BY <1>0 DEF WireType, ReaderReads
  <1>4. /\ Head(toHost) = toHost[1] /\ Head(toHost) \in Message
        /\ Len(toHost) \in Nat /\ 1 \in 1 .. Len(toHost) /\ Len(toHost') = Len(toHost) - 1
        /\ \A i \in 1 .. Len(toHost') : i + 1 \in 1 .. Len(toHost) /\ toHost'[i] = toHost[i + 1]
    BY <1>3
  <1>5. PICK m \in Message : m = toHost[1]
    BY <1>4
  <1>6. m[1] = "callback" => m[2] \in Calls
    BY <1>5, Shapes
  <1>7. \A i \in 1 .. Len(toHost') : OnWire(c, i)' => i + 1 \in 1 .. Len(toHost) /\ OnWire(c, i + 1)
    BY <1>4 DEF OnWire
  <1>8. ~InHand(c)
    BY <1>3 DEF InHand
  <1>9. /\ reader' = reader \/ (m[1] = "callback" /\ stack # <<>> /\ reader' = <<"push", m[2], Top>>
                                  /\ callbacks' = callbacks)
        /\ \/ callbacks' = callbacks
           \/ /\ m[1] = "callback" /\ stack # <<>> /\ callbacks[Top] = 0 /\ reader' = reader
              /\ callbacks' = [callbacks EXCEPT ![Top] = m[2]]
    BY <1>4, <1>5 DEF ReaderReads
  <1>10. CASE m[1] = "callback" /\ m[2] = c
    <2>1. OnWire(c, 1)
      BY <1>5, <1>10 DEF OnWire
    <2>2. /\ Unrun(c) /\ \A r \in Requests : callbacks[r] # c
          /\ \A s \in Slots : ~InSlot(c, s)
          /\ \A i \in 1 .. Len(toHost) : OnWire(c, i) => i = 1
      BY <1>0, <1>4, <2>1 DEF OnePlace
    <2>3. \A i \in 1 .. Len(toHost') : ~OnWire(c, i)'
      <3> SUFFICES ASSUME NEW i \in 1 .. Len(toHost'), OnWire(c, i)' PROVE FALSE
        OBVIOUS
      <3>1. i + 1 = 1
        BY <1>7, <2>2
      <3> QED
        BY <1>4, <3>1
    <2>4. CASE callbacks' = callbacks
      BY <1>2, <2>2, <2>3, <2>4 DEF OnePlace
    <2>5. CASE reader' = reader /\ callbacks' = [callbacks EXCEPT ![Top] = m[2]]
      <3>1. ~InHand(c)'
        BY <1>8, <2>5 DEF InHand
      <3>2. \A r \in Requests : callbacks'[r] = c => r = Top
        BY <1>0, <2>2, <2>5 DEF WireType
      <3> QED
        BY <1>2, <2>2, <2>3, <3>1, <3>2 DEF OnePlace
    <2> QED
      BY <1>9, <2>4, <2>5
  <1>11. CASE ~(m[1] = "callback" /\ m[2] = c)
    <2>1. \A r \in Requests : callbacks'[r] = c => callbacks[r] = c
      BY <1>0, <1>9, <1>11 DEF WireType
    <2>2. InHand(c)' => InHand(c)
      BY <1>9, <1>11 DEF InHand
    <2>3. Len(toHost') \in Nat
      BY <1>4
    <2> QED
      BY <1>0, <1>2, <1>7, <2>1, <2>2, <2>3, OnePlaceKept
  <1> QED
    BY <1>10, <1>11

\* The blocked reader hands its callback over; closing the connection drops what is on it.
LEMMA OtherTransit ==
    ASSUME IInv, [Next]_vars, NEW c \in Calls, OtherStep
    PROVE  OnePlace(c)'
  <1> USE DEF IInv, TypeOK
  <1>0. OnePlace(c) /\ WireType
    BY DEF InTransit
  <1>1. UNCHANGED <<word, owner, cpc, ran>>
    BY OtherFrame DEF memory
  <1>2. /\ \A s \in Slots : InSlot(c, s)' <=> InSlot(c, s)
        /\ Unrun(c)' <=> Unrun(c)
    BY <1>1 DEF InSlot, Unrun
  <1>3. ASSUME Len(toHost') \in Nat,
               \A i \in 1 .. Len(toHost') : OnWire(c, i)' => i \in 1 .. Len(toHost) /\ OnWire(c, i),
               \A r \in Requests : callbacks'[r] = c => callbacks[r] = c,
               InHand(c)' => InHand(c)
        PROVE  OnePlace(c)'
    <2>1. \A i \in 1 .. Len(toHost') : i + 0 = i
      BY <1>3
    <2>2. \A i \in 1 .. Len(toHost') :
              OnWire(c, i)' => i + 0 \in 1 .. Len(toHost) /\ OnWire(c, i + 0)
      BY <1>3, <2>1
    <2> QED
      BY <1>0, <1>2, <1>3, <2>2, OnePlaceKept
  <1>4. CASE ReaderReads
    BY <1>4, ReaderTransit
  <1>5. CASE ReaderPushes
    <2>1. UNCHANGED toHost /\ reader[1] = "push" /\ reader[2] \in Calls /\ reader'[1] # "push"
      BY <1>0, <1>5, Shapes DEF ReaderPushes, WireType
    <2>2. ~InHand(c)'
      BY <2>1 DEF InHand
    <2>3. Len(toHost') \in Nat /\ \A i \in 1 .. Len(toHost') : OnWire(c, i)' <=> OnWire(c, i)
      BY <1>0, <2>1 DEF OnWire, WireType
    <2>4. CASE reader[2] = c
      <3>1. /\ Unrun(c) /\ \A s \in Slots : ~InSlot(c, s)
            /\ \A i \in 1 .. Len(toHost) : ~OnWire(c, i)
            /\ \A r \in Requests : callbacks[r] # c
        BY <1>0, <2>1, <2>4 DEF OnePlace, InHand
      <3>2. \A r \in Requests : callbacks'[r] = c => r = reader[3]
        BY <1>0, <1>5, <3>1 DEF ReaderPushes, WireType
      <3> QED
        BY <1>2, <2>1, <2>2, <2>3, <3>1, <3>2 DEF OnePlace
    <2>5. CASE reader[2] # c
      <3>1. \A r \in Requests : callbacks'[r] = c => callbacks[r] = c
        BY <1>0, <1>5, <2>5 DEF ReaderPushes, WireType
      <3> QED
        BY <1>3, <2>1, <2>2, <2>3, <3>1
    <2> QED
      BY <2>4, <2>5
  <1>6. CASE ReaderEnds \/ CloseConn
    <2>1. /\ UNCHANGED callbacks /\ (toHost' = toHost \/ toHost' = <<>>)
          /\ reader' = reader \/ reader' = <<"ended">>
      BY <1>6 DEF ReaderEnds, CloseConn, chanVars
    <2>2. InHand(c)' => InHand(c)
      BY <2>1 DEF InHand
    <2>3. CASE toHost' = toHost
      BY <1>0, <1>3, <2>1, <2>2, <2>3 DEF OnWire, WireType
    <2>4. CASE toHost' = <<>>
      <3>1. Len(toHost') = 0
        BY <2>4
      <3> QED
        BY <1>3, <2>1, <2>2, <3>1
    <2> QED
      BY <2>1, <2>3, <2>4
  <1>7. ASSUME NEW r \in Requests, DepReplies(r) PROVE OnePlace(c)'
    <2>1. ToHost(<<"reply", r>>) /\ UNCHANGED <<callbacks, reader>>
      BY <1>7 DEF DepReplies
    <2>2. PICK m \in Message : m = <<"reply", r>> /\ m[1] # "callback"
      BY Shapes
    <2>3. /\ Len(toHost') \in Nat
          /\ \A i \in 1 .. Len(toHost') : OnWire(c, i)' => i \in 1 .. Len(toHost) /\ OnWire(c, i)
      BY <2>1, <2>2, ToHostEffect
    <2> QED
      BY <1>3, <2>1, <2>3 DEF InHand
  <1>8. CASE CloseStep
    <2>1. UNCHANGED <<callbacks, toHost, reader>>
      BY <1>8 DEF CloseStep, CloseDrop, CloseMailbox, chanVars, wires
    <2> QED
      BY <1>0, <1>3, <2>1 DEF InHand, OnWire, WireType
  <1> QED
    BY <1>4, <1>5, <1>6, <1>7, <1>8 DEF OtherStep, ReaderStep

\* A callback is at one place at most.
LEMMA TransitStep ==
    ASSUME IInv, [Next]_vars
    PROVE  InTransit'
  <1> SUFFICES ASSUME NEW c \in Calls PROVE OnePlace(c)'
    BY DEF InTransit
  <1>0. OnePlace(c)
    BY DEF IInv, InTransit
  <1>1. CASE WorkerExits \/ UNCHANGED vars
    <2>1. UNCHANGED <<word, owner, ran, callbacks, toHost, reader>>
      BY <1>1, ExitFrame DEF vars, memory, chanVars, wires
    <2>2. Unrun(c) => Unrun(c)'
      BY <2>1, RunsOnce DEF Unrun
    <2>3. /\ \A s \in Slots : InSlot(c, s)' <=> InSlot(c, s)
          /\ \A i \in 1 .. Len(toHost) : OnWire(c, i)' <=> OnWire(c, i)
          /\ InHand(c)' <=> InHand(c)
      BY <2>1 DEF InSlot, OnWire, InHand
    <2> QED
      BY <1>0, <2>1, <2>2, <2>3 DEF OnePlace
  <1> QED
    BY <1>1, NextCases, CallTransit, HostTransit, OtherTransit

-----------------------------------------------------------------------------
(* Answers.                                                                *)

\* What a step does to a slot: its callback claims it, the interpreter takes and answers
\* it, the callback frees it.
LEMMA WordStep ==
    ASSUME IInv, [Next]_vars, NEW s \in Slots
    PROVE  \/ word'[s] = word[s] /\ owner'[s] = owner[s]
           \/ /\ word'[s] = "free"
              /\ \E c \in Calls : (Abandon(c) \/ Take(c)) /\ slotOf[c] = s
           \/ /\ word[s] = "free" /\ word'[s] = "request"
              /\ \E c \in Calls : Claim(c, s) /\ owner'[s] = c
           \/ /\ TakeSlot /\ s = look /\ word[s] = "request"
              /\ word'[s] = "serving" /\ owner'[s] = owner[s]
           \/ /\ Answer \/ PublishMarker
              /\ s = Slot /\ word'[s] = "reply" /\ owner'[s] = Served
  <1> USE DEF IInv, TypeOK
  <1>0. MemoryType
    OBVIOUS
  <1>1. ASSUME NEW c \in Calls, CallStep(c) \/ Fallback(c) \/ \E x \in Slots : Claim(c, x)
        PROVE  \/ word'[s] = word[s] /\ owner'[s] = owner[s]
               \/ word'[s] = "free" /\ (Abandon(c) \/ Take(c)) /\ slotOf[c] = s
               \/ word[s] = "free" /\ word'[s] = "request" /\ Claim(c, s) /\ owner'[s] = c
    <2>1. ASSUME NEW x \in Slots, Claim(c, x)
          PROVE  \/ word'[s] = word[s] /\ owner'[s] = owner[s]
                 \/ word[s] = "free" /\ word'[s] = "request" /\ Claim(c, s) /\ owner'[s] = c
      BY <1>0, <2>1 DEF Claim, MemoryType
    <2>2. CASE Abandon(c) \/ Take(c)
      BY <1>0, <2>2 DEF Abandon, Take, Free, MemoryType
    <2>3. CASE CheckHost(c) \/ SpinEnds(c) \/ Recheck(c) \/ Parked(c) \/ Await(c)
               \/ AwaitStopped(c) \/ Fallback(c)
      BY <2>3 DEF CheckHost, SpinEnds, Recheck, Parked, Await, AwaitStopped, Fallback, memory
    <2> QED
      BY <1>1, <2>1, <2>2, <2>3 DEF CallStep
  <1>2. CASE TakeSlot
    BY <1>0, <1>2 DEF TakeSlot, TakenWord, MemoryType
  <1>3. CASE Answer \/ PublishMarker
    BY <1>0, <1>3 DEF Answer, PublishMarker, MemoryType
  <1>4. CASE (HostStep \/ Enter \/ HostCanceled) /\ ~TakeSlot /\ ~Answer /\ ~PublishMarker
    BY <1>4 DEF Enter, HostStep, HostCanceled, Send, Poll, PollNothing, Scan, ParkedEvent,
         ParkedWake, UnparkHost, BodyEnds, AnswerWakes, Overflow, SocketReply, Leave, memory
  <1>5. CASE OtherStep \/ WorkerExits \/ UNCHANGED vars
    BY <1>5, OtherFrame, ExitFrame DEF vars, memory
  <1> QED
    BY <1>1, <1>2, <1>3, <1>4, <1>5, NextCases

\* What a step does to the work of a request.
LEMMA WorkStep ==
    ASSUME IInv, [Next]_vars, NEW r \in Requests
    PROVE  \/ serving'[r] = serving[r] /\ ~(r = Top /\ (PublishMarker \/ AnswerWakes))
           \/ serving'[r] = <<"none">>
           \/ /\ TakeSlot /\ r = Top /\ look \in Slots /\ word[look] = "request"
              /\ serving'[r] = <<"slot", owner[look], look>>
           \/ /\ r = Top /\ callbacks[Top] \in Calls /\ serving'[r] = <<"sock", callbacks[Top]>>
              /\ ran' = [ran EXCEPT ![callbacks[Top]] = @ + 1]
  <1> USE DEF IInv, TypeOK
  <1>0. serving \in [Requests -> Work] /\ WireType
    BY DEF HostType
  <1>1. CASE TakeSlot
    BY <1>0, <1>1 DEF TakeSlot, PublishMarker, AnswerWakes
  <1>2. CASE Poll \/ ParkedEvent
    <2>0. hpc \in {"poll", "parked"} /\ Top \in Requests
      BY <1>2, TopOpen DEF Poll, ParkedEvent, Host
    <2>1. \/ serving' = serving
          \/ /\ callbacks[Top] # 0
             /\ serving' = [serving EXCEPT ![Top] = <<"sock", callbacks[Top]>>]
             /\ ran' = [ran EXCEPT ![callbacks[Top]] = @ + 1]
      BY <1>2 DEF Poll, ParkedEvent, Select
    <2>2. callbacks[Top] \in {0} \cup Calls
      BY <1>0, <2>0 DEF WireType
    <2> QED
      BY <1>0, <2>0, <2>1, <2>2 DEF PublishMarker, AnswerWakes
  <1>3. CASE PublishMarker \/ AnswerWakes \/ Leave \/ SocketReply
    <2>1. serving' = [serving EXCEPT ![Top] = <<"none">>]
      BY <1>3 DEF PublishMarker, AnswerWakes, Leave, SocketReply, Continue
    <2> QED
      BY <1>0, <2>1
  <1>4. CASE BodyEnds
    <2>1. serving' = serving \/ serving' = [serving EXCEPT ![Top] = <<"none">>]
      BY <1>4 DEF BodyEnds, Continue
    <2>2. ~PublishMarker /\ ~AnswerWakes
      BY <1>4 DEF BodyEnds, PublishMarker, AnswerWakes
    <2> QED
      BY <1>0, <2>1, <2>2
  <1>5. CASE \/ Send \/ PollNothing \/ Scan \/ ParkedWake \/ UnparkHost \/ Answer \/ Overflow
             \/ Enter \/ HostCanceled
    BY <1>5 DEF Enter, HostCanceled, Send, PollNothing, Scan, ParkedWake, UnparkHost, Answer,
         Overflow, Host, PublishMarker, AnswerWakes
  <1>6. CASE ~(PublishMarker \/ AnswerWakes) /\ UNCHANGED serving
    BY <1>6
  <1> QED
    BY <1>1, <1>2, <1>3, <1>4, <1>5, <1>6, NextCases, CallFrame, OtherFrame, ExitFrame
    DEF HostStep, hostVars, vars

\* Evidence that a body ran is right.
LEMMA EvidenceStep ==
    ASSUME IInv, [Next]_vars
    PROVE  Ran'
  <1> USE DEF IInv, TypeOK
  <1>0. Ran /\ CallType /\ MemoryType
    OBVIOUS
  <1>1. \A d \in Calls : ran[d] = 1 => ran'[d] = 1
    BY RunsOnce DEF Unrun
  <1>2. ASSUME NEW c \in Calls, cpc'[c] = "none" PROVE ran'[c] = 0
    BY <1>0, <1>2, RunsOnce DEF Ran, Unrun
  <1>3. ASSUME NEW s \in Slots, word'[s] = "request" PROVE owner'[s] \in Calls
    BY <1>0, <1>3, WordStep DEF Ran
  <1>4. ASSUME NEW s \in Slots, word'[s] = "reply" PROVE owner'[s] \in Calls /\ ran'[owner'[s]] = 1
    <2>1. \/ word[s] = "reply" /\ owner'[s] = owner[s]
          \/ (Answer \/ PublishMarker) /\ owner'[s] = Served
      BY <1>4, WordStep
    <2>2. Answer \/ PublishMarker => Served \in Calls /\ ran[Served] = 1
      BY ServedCall DEF Answer, PublishMarker, Host
    <2> QED
      BY <1>0, <1>1, <2>1, <2>2 DEF Ran
  <1>5. ASSUME NEW r \in Requests, serving'[r][1] # "none" PROVE ran'[serving'[r][2]] = 1
    <2>1. CASE serving'[r] = serving[r]
      <3>1. serving[r][2] \in Calls /\ ran[serving[r][2]] = 1
        BY <1>0, <1>5, <2>1, ServingShape DEF Ran
      <3> QED
        BY <1>1, <2>1, <3>1
    <2>2. CASE /\ TakeSlot /\ look \in Slots /\ word[look] = "request"
               /\ serving'[r] = <<"slot", owner[look], look>>
      <3>1. PICK c \in Calls : c = owner[look]
        BY <1>0, <2>2 DEF Ran
      <3>2. Unrun(c)
        BY <2>2, <3>1 DEF InTransit, OnePlace, InSlot
      <3>3. ran' = [ran EXCEPT ![c] = @ + 1]
        BY <2>2, <3>1 DEF TakeSlot
      <3>4. ran'[c] = 1
        BY <1>0, <3>2, <3>3 DEF Unrun, CallType
      <3> QED
        BY <2>2, <3>1, <3>4
    <2>3. CASE /\ r = Top /\ callbacks[Top] \in Calls /\ serving'[r] = <<"sock", callbacks[Top]>>
               /\ ran' = [ran EXCEPT ![callbacks[Top]] = @ + 1]
      <3>1. PICK c \in Calls : c = callbacks[r]
        BY <2>3
      <3>2. Unrun(c)
        BY <3>1 DEF InTransit, OnePlace
      <3>3. ran' = [ran EXCEPT ![c] = @ + 1] /\ serving'[r] = <<"sock", c>>
        BY <2>3, <3>1
      <3>4. ran'[c] = 1
        BY <1>0, <3>2, <3>3 DEF Unrun, CallType
      <3> QED
        BY <3>3, <3>4
    <2>4. serving'[r] # <<"none">>
      BY <1>5
    <2> QED
      BY <2>1, <2>2, <2>3, <2>4, WorkStep
  <1>6. \A d \in Calls : wait'[d] = "reply" => ran'[d] = 1
    BY <1>1, WaitStep
  <1> QED
    BY <1>2, <1>3, <1>4, <1>5, <1>6 DEF Ran

\* A connection that closed stays closed, a process that is gone stays gone.
LEMMA LiveStep ==
    ASSUME IInv, [Next]_vars
    PROVE  (connected' => connected) /\ (~done' => ~done)
  <1>1. Enter \/ HostStep \/ HostCanceled => UNCHANGED <<connected, done>>
    BY HostFrame DEF wires
  <1>2. OtherStep => (connected' = connected \/ connected' = FALSE) /\ done' = done
    BY DEF OtherStep, ReaderStep, CloseStep, ReaderReads, ReaderPushes, ReaderEnds, CloseConn,
           CloseDrop, CloseMailbox, DepReplies, wires
  <1>3. (connected' = connected \/ connected' = FALSE) /\ (done' = done \/ done' = TRUE)
    BY <1>1, <1>2, NextCases, CallFrame, ExitFrame DEF vars, wires
  <1>4. connected \in BOOLEAN /\ done \in BOOLEAN
    BY DEF IInv, TypeOK, WireType
  <1> QED
    BY <1>3, <1>4

\* A request that holds a slot held it before, or has just taken it; having answered, it
\* holds it no more.
LEMMA HoldsStep ==
    ASSUME IInv, [Next]_vars, NEW r \in Requests, Holds(r)'
    PROVE  \/ /\ serving'[r] = serving[r] /\ Holds(r)
              /\ ~(r = Top /\ (Answer \/ PublishMarker))
           \/ /\ TakeSlot /\ r = Top /\ look \in Slots /\ word[look] = "request"
              /\ serving'[r] = <<"slot", owner[look], look>>
  <1>1. serving'[r][1] = "slot" /\ ~(hpc' = "flag" /\ r = Top')
    BY DEF Holds
  <1>2. CASE serving'[r] = serving[r] /\ ~(r = Top /\ (PublishMarker \/ AnswerWakes))
    <2>1. ASSUME r = Top, Answer PROVE FALSE
      <3>1. hpc' = "flag" /\ stack' = stack
        BY <2>1 DEF Answer, Host
      <3>2. Top' = Top
        BY <3>1 DEF Top
      <3> QED
        BY <1>1, <2>1, <3>1, <3>2
    <2>2. ASSUME hpc = "flag", r = Top PROVE FALSE
      <3>1. ~AnswerWakes
        BY <1>2, <2>2
      <3>2. ~Enter /\ ~HostStep /\ ~HostCanceled
        BY <2>2, <3>1 DEF Enter, HostStep, HostCanceled, Send, TakeSlot, Poll, PollNothing, Scan,
             ParkedEvent, ParkedWake, UnparkHost, BodyEnds, Answer, Overflow, PublishMarker,
             SocketReply, Leave, Host
      <3>3. UNCHANGED hostVars
        BY <3>2, NextCases, CallFrame, OtherFrame, ExitFrame DEF vars
      <3>4. hpc' = "flag" /\ Top' = Top
        BY <2>2, <3>3 DEF hostVars, Top
      <3> QED
        BY <1>1, <2>2, <3>4
    <2>3. serving[r][1] = "slot"
      BY <1>1, <1>2
    <2> QED
      BY <1>2, <2>1, <2>2, <2>3 DEF Holds
  <1>3. serving'[r] # <<"none">> /\ serving'[r] # <<"sock", callbacks[Top]>>
    BY <1>1
  <1> QED
    BY <1>2, <1>3, WorkStep

\* While both sides live a slot has one callback and one request.
LEMMA OwnedStep ==
    ASSUME IInv, [Next]_vars
    PROVE  Owned'
  <1> USE DEF IInv, TypeOK
  <1>0. CallType /\ MemoryType /\ HostType /\ Owned
    OBVIOUS
  <1>1. ASSUME NEW c \in Calls, cpc'[c] \in {"published", "spin", "recheck", "parked", "take"}
        PROVE  slotOf'[c] # 0
    <2>1. CASE UNCHANGED <<cpc, slotOf>>
      BY <1>0, <1>1, <2>1 DEF Owned
    <2>2. ASSUME NEW d \in Calls, CallStep(d) \/ Fallback(d) \/ \E s \in Slots : Claim(d, s)
          PROVE  slotOf'[c] # 0
      <3>1. ASSUME NEW s \in Slots, Claim(d, s) PROVE slotOf'[c] # 0
        BY <1>0, <1>1, <3>1, Numbers DEF Claim, Call, CallType, Owned
      <3>2. CASE Abandon(d) \/ Take(d)
        BY <1>0, <1>1, <3>2 DEF Abandon, Take, Call, CallType, Owned
      <3>3. CASE Fallback(d) \/ Await(d) \/ AwaitStopped(d)
        BY <1>0, <1>1, <3>3 DEF Fallback, Await, AwaitStopped, Call, CallType, Owned
      <3>4. CASE CheckHost(d) \/ SpinEnds(d) \/ Recheck(d) \/ Parked(d)
        <4>1. slotOf' = slotOf /\ cpc[d] \in {"published", "spin", "recheck", "parked", "take"}
              /\ \E to : cpc' = [cpc EXCEPT ![d] = to]
          BY <3>4 DEF CheckHost, SpinEnds, Recheck, Parked, Call
        <4> QED
          BY <1>0, <1>1, <4>1 DEF CallType, Owned
      <3> QED
        BY <2>2, <3>1, <3>2, <3>3, <3>4 DEF CallStep
    <2>3. CASE WorkerExits
      BY <1>1, <2>3 DEF WorkerExits
    <2> QED
      BY <2>1, <2>2, <2>3, NextCases, HostFrame, OtherFrame DEF vars, callVars
  <1>2. ASSUME done', NEW c \in Calls PROVE answeredBy'[c] = 0 /\ cpc'[c] # "none"
    <2>1. CASE WorkerExits
      BY <2>1 DEF WorkerExits
    <2>2. ASSUME NEW d \in Calls, CallStep(d) \/ Fallback(d) \/ \E s \in Slots : Claim(d, s)
          PROVE  FALSE
      <3>1. done' = done
        BY <2>2, CallFrame
      <3>2. ~done
        BY <2>2 DEF CallStep, Claim, Fallback, CheckHost, SpinEnds, Recheck, Parked, Abandon,
                    Take, Await, AwaitStopped, Call
      <3> QED
        BY <1>2, <3>1, <3>2
    <2>3. CASE UNCHANGED <<cpc, answeredBy>> /\ done' = done
      BY <1>0, <1>2, <2>3 DEF Owned
    <2>4. OtherStep => done' = done
      BY DEF OtherStep, ReaderStep, CloseStep, ReaderReads, ReaderPushes, ReaderEnds, CloseConn,
             CloseDrop, CloseMailbox, DepReplies, wires
    <2> QED
      BY <2>1, <2>2, <2>3, <2>4, NextCases, HostFrame, OtherFrame DEF vars, callVars, wires
  <1>3. ASSUME connected', ~done'
        PROVE  /\ \A c \in Calls :
                     slotOf'[c] # 0 => word'[slotOf'[c]] # "free" /\ owner'[slotOf'[c]] = c
               /\ \A r \in Requests : Holds(r)' =>
                     word'[serving'[r][3]] = "serving" /\ owner'[serving'[r][3]] = serving'[r][2]
               /\ \A q, r \in Requests :
                     Holds(q)' /\ Holds(r)' /\ serving'[q][3] = serving'[r][3] => q = r
    <2>0. /\ connected /\ ~done
          /\ \A c \in Calls :
                slotOf[c] # 0 => word[slotOf[c]] # "free" /\ owner[slotOf[c]] = c
          /\ \A r \in Requests : Holds(r) =>
                word[serving[r][3]] = "serving" /\ owner[serving[r][3]] = serving[r][2]
          /\ \A q, r \in Requests :
                Holds(q) /\ Holds(r) /\ serving[q][3] = serving[r][3] => q = r
      BY <1>0, <1>3, LiveStep DEF Owned
    <2>1. \A c \in Calls : ~Abandon(c)
      BY <2>0 DEF Abandon, Stop
    <2>2. Answer \/ PublishMarker =>
            /\ Top \in Requests /\ Holds(Top) /\ Slot = serving[Top][3] /\ Served = serving[Top][2]
      BY ServedCall, TopOpen DEF Answer, PublishMarker, Host, Holds
    <2>3. ASSUME NEW c \in Calls, slotOf'[c] # 0
          PROVE  word'[slotOf'[c]] # "free" /\ owner'[slotOf'[c]] = c
      <3>1. \/ slotOf'[c] = slotOf[c] /\ ~Take(c)
            \/ \E s \in Slots : Claim(c, s) /\ slotOf'[c] = s
        <4>1. ASSUME NEW d \in Calls, CallStep(d) \/ Fallback(d) \/ \E s \in Slots : Claim(d, s)
              PROVE  \/ slotOf'[c] = slotOf[c] /\ ~Take(c)
                     \/ \E s \in Slots : Claim(c, s) /\ slotOf'[c] = s
          <5>0. ~Take(c)
            BY <1>0, <2>3 DEF Take, CallType
          <5>1. ASSUME NEW s \in Slots, Claim(d, s)
                PROVE  slotOf'[c] = slotOf[c] \/ (d = c /\ slotOf'[c] = s)
            BY <1>0, <5>1 DEF Claim, CallType
          <5>2. CASE Abandon(d) \/ Take(d)
            BY <1>0, <2>3, <5>2 DEF Abandon, Take, CallType
          <5>3. CASE \/ CheckHost(d) \/ SpinEnds(d) \/ Recheck(d) \/ Parked(d)
                     \/ Await(d) \/ AwaitStopped(d) \/ Fallback(d)
            BY <5>0, <5>3 DEF CheckHost, SpinEnds, Recheck, Parked, Await, AwaitStopped, Fallback
          <5> QED
            BY <4>1, <5>0, <5>1, <5>2, <5>3 DEF CallStep
        <4>2. ~WorkerExits
          BY <1>3 DEF WorkerExits
        <4>3. Take(c) => slotOf'[c] = 0
          BY <1>0 DEF Take, CallType
        <4> QED
          BY <2>3, <4>1, <4>2, <4>3, NextCases, HostFrame, OtherFrame DEF vars, callVars
      <3>2. CASE slotOf'[c] = slotOf[c] /\ ~Take(c)
        <4>1. PICK s \in Slots : s = slotOf[c]
          BY <1>0, <2>3, <3>2 DEF CallType
        <4>2. word[s] # "free" /\ owner[s] = c
          BY <2>0, <2>3, <3>2, <4>1
        <4>3. ASSUME NEW d \in Calls, Take(d), slotOf[d] = s PROVE FALSE
          <5>1. owner[s] = d
            BY <2>0, <4>3, Numbers
          <5> QED
            BY <3>2, <4>2, <4>3, <5>1
        <4>4. (Answer \/ PublishMarker) /\ s = Slot => Served = c
          BY <2>0, <2>2, <4>2
        <4>5. word'[s] # "free" /\ owner'[s] = c
          BY <2>1, <4>2, <4>3, <4>4, WordStep
        <4> QED
          BY <3>2, <4>1, <4>5
      <3>3. ASSUME NEW s \in Slots, Claim(c, s), slotOf'[c] = s
            PROVE  word'[slotOf'[c]] # "free" /\ owner'[slotOf'[c]] = c
        BY <1>0, <3>3 DEF Claim, MemoryType
      <3> QED
        BY <3>1, <3>2, <3>3
    <2>4. ASSUME NEW r \in Requests, Holds(r)'
          PROVE  word'[serving'[r][3]] = "serving" /\ owner'[serving'[r][3]] = serving'[r][2]
      <3>1. CASE /\ serving'[r] = serving[r] /\ Holds(r)
                 /\ ~(r = Top /\ (Answer \/ PublishMarker))
        <4>1. PICK s \in Slots : s = serving[r][3]
          BY <3>1, ServingShape DEF Holds
        <4>2. word[s] = "serving" /\ owner[s] = serving[r][2]
          BY <2>0, <3>1, <4>1
        <4>3. ASSUME NEW d \in Calls, Take(d), slotOf[d] = s PROVE FALSE
          BY <4>2, <4>3 DEF Take, Replied
        <4>4. (Answer \/ PublishMarker) => s # Slot
          BY <2>0, <2>2, <3>1, <4>1
        <4>5. word'[s] = "serving" /\ owner'[s] = owner[s]
          BY <2>1, <4>2, <4>3, <4>4, WordStep
        <4> QED
          BY <3>1, <4>1, <4>2, <4>5
      <3>2. CASE /\ TakeSlot /\ r = Top /\ look \in Slots /\ word[look] = "request"
                 /\ serving'[r] = <<"slot", owner[look], look>>
        <4>1. word' = [word EXCEPT ![look] = "serving"] /\ owner' = owner
          BY <3>2 DEF TakeSlot, TakenWord
        <4>2. serving'[r][3] = look /\ serving'[r][2] = owner[look]
          BY <3>2
        <4> QED
          BY <1>0, <3>2, <4>1, <4>2 DEF MemoryType
      <3> QED
        BY <2>4, <3>1, <3>2, HoldsStep
    <2>5. ASSUME NEW q \in Requests, NEW r \in Requests, Holds(q)', Holds(r)',
                 serving'[q][3] = serving'[r][3]
          PROVE  q = r
      <3>1. \A x \in {q, r} :
              \/ serving'[x] = serving[x] /\ Holds(x) /\ word[serving'[x][3]] = "serving"
              \/ TakeSlot /\ x = Top /\ serving'[x][3] = look /\ word[serving'[x][3]] = "request"
        <4> SUFFICES ASSUME NEW x \in Requests, Holds(x)'
                     PROVE  \/ /\ serving'[x] = serving[x] /\ Holds(x)
                               /\ word[serving'[x][3]] = "serving"
                            \/ /\ TakeSlot /\ x = Top /\ serving'[x][3] = look
                               /\ word[serving'[x][3]] = "request"
          BY <2>5
        <4>1. CASE serving'[x] = serving[x] /\ Holds(x)
          BY <2>0, <4>1
        <4>2. CASE /\ TakeSlot /\ x = Top /\ look \in Slots /\ word[look] = "request"
                   /\ serving'[x] = <<"slot", owner[look], look>>
          <5>1. serving'[x][3] = look
            BY <4>2
          <5> QED
            BY <4>2, <5>1
        <4> QED
          BY <4>1, <4>2, HoldsStep
      <3>2. CASE TakeSlot /\ q = Top /\ word[serving'[q][3]] = "request"
        BY <2>5, <3>1, <3>2
      <3>3. CASE serving'[q] = serving[q] /\ Holds(q) /\ word[serving'[q][3]] = "serving"
        <4>1. serving'[r] = serving[r] /\ Holds(r)
          BY <2>5, <3>1, <3>3
        <4> QED
          BY <2>0, <2>5, <3>3, <4>1
      <3> QED
        BY <3>1, <3>2, <3>3
    <2> QED
      BY <2>3, <2>4, <2>5
  <1> QED
    BY <1>1, <1>2, <1>3 DEF Owned

\* A callback returns with its own answer.
LEMMA AnswerStep ==
    ASSUME IInv, [Next]_vars
    PROVE  OwnAnswerOnce'
  <1> USE DEF IInv, TypeOK
  <1> SUFFICES ASSUME NEW c \in Calls
               PROVE  /\ ran'[c] <= 1
                      /\ connected' /\ answeredBy'[c] \in Calls => answeredBy'[c] = c /\ ran'[c] = 1
    BY DEF OwnAnswerOnce, Stop
  <1>0. CallType /\ MemoryType /\ Owned /\ Ran
    OBVIOUS
  <1>1. ran'[c] <= 1 /\ (ran[c] = 1 => ran'[c] = 1)
    <2>1. ran[c] <= 1
      BY DEF OwnAnswerOnce
    <2> QED
      BY <2>1, RunsOnce DEF Unrun
  <1>2. ASSUME connected', answeredBy'[c] \in Calls PROVE answeredBy'[c] = c /\ ran[c] = 1
    <2>0. connected
      BY <1>2, LiveStep
    <2>1. CASE answeredBy'[c] = answeredBy[c]
      BY <1>2, <2>0, <2>1 DEF OwnAnswerOnce, Stop
    <2>2. CASE Take(c)
      <3>1. PICK s \in Slots : s = slotOf[c]
        BY <2>2, SlotHeld DEF Take, Call
      <3>2. \/ answeredBy' = [answeredBy EXCEPT ![c] = 0]
            \/ answeredBy' = [answeredBy EXCEPT ![c] = owner[s]]
        BY <2>2, <3>1 DEF Take
      <3>3. answeredBy'[c] = owner[s]
        BY <1>0, <1>2, <3>2, Numbers DEF CallType
      <3>4. word[s] = "reply" /\ ~done
        BY <2>2, <3>1 DEF Take, Replied, Call
      <3>5. owner[s] = c
        BY <1>0, <2>0, <3>1, <3>4, Numbers DEF Owned
      <3> QED
        BY <1>0, <3>3, <3>4, <3>5 DEF Ran
    <2>3. CASE Await(c)
      <3>1. answeredBy'[c] = IF wait[c] = "reply" THEN c ELSE 0
        BY <1>0, <2>3 DEF Await, CallType
      <3> QED
        BY <1>0, <1>2, <3>1, Numbers DEF Ran
    <2>4. CASE ~Take(c) /\ ~Await(c)
      <3>1. ASSUME NEW d \in Calls, CallStep(d) \/ Fallback(d) \/ \E s \in Slots : Claim(d, s)
            PROVE  answeredBy'[c] = answeredBy[c]
        <4>1. answeredBy' = answeredBy \/ Take(d) \/ Await(d)
          BY <3>1 DEF CallStep, Claim, Fallback, CheckHost, SpinEnds, Recheck, Parked, Abandon,
                      AwaitStopped
        <4>2. d # c => answeredBy'[c] = answeredBy[c]
          BY <1>0, <4>1 DEF Take, Await, CallType
        <4> QED
          BY <2>4, <4>1, <4>2
      <3>2. ~WorkerExits
        BY <1>2, Numbers DEF WorkerExits
      <3>3. answeredBy'[c] = answeredBy[c]
        BY <3>1, <3>2, NextCases, HostFrame, OtherFrame DEF vars, callVars
      <3> QED
        BY <2>1, <3>3
    <2> QED
      BY <2>2, <2>3, <2>4
  <1> QED
    BY <1>1, <1>2

-----------------------------------------------------------------------------
\* IInv is an inductive invariant: types, nesting and references of the requests, one
\* place for every callback in transit, one owner for every slot.
THEOREM Inductive == Spec => []IInv
  <1>1. IInv /\ [Next]_vars => IInv'
    BY NestedStep, MemoryStep, CallTypeStep, HostTypeStep, WireStep, LifeStep, ReferencedStep,
       TransitStep, EvidenceStep, OwnedStep, AnswerStep DEF IInv, TypeOK
  <1> QED
    BY <1>1, InitIInv, PTL DEF Spec

\* Type correctness; the references never go below zero.
THEOREM TypeCorrect == Spec => []TypeOK
  <1>1. IInv => TypeOK
    BY DEF IInv
  <1> QED
    BY <1>1, Inductive, PTL

\* The mapping is there whenever the interpreter touches it, however deep its requests
\* nest and whenever the session is closed.
THEOREM NeverUnmapped == Spec => []MappedWhileUsed
  <1>1. IInv => MappedWhileUsed
    <2> SUFFICES ASSUME IInv, hpc \in {"take", "scan", "unpark", "answer", "flag", "marker"}
                 PROVE  mapped
      BY DEF MappedWhileUsed
    <2>1. Top \in {r \in Requests : active[r]}
      BY TopOpen DEF IInv, Referenced
    <2>2. refs # 0
      BY <2>1, ActiveFinite, FS_EmptySet DEF IInv, Referenced
    <2> QED
      BY <2>2 DEF IInv, Referenced
  <1> QED
    BY <1>1, Inductive, PTL

\* A body runs at most once, and until the connection closes a callback returns the
\* answer of its own body.
THEOREM AnswersOwn == Spec => []OwnAnswerOnce
  <1>1. IInv => OwnAnswerOnce
    BY DEF IInv
  <1> QED
    BY <1>1, Inductive, PTL
=============================================================================
