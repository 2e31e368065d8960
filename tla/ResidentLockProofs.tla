-------------------------- MODULE ResidentLockProofs --------------------------
(***************************************************************************)
(* Proofs about ResidentLock, for any finite set of processes: the lock    *)
(* excludes, its counters are what they count through every withdrawal,    *)
(* and no wakeup of a queued writer is lost.                               *)
(***************************************************************************)
EXTENDS ResidentLock, FiniteSetTheorems, SequenceTheorems, TLAPS

-----------------------------------------------------------------------------
(* The queue.                                                              *)

\* An exclusive waiter appends its channel once.
LEMMA EnqueueEffect ==
    ASSUME TypeOK, Placed, Queued, NEW p \in Procs, pc[p] = "try", Enqueue(p)
    PROVE  /\ queue' \in Seq(Procs) /\ IsInjective(queue')
           /\ Range(queue') = Range(queue) \cup {p}
           /\ chan' = chan \cup {p} /\ p \notin Range(queue)
  <1>1. p \notin chan
    BY DEF Placed, Blocked
  <1>2. queue' = Append(queue, p) /\ p \notin Range(queue) /\ chan' = chan \cup {p}
    BY <1>1 DEF Enqueue, Queued
  <1>3. queue \in Seq(Procs)
    BY DEF TypeOK
  <1>4. /\ queue' \in Seq(Procs)
        /\ Len(queue') = Len(queue) + 1 /\ Len(queue) \in Nat
        /\ DOMAIN queue' = 1 .. Len(queue) + 1 /\ DOMAIN queue = 1 .. Len(queue)
        /\ \A i \in 1 .. Len(queue) : queue'[i] = queue[i]
        /\ queue'[Len(queue) + 1] = p
    BY <1>2, <1>3, AppendProperties, LenProperties
  <1>5. Range(queue') = Range(queue) \cup {p}
    <2>1. ASSUME NEW x \in Range(queue') PROVE x \in Range(queue) \cup {p}
      BY <1>4, <2>1 DEF Range
    <2>2. ASSUME NEW x \in Range(queue) PROVE x \in Range(queue')
      BY <1>4, <2>2 DEF Range
    <2>3. p \in Range(queue')
      <3>1. Len(queue) + 1 \in DOMAIN queue'
        BY <1>4
      <3> QED
        BY <1>4, <3>1 DEF Range
    <2> QED
      BY <2>1, <2>2, <2>3
  <1>6. IsInjective(queue')
    BY <1>2, <1>4 DEF IsInjective, Range, Queued
  <1> QED
    BY <1>2, <1>4, <1>5, <1>6

\* wakeOne releases exactly one queued waiter, if there is one.
LEMMA WakeOneEffect ==
    ASSUME TypeOK, Queued, NEW told, WakeOne(told)
    PROVE  /\ queue' \in Seq(Procs) /\ IsInjective(queue')
           /\ \/ queue = << >> /\ queue' = << >> /\ signaled' = signaled \cup told
              \/ \E h \in Range(queue) :
                    /\ Range(queue') = Range(queue) \ {h}
                    /\ signaled' = signaled \cup told \cup {h}
  <1>1. CASE queue = << >>
    BY <1>1 DEF WakeOne, TypeOK, Queued
  <1>2. CASE queue # << >>
    <2>1. queue' = Tail(queue) /\ signaled' = signaled \cup told \cup {Head(queue)}
      BY <1>2 DEF WakeOne
    <2>2. queue \in Seq(Procs)
      BY DEF TypeOK
    <2>3. /\ Len(queue) \in Nat \ {0} /\ DOMAIN queue = 1 .. Len(queue)
          /\ queue' \in Seq(Procs) /\ DOMAIN queue' = 1 .. Len(queue) - 1
          /\ \A i \in 1 .. Len(queue) - 1 : queue'[i] = queue[i + 1]
          /\ Head(queue) = queue[1]
      BY <1>2, <2>1, <2>2, EmptySeq, LenProperties, HeadTailProperties
    <2>4. IsInjective(queue')
      BY <2>3 DEF IsInjective, Queued
    <2>5. Head(queue) \in Range(queue)
      BY <2>3 DEF Range
    <2>6. Range(queue') = Range(queue) \ {Head(queue)}
      <3>1. ASSUME NEW x \in Range(queue') PROVE x \in Range(queue) \ {Head(queue)}
        <4>1. PICK i \in 1 .. Len(queue) - 1 : x = queue[i + 1]
          BY <2>3, <3>1 DEF Range
        <4>2. i + 1 \in DOMAIN queue /\ 1 \in DOMAIN queue /\ i + 1 # 1
          BY <2>3
        <4> QED
          BY <2>3, <4>1, <4>2 DEF Range, Queued, IsInjective
      <3>2. ASSUME NEW x \in Range(queue) \ {Head(queue)} PROVE x \in Range(queue')
        <4>1. PICK i \in 1 .. Len(queue) : x = queue[i] /\ i # 1
          BY <2>3, <3>2 DEF Range
        <4>2. i - 1 \in DOMAIN queue' /\ queue'[i - 1] = x
          BY <2>3, <4>1
        <4> QED
          BY <4>2 DEF Range
      <3> QED
        BY <3>1, <3>2
    <2> QED
      BY <2>1, <2>3, <2>4, <2>5, <2>6
  <1> QED
    BY <1>1, <1>2

\* A withdrawn waiter leaves its place, and only its place.
LEMMA RemoveEffect ==
    ASSUME TypeOK, Queued, NEW i \in DOMAIN queue, queue' = RemoveAt(queue, i)
    PROVE  /\ queue' \in Seq(Procs) /\ IsInjective(queue')
           /\ Range(queue') = Range(queue) \ {queue[i]}
  <1> DEFINE n == Len(queue)
             a == SubSeq(queue, 1, i - 1)
             b == SubSeq(queue, i + 1, n)
  <1>1. /\ queue \in Seq(Procs) /\ n \in Nat /\ DOMAIN queue = 1 .. n /\ i \in 1 .. n
        /\ \A j \in 1 .. n : queue[j] \in Procs
    BY LenProperties, ElementOfSeq DEF TypeOK
  <1>2. /\ a \in Seq(Procs) /\ Len(a) = i - 1
        /\ \A j \in 1 .. i - 1 : a[j] = queue[j]
    <2>1. \A j \in 1 .. i - 1 : queue[j] \in Procs
      BY <1>1
    <2>2. /\ a \in Seq(Procs) /\ Len(a) = IF 1 <= i - 1 THEN i - 1 - 1 + 1 ELSE 0
          /\ \A j \in 1 .. i - 1 - 1 + 1 : a[j] = queue[1 + j - 1]
      BY <1>1, <2>1, SubSeqProperties
    <2> QED
      BY <1>1, <2>2
  <1>3. /\ b \in Seq(Procs) /\ Len(b) = n - i
        /\ \A j \in 1 .. n - i : b[j] = queue[i + j]
    <2>1. \A j \in i + 1 .. n : queue[j] \in Procs
      BY <1>1
    <2>2. /\ b \in Seq(Procs) /\ Len(b) = IF i + 1 <= n THEN n - (i + 1) + 1 ELSE 0
          /\ \A j \in 1 .. n - (i + 1) + 1 : b[j] = queue[(i + 1) + j - 1]
      BY <1>1, <2>1, SubSeqProperties
    <2>3. n - (i + 1) + 1 = n - i /\ \A j \in 1 .. n - i : (i + 1) + j - 1 = i + j
      BY <1>1
    <2> HIDE DEF b
    <2> QED
      BY <1>1, <2>2, <2>3
  <1>4. queue' = a \o b
    BY DEF RemoveAt
  <1> HIDE DEF a, b
  <1>5. /\ queue' \in Seq(Procs) /\ Len(queue') = (i - 1) + (n - i)
        /\ \A j \in 1 .. (i - 1) + (n - i) :
              queue'[j] = IF j <= i - 1 THEN a[j] ELSE b[j - (i - 1)]
    BY <1>2, <1>3, <1>4, ConcatProperties
  <1>6. /\ DOMAIN queue' = 1 .. n - 1
        /\ \A j \in 1 .. n - 1 : queue'[j] = IF j < i THEN queue[j] ELSE queue[j + 1]
    <2>1. DOMAIN queue' = 1 .. n - 1
      BY <1>1, <1>5, LenProperties
    <2>2. ASSUME NEW j \in 1 .. n - 1 PROVE queue'[j] = IF j < i THEN queue[j] ELSE queue[j + 1]
      <3>1. CASE j < i
        BY <1>1, <1>2, <1>5, <3>1
      <3>2. CASE ~(j < i)
        <4>1. queue'[j] = b[j - (i - 1)] /\ j - (i - 1) \in 1 .. n - i
          BY <1>1, <1>5, <3>2
        <4>2. b[j - (i - 1)] = queue[i + (j - (i - 1))]
          BY <1>3, <4>1
        <4>3. i + (j - (i - 1)) = j + 1
          BY <1>1
        <4> QED
          BY <3>2, <4>1, <4>2, <4>3
      <3> QED
        BY <3>1, <3>2
    <2> QED
      BY <2>1, <2>2
  <1>7. IsInjective(queue')
    <2> SUFFICES ASSUME NEW j \in 1 .. n - 1, NEW k \in 1 .. n - 1, queue'[j] = queue'[k]
                 PROVE  j = k
      BY <1>6 DEF IsInjective
    <2>1. \A c, d \in 1 .. n : queue[c] = queue[d] => c = d
      BY <1>1 DEF Queued, IsInjective
    <2>2. queue'[j] = (IF j < i THEN queue[j] ELSE queue[j + 1])
      BY <1>6
    <2>3. queue'[k] = (IF k < i THEN queue[k] ELSE queue[k + 1])
      BY <1>6
    <2>4. j \in 1 .. n /\ k \in 1 .. n /\ j + 1 \in 1 .. n /\ k + 1 \in 1 .. n
      BY <1>1
    <2>5. CASE j < i /\ k < i
      BY <2>1, <2>2, <2>3, <2>4, <2>5
    <2>6. CASE j < i /\ ~(k < i)
      <3>1. j = k + 1
        BY <2>1, <2>2, <2>3, <2>4, <2>6
      <3> QED
        BY <1>1, <2>6, <3>1
    <2>7. CASE ~(j < i) /\ k < i
      <3>1. j + 1 = k
        BY <2>1, <2>2, <2>3, <2>4, <2>7
      <3> QED
        BY <1>1, <2>7, <3>1
    <2>8. CASE ~(j < i) /\ ~(k < i)
      <3>1. j + 1 = k + 1
        BY <2>1, <2>2, <2>3, <2>4, <2>8
      <3> QED
        BY <3>1
    <2> QED
      BY <2>5, <2>6, <2>7, <2>8
  <1>8. Range(queue') = Range(queue) \ {queue[i]}
    <2>1. ASSUME NEW x \in Range(queue') PROVE x \in Range(queue) \ {queue[i]}
      <3>1. PICK j \in 1 .. n - 1 : x = queue'[j]
        BY <1>6, <2>1 DEF Range
      <3>2. PICK k \in 1 .. n : x = queue[k] /\ k # i
        <4>1. CASE j < i
          BY <1>1, <1>6, <3>1, <4>1
        <4>2. CASE ~(j < i)
          <5>1. x = queue[j + 1] /\ j + 1 \in 1 .. n /\ j + 1 # i
            BY <1>1, <1>6, <3>1, <4>2
          <5> QED
            BY <5>1
        <4> QED
          BY <4>1, <4>2
      <3> QED
        BY <1>1, <3>2 DEF Range, Queued, IsInjective
    <2>2. ASSUME NEW x \in Range(queue) \ {queue[i]} PROVE x \in Range(queue')
      <3>1. PICK k \in 1 .. n : x = queue[k] /\ k # i
        BY <1>1, <2>2 DEF Range
      <3>2. CASE k < i
        <4>1. k \in 1 .. n - 1 /\ queue'[k] = x
          BY <1>1, <1>6, <3>1, <3>2
        <4> QED
          BY <1>6, <4>1 DEF Range
      <3>3. CASE ~(k < i)
        <4>1. k - 1 \in 1 .. n - 1 /\ ~(k - 1 < i) /\ (k - 1) + 1 = k
          BY <1>1, <3>1, <3>3
        <4>2. queue'[k - 1] = x
          BY <1>6, <3>1, <4>1
        <4> QED
          BY <1>6, <4>1, <4>2 DEF Range
      <3> QED
        BY <3>2, <3>3
    <2> QED
      BY <2>1, <2>2
  <1> QED
    BY <1>5, <1>7, <1>8
-----------------------------------------------------------------------------
(* The counters.                                                           *)

\* The sets that the counters count are finite.
LEMMA Counted ==
    ASSUME TypeOK
    PROVE  /\ IsFiniteSet(pending) /\ IsFiniteSet(waiting) /\ IsFiniteSet(granted)
           /\ IsFiniteSet(waiting \ granted)
           /\ Cardinality(pending) \in Nat /\ Cardinality(granted) \in Nat
           /\ Cardinality(waiting \ granted) \in Nat
  <1>1. IsFiniteSet(pending) /\ IsFiniteSet(waiting)
    BY LockAssumption, FS_Subset DEF TypeOK
  <1>2. IsFiniteSet(granted) /\ IsFiniteSet(waiting \ granted)
    BY <1>1, FS_Subset DEF TypeOK
  <1> QED
    BY <1>1, <1>2, FS_CardinalityType

\* A counter is at zero exactly when its set is empty.
LEMMA NoneGranted ==
    ASSUME TypeOK, CountersExact
    PROVE  rgranted = 0 <=> granted = {}
  BY Counted, FS_EmptySet DEF CountersExact

\* Taking an element out lowers a count that is not zero, putting one in raises it.
LEMMA CountOne ==
    ASSUME NEW S, IsFiniteSet(S), NEW x
    PROVE  /\ x \in S => /\ Cardinality(S \ {x}) = Cardinality(S) - 1
                         /\ Cardinality(S) - 1 \in Nat
           /\ x \notin S => Cardinality(S \cup {x}) = Cardinality(S) + 1
  <1>1. ASSUME x \in S
        PROVE  Cardinality(S \ {x}) = Cardinality(S) - 1 /\ Cardinality(S) - 1 \in Nat
    <2>1. IsFiniteSet(S \ {x}) /\ Cardinality(S \ {x}) = Cardinality(S) - 1
      BY <1>1, FS_RemoveElement
    <2> QED
      BY <2>1, FS_CardinalityType
  <1>2. ASSUME x \notin S PROVE Cardinality(S \cup {x}) = Cardinality(S) + 1
    BY <1>2, FS_AddElement
  <1> QED
    BY <1>1, <1>2

-----------------------------------------------------------------------------
(* The steps.                                                              *)

\* A new Mutex or RWMutex satisfies the invariant.
LEMMA InitIInv == Init => IInv
  <1> SUFFICES ASSUME Init PROVE IInv
    OBVIOUS
  <1>1. TypeOK
    <2>1. cancelled \in BOOLEAN /\ locked \in BOOLEAN /\ rw \in BOOLEAN
      BY Zenon DEF Init
    <2>2. queue \in Seq(Procs)
      BY EmptySeq DEF Init
    <2>3. /\ pc \in [Procs -> {"idle", "try", "arm", "wait", "leave"}]
          /\ op \in [Procs -> {"none", "Lock", "RLock"}]
      BY DEF Init
    <2> QED
      BY <2>1, <2>2, <2>3 DEF Init, TypeOK
  <1>2. Placed /\ Queued /\ Registered /\ Exclusive /\ NoLostWriter
    <2>1. DOMAIN queue = {} /\ Range(queue) = {}
      BY DEF Init, Range
    <2> QED
      BY <2>1 DEF Init, Placed, Queued, Registered, Exclusive, NoLostWriter, Blocked, IsInjective
  <1>3. CountersExact
    BY FS_EmptySet DEF Init, CountersExact
  <1> QED
    BY <1>1, <1>2, <1>3 DEF IInv

\* Entering Lock or RLock: the process has left no wakeup behind.
LEMMA StartIInv ==
    ASSUME IInv, NEW p \in Procs, NEW kind \in {"Lock", "RLock"}, Start(p, kind)
    PROVE  IInv'
  <1> USE DEF IInv, Start, At, lockVars
  <1>1. TypeOK'
    BY DEF TypeOK
  <1>2. Placed'
    BY DEF Placed, Blocked, TypeOK
  <1>3. op[p] = "none" /\ p \notin Range(queue)
    BY DEF Placed, Queued
  <1>4. Queued'
    BY <1>3 DEF Queued, TypeOK
  <1>5. Registered'
    BY <1>3 DEF Registered, Blocked, TypeOK
  <1>6. CountersExact' /\ Exclusive'
    BY DEF CountersExact, Exclusive
  <1>7. NoLostWriter'
    BY <1>3 DEF NoLostWriter, OnItsWay, WriterFree, TypeOK
  <1> QED
    BY <1>1, <1>2, <1>4, <1>5, <1>6, <1>7

\* Lock takes the lock, or queues behind whoever holds it.
LEMMA TryAcquireIInv ==
    ASSUME IInv, NEW p \in Procs, TryAcquire(p)
    PROVE  IInv'
  <1>1. CASE WriterFree
    <2> USE <1>1 DEF IInv, TryAcquire, Acquired
    <2>1. TypeOK' /\ CountersExact'
      <3>1. wpending' = Cardinality(pending') /\ wpending' \in Nat
        <4>1. CASE p \in pending
          BY <4>1, Counted, CountOne DEF CountersExact
        <4>2. CASE p \notin pending
          <5>1. pending' = pending /\ wpending' = wpending
            BY <4>2
          <5> QED
            BY <5>1 DEF CountersExact, TypeOK
        <4> QED
          BY <4>1, <4>2
      <3> QED
        BY <3>1 DEF TypeOK, CountersExact
    <2>2. Placed'
      BY DEF Placed, Blocked, TypeOK
    <2>3. p \notin Range(queue)
      BY DEF Placed, Queued, Blocked
    <2>4. Queued' /\ Registered'
      BY <2>3 DEF Queued, Registered, Blocked, TypeOK
    <2>5. granted = {} /\ readers = 0
      BY NoneGranted DEF WriterFree
    <2>6. Exclusive' /\ NoLostWriter'
      BY <2>5 DEF Exclusive, NoLostWriter, WriterFree
    <2> QED
      BY <2>1, <2>2, <2>4, <2>6
  <1>2. CASE ~WriterFree
    <2> USE <1>2 DEF IInv, TryAcquire
    <2>1. /\ queue' \in Seq(Procs) /\ IsInjective(queue')
          /\ Range(queue') = Range(queue) \cup {p}
          /\ chan' = chan \cup {p}
      BY EnqueueEffect
    <2>2. TypeOK' /\ CountersExact'
      <3>1. wpending' = Cardinality(pending') /\ wpending' \in Nat
        <4>1. CASE rw /\ p \notin pending
          BY <4>1, Counted, CountOne DEF CountersExact
        <4>2. CASE ~(rw /\ p \notin pending)
          <5>1. pending' = pending /\ wpending' = wpending
            BY <4>2
          <5> QED
            BY <5>1 DEF CountersExact, TypeOK
        <4> QED
          BY <4>1, <4>2
      <3> QED
        BY <2>1, <3>1 DEF TypeOK, CountersExact
    <2>3. Placed'
      BY <2>1 DEF Placed, Blocked, TypeOK
    <2>4. Queued'
      BY <2>1 DEF Queued, Placed
    <2>5. Registered'
      BY DEF Registered, Blocked, TypeOK
    <2>6. Exclusive' /\ NoLostWriter'
      BY DEF Exclusive, NoLostWriter, WriterFree
    <2> QED
      BY <2>1, <2>2, <2>3, <2>4, <2>5, <2>6
  <1> QED
    BY <1>1, <1>2

\* RLock takes a read lock and gives its registration back, or registers.
LEMMA TryRAcquireIInv ==
    ASSUME IInv, NEW p \in Procs, TryRAcquire(p)
    PROVE  IInv'
  <1>0. p \notin Range(queue)
    BY DEF IInv, TryRAcquire, Queued
  <1>1. CASE ReaderFree(p)
    <2> USE <1>1 DEF IInv, TryRAcquire, Acquired
    <2>1. /\ rgranted' = Cardinality(granted') /\ rgranted' \in Nat
          /\ rwaiting' = Cardinality(waiting' \ granted') /\ rwaiting' \in Nat
      <3>1. CASE p \in granted
        <4>1. waiting' \ granted' = waiting \ granted /\ rwaiting' = rwaiting
          BY <3>1
        <4>2. granted' = granted \ {p} /\ rgranted' = rgranted - 1
          BY <3>1
        <4>3. Cardinality(granted \ {p}) = Cardinality(granted) - 1 /\ Cardinality(granted) - 1 \in Nat
          BY <3>1, Counted, CountOne
        <4> QED
          BY <4>1, <4>2, <4>3, Counted DEF CountersExact
      <3>2. CASE p \in waiting \ granted
        <4>1. waiting' \ granted' = (waiting \ granted) \ {p} /\ granted' = granted
          BY <3>2
        <4> QED
          BY <3>2, <4>1, Counted, CountOne DEF CountersExact
      <3>3. CASE p \notin waiting
        <4>0. p \notin granted
          BY <3>3 DEF TypeOK
        <4>1. waiting' = waiting /\ granted' = granted
          BY <3>3, <4>0
        <4>2. rgranted' = rgranted /\ rwaiting' = rwaiting
          BY <3>3 DEF TypeOK
        <4> QED
          BY <4>1, <4>2, Counted DEF CountersExact
      <3> QED
        BY <3>1, <3>2, <3>3
    <2>2. TypeOK' /\ CountersExact'
      BY <2>1 DEF TypeOK, CountersExact
    <2>3. Placed' /\ Queued'
      BY <1>0 DEF Placed, Blocked, TypeOK, Queued
    <2>4. Registered'
      <3>0. p \notin pending /\ pending \subseteq Procs
        BY DEF Registered, TypeOK
      <3>1. \A q \in pending' : op'[q] = "Lock"
        BY <3>0 DEF Registered, TypeOK
      <3>2. ASSUME NEW q \in waiting' PROVE op'[q] = "RLock"
        <4>1. q \in waiting /\ q # p /\ q \in Procs
          BY DEF TypeOK
        <4> QED
          BY <4>1 DEF Registered, TypeOK
      <3>3. Blocked' = Blocked /\ p \notin Blocked
        BY DEF Blocked, TypeOK
      <3>4. ASSUME NEW q \in Blocked', op'[q] = "RLock" PROVE q \in waiting'
        <4>1. q \in Procs /\ q # p /\ q \in Blocked /\ op[q] = "RLock"
          BY <3>3, <3>4 DEF Blocked, TypeOK
        <4> QED
          BY <4>1 DEF Registered
      <3> QED
        BY <3>1, <3>2, <3>4 DEF Registered
    <2>5. Exclusive' /\ NoLostWriter'
      BY DEF Exclusive, NoLostWriter, WriterFree, ReaderFree, TypeOK
    <2> QED
      BY <2>2, <2>3, <2>4, <2>5
  <1>2. CASE ~ReaderFree(p)
    <2> USE <1>2 DEF IInv, TryRAcquire
    <2>1. rwaiting' = Cardinality(waiting' \ granted') /\ rwaiting' \in Nat
      <3>1. CASE p \in waiting
        <4>1. waiting' = waiting
          BY <3>1
        <4> QED
          BY <3>1, <4>1 DEF CountersExact, TypeOK
      <3>2. CASE p \notin waiting
        <4>1. waiting' \ granted' = (waiting \ granted) \cup {p} /\ p \notin waiting \ granted
          BY <3>2 DEF TypeOK
        <4>2. Cardinality((waiting \ granted) \cup {p}) = Cardinality(waiting \ granted) + 1
          BY <4>1, Counted, CountOne
        <4> QED
          BY <3>2, <4>1, <4>2, Counted DEF CountersExact
      <3> QED
        BY <3>1, <3>2
    <2>2. TypeOK' /\ CountersExact'
      BY <2>1 DEF TypeOK, CountersExact
    <2>3. Placed' /\ Queued'
      BY <1>0 DEF Placed, Blocked, TypeOK, Queued
    <2>4. Registered'
      BY DEF Registered, Blocked, TypeOK
    <2>5. Exclusive' /\ NoLostWriter'
      BY DEF Exclusive, NoLostWriter, WriterFree, OnItsWay
    <2> QED
      BY <2>2, <2>3, <2>4, <2>5
  <1> QED
    BY <1>1, <1>2

\* Waiting and being woken move one process and leave the lock alone.
LEMMA WaitIInv ==
    ASSUME IInv, NEW p \in Procs, ArmBeforeBlock(p) \/ Woken(p) \/ Canceled(p)
    PROVE  IInv'
  <1> USE DEF IInv, ArmBeforeBlock, Woken, Canceled, At, lockVars
  <1>1. TypeOK'
    BY DEF TypeOK
  <1>2. Placed'
    BY DEF Placed, Blocked, TypeOK
  <1>3. Queued'
    BY DEF Queued
  <1>4. Registered'
    BY DEF Registered, Blocked, TypeOK
  <1>5. CountersExact' /\ Exclusive'
    BY DEF CountersExact, Exclusive
  <1>6. NoLostWriter'
    BY DEF NoLostWriter, OnItsWay, WriterFree
  <1> QED
    BY <1>1, <1>2, <1>3, <1>4, <1>5, <1>6
\* What the end of a critical section may do to the queue: nothing, the
\* withdrawal of p, or one wakeup.
QueueEffect(p, told) ==
    /\ queue' \in Seq(Procs) /\ IsInjective(queue')
    /\ \/ Range(queue') = Range(queue) \ {p} /\ signaled' = signaled \cup told
       \/ \E h \in Range(queue) :
             /\ Range(queue') = Range(queue) \ {h}
             /\ signaled' = signaled \cup told \cup {h}

\* A queued waiter that gives up withdraws, a woken one wakes the next; and when
\* it leaves others queued, it was queued itself or one of them is on its way.
LEMMA LeaveIInv ==
    ASSUME IInv, NEW p \in Procs, Leave(p)
    PROVE  IInv'
  <1> DEFINE told == IF p \in pending THEN Sleepers ELSE {}
  <1>1. \/ /\ p \in Range(queue)
           /\ queue' \in Seq(Procs) /\ IsInjective(queue')
           /\ Range(queue') = Range(queue) \ {p} /\ signaled' = signaled \cup told
        \/ /\ p \notin Range(queue)
           /\ queue' \in Seq(Procs) /\ IsInjective(queue')
           /\ \/ queue = << >> /\ queue' = << >> /\ signaled' = signaled \cup told
              \/ \E h \in Range(queue) :
                    /\ Range(queue') = Range(queue) \ {h}
                    /\ signaled' = signaled \cup told \cup {h}
    <2>1. CASE \E i \in DOMAIN queue : /\ queue[i] = p
                                       /\ queue' = RemoveAt(queue, i)
                                       /\ signaled' = signaled \cup told
      <3>1. PICK i \in DOMAIN queue : /\ queue[i] = p
                                      /\ queue' = RemoveAt(queue, i)
                                      /\ signaled' = signaled \cup told
        BY <2>1
      <3>2. p \in Range(queue)
        BY <3>1 DEF Range
      <3> QED
        BY <3>1, <3>2, RemoveEffect DEF IInv
    <2>2. CASE p \notin Range(queue) /\ WakeOne(told)
      BY <2>2, WakeOneEffect DEF IInv
    <2> QED
      BY <2>1, <2>2 DEF Leave, Abandon
  <1>2. told \subseteq {q \in Procs : op[q] = "RLock" /\ q \in Blocked}
    BY DEF Sleepers, IInv, Placed
  <1> HIDE DEF told
  <1> USE DEF IInv, Leave, Acquired
  <1>3. /\ QueueEffect(p, told)
        /\ Range(queue) \subseteq Procs /\ p \notin Range(queue')
    <2>1. Range(queue) \subseteq Procs
      BY LenProperties, ElementOfSeq DEF Range, TypeOK
    <2>2. CASE p \in Range(queue)
      BY <1>1, <2>1, <2>2 DEF QueueEffect
    <2>3. CASE p \notin Range(queue)
      <3>1. CASE queue = << >> /\ queue' = << >> /\ signaled' = signaled \cup told
        BY <1>1, <2>1, <2>3, <3>1 DEF QueueEffect
      <3>2. CASE \E h \in Range(queue) : /\ Range(queue') = Range(queue) \ {h}
                                         /\ signaled' = signaled \cup told \cup {h}
        BY <1>1, <2>1, <2>3, <3>2 DEF QueueEffect
      <3> QED
        BY <1>1, <2>3, <3>1, <3>2
    <2> QED
      BY <2>1, <2>2, <2>3
  <1>4. TypeOK' /\ CountersExact'
    <2>1. wpending' = Cardinality(pending') /\ wpending' \in Nat
      <3>1. CASE p \in pending
        BY <3>1, Counted, CountOne DEF CountersExact
      <3>2. CASE p \notin pending
        <4>1. pending' = pending /\ wpending' = wpending
          BY <3>2
        <4> QED
          BY <4>1 DEF CountersExact, TypeOK
      <3> QED
        BY <3>1, <3>2
    <2>2. signaled' \subseteq Procs /\ queue' \in Seq(Procs)
      BY <1>2, <1>3 DEF QueueEffect, TypeOK
    <2> QED
      BY <2>1, <2>2 DEF TypeOK, CountersExact
  <1>5. Placed'
    <2>1. cancelled /\ cancelled'
      BY DEF Placed
    <2>2. \A q \in Procs : pc'[q] = IF q = p THEN "idle" ELSE pc[q]
      BY DEF TypeOK
    <2>3. \A q \in signaled' : q \in signaled \/ q \in Blocked
      BY <1>2, <1>3 DEF QueueEffect, Queued, Placed
    <2>4. \A q \in signaled' : pc'[q] # "try"
      <3> SUFFICES ASSUME NEW q \in signaled' PROVE pc'[q] # "try"
        OBVIOUS
      <3>1. q \in Procs
        BY <2>3 DEF TypeOK, Blocked
      <3>2. pc[q] # "try"
        BY <2>3 DEF Placed, Blocked
      <3> QED
        BY <2>2, <3>1, <3>2
    <2>5. \A q \in Procs : op'[q] = "none" <=> pc'[q] = "idle"
      BY DEF Placed, TypeOK
    <2>6. chan' \subseteq Blocked'
      BY <2>2 DEF Placed, Blocked, TypeOK
    <2> QED
      BY <2>1, <2>4, <2>5, <2>6 DEF Placed
  <1>6. Queued'
    <2>1. \A q \in Range(queue') : q \in Range(queue) /\ q # p /\ q \in Procs
      BY <1>3 DEF QueueEffect
    <2>2. \A q \in Range(queue') : q \notin signaled'
      <3> SUFFICES ASSUME NEW q \in Range(queue'), q \in signaled' PROVE FALSE
        OBVIOUS
      <3>1. q \notin signaled /\ q \notin told
        BY <1>2, <2>1 DEF Queued
      <3> QED
        BY <1>3, <3>1 DEF QueueEffect
    <2>3. \A q \in Range(queue') : op'[q] = "Lock" /\ q \in chan'
      BY <2>1 DEF Queued, TypeOK
    <2> QED
      BY <1>3, <2>2, <2>3 DEF Queued, QueueEffect
  <1>7. Registered'
    <2>1. ASSUME NEW q \in pending' PROVE op'[q] = "Lock"
      <3>1. q \in pending /\ q # p /\ q \in Procs
        BY DEF TypeOK
      <3> QED
        BY <3>1 DEF Registered, TypeOK
    <2>2. ASSUME NEW q \in waiting' PROVE op'[q] = "RLock"
      <3>1. q \in waiting /\ q # p /\ q \in Procs
        BY DEF TypeOK, Registered
      <3> QED
        BY <3>1 DEF Registered, TypeOK
    <2>3. ASSUME NEW q \in Blocked', op'[q] = "RLock" PROVE q \in waiting'
      <3>1. q \in Procs /\ q # p /\ q \in Blocked /\ op[q] = "RLock"
        BY <2>3 DEF Blocked, TypeOK
      <3> QED
        BY <3>1 DEF Registered
    <2> QED
      BY <2>1, <2>2, <2>3 DEF Registered
  <1>8. Exclusive'
    BY DEF Exclusive
  <1>9. NoLostWriter'
    <2> SUFFICES ASSUME WriterFree', queue' # << >> PROVE \E q \in Procs : OnItsWay(q)'
      BY DEF NoLostWriter
    <2>1. WriterFree
      BY DEF WriterFree
    <2>2. CASE p \in Range(queue)
      <3>1. queue # << >>
        BY <2>2 DEF Range
      <3>2. PICK q \in Procs : op[q] = "Lock" /\ q \notin Range(queue)
        BY <2>1, <3>1 DEF NoLostWriter, OnItsWay
      <3>3. op'[q] = "Lock" /\ q \notin Range(queue')
        BY <1>3, <2>2, <3>2 DEF QueueEffect, TypeOK
      <3> QED
        BY <3>3 DEF OnItsWay
    <2>3. CASE p \notin Range(queue)
      <3>1. PICK h \in Range(queue) : Range(queue') = Range(queue) \ {h}
        BY <1>1, <2>3
      <3>2. h \in Procs /\ op'[h] = "Lock" /\ h \notin Range(queue')
        BY <1>3, <2>3, <3>1 DEF Queued, TypeOK
      <3> QED
        BY <3>2 DEF OnItsWay
    <2> QED
      BY <2>2, <2>3
  <1> QED
    BY <1>4, <1>5, <1>6, <1>7, <1>8, <1>9
\* The queue after a critical section of a process that is not in it; when a
\* wakeup was due and others stay queued, the woken one is on its way.
LEMMA WakeEffect ==
    ASSUME TypeOK, Queued, NEW told, WakeOne(told) \/ WakeNobody(told)
    PROVE  /\ queue' \in Seq(Procs) /\ IsInjective(queue')
           /\ Range(queue) \subseteq Procs /\ Range(queue') \subseteq Range(queue)
           /\ signaled' \subseteq signaled \cup told \cup Range(queue)
           /\ \A q \in Range(queue') : q \in signaled' => q \in told
           /\ WakeOne(told) /\ queue' # << >> => \E h \in Range(queue) : h \notin Range(queue')
  <1>1. Range(queue) \subseteq Procs
    BY LenProperties, ElementOfSeq DEF Range, TypeOK
  <1>2. CASE WakeNobody(told)
    <2>1. queue' = queue /\ signaled' = signaled \cup told
      BY <1>2 DEF WakeNobody
    <2>2. ~WakeOne(told) \/ queue' = << >>
      <3> SUFFICES ASSUME WakeOne(told), queue # << >> PROVE FALSE
        BY <2>1
      <3>1. \E h \in Range(queue) : Range(queue') = Range(queue) \ {h}
        BY WakeOneEffect
      <3> QED
        BY <2>1, <3>1
    <2> QED
      BY <1>1, <2>1, <2>2 DEF Queued, TypeOK
  <1>3. CASE WakeOne(told)
    <2>1. CASE queue = << >>
      <3>1. Range(queue) = {} /\ Range(queue') = {} /\ queue' = << >>
        BY <1>3, <2>1 DEF WakeOne, Range
      <3> QED
        BY <1>3, <2>1, <3>1, WakeOneEffect
    <2>2. CASE queue # << >>
      <3>1. PICK h \in Range(queue) : /\ Range(queue') = Range(queue) \ {h}
                                      /\ signaled' = signaled \cup told \cup {h}
        BY <1>3, <2>2, WakeOneEffect
      <3> QED
        BY <1>1, <1>3, <3>1, WakeOneEffect DEF Queued
    <2> QED
      BY <2>1, <2>2
  <1> QED
    BY <1>2, <1>3

\* A reader that gives up returns its grant, and wakes the writer it kept out.
LEMMA RLeaveIInv ==
    ASSUME IInv, NEW p \in Procs, RLeave(p)
    PROVE  IInv'
  <1> USE DEF IInv, RLeave, Acquired
  <1>0. /\ p \in waiting /\ p \notin Range(queue) /\ cancelled
        /\ p \notin pending
    BY DEF Registered, Queued, Blocked, Placed
  <1>1. WakeOne({}) \/ WakeNobody({})
    OBVIOUS
  <1>2. /\ queue' \in Seq(Procs) /\ IsInjective(queue')
        /\ Range(queue) \subseteq Procs /\ Range(queue') \subseteq Range(queue)
        /\ signaled' \subseteq signaled \cup Range(queue)
        /\ \A q \in Range(queue') : q \notin signaled'
        /\ WakeOne({}) /\ queue' # << >> => \E h \in Range(queue) : h \notin Range(queue')
    BY <1>1, WakeEffect
  <1>3. /\ rgranted' = Cardinality(granted') /\ rgranted' \in Nat
        /\ rwaiting' = Cardinality(waiting' \ granted') /\ rwaiting' \in Nat
    <2>1. CASE p \in granted
      <3>1. waiting' \ granted' = waiting \ granted /\ rwaiting' = rwaiting
        BY <2>1
      <3>2. granted' = granted \ {p} /\ rgranted' = rgranted - 1
        BY <2>1
      <3>3. Cardinality(granted \ {p}) = Cardinality(granted) - 1 /\ Cardinality(granted) - 1 \in Nat
        BY <2>1, Counted, CountOne
      <3> QED
        BY <3>1, <3>2, <3>3, Counted DEF CountersExact
    <2>2. CASE p \notin granted
      <3>1. waiting' \ granted' = (waiting \ granted) \ {p} /\ granted' = granted
        BY <2>2
      <3> QED
        BY <1>0, <2>2, <3>1, Counted, CountOne DEF CountersExact
    <2> QED
      BY <2>1, <2>2
  <1>4. TypeOK' /\ CountersExact'
    BY <1>2, <1>3 DEF TypeOK, CountersExact
  <1>5. Placed'
    <2>1. \A q \in Procs : pc'[q] = IF q = p THEN "idle" ELSE pc[q]
      BY DEF TypeOK
    <2>2. \A q \in signaled' : q \in Procs /\ pc[q] # "try"
      BY <1>2 DEF Queued, Placed, Blocked, TypeOK
    <2>3. \A q \in signaled' : pc'[q] # "try"
      BY <2>1, <2>2
    <2>4. \A q \in Procs : op'[q] = "none" <=> pc'[q] = "idle"
      BY DEF Placed, TypeOK
    <2>5. chan' \subseteq Blocked'
      BY <2>1 DEF Placed, Blocked, TypeOK
    <2> QED
      BY <1>0, <2>3, <2>4, <2>5 DEF Placed
  <1>6. Queued'
    <2>1. \A q \in Range(queue') : q \in Range(queue) /\ q # p /\ q \in Procs
      BY <1>0, <1>2
    <2>2. \A q \in Range(queue') : op'[q] = "Lock" /\ q \in chan'
      BY <2>1 DEF Queued, TypeOK
    <2> QED
      BY <1>2, <2>2 DEF Queued
  <1>7. Registered'
    <2>1. ASSUME NEW q \in pending' PROVE op'[q] = "Lock"
      <3>1. q \in pending /\ q # p /\ q \in Procs
        BY <1>0 DEF TypeOK
      <3> QED
        BY <3>1 DEF Registered, TypeOK
    <2>2. ASSUME NEW q \in waiting' PROVE op'[q] = "RLock"
      <3>1. q \in waiting /\ q # p /\ q \in Procs
        BY DEF TypeOK
      <3> QED
        BY <3>1 DEF Registered, TypeOK
    <2>3. ASSUME NEW q \in Blocked', op'[q] = "RLock" PROVE q \in waiting'
      <3>1. q \in Procs /\ q # p /\ q \in Blocked /\ op[q] = "RLock"
        BY <2>3 DEF Blocked, TypeOK
      <3> QED
        BY <3>1 DEF Registered
    <2> QED
      BY <2>1, <2>2, <2>3 DEF Registered
  <1>8. Exclusive'
    BY DEF Exclusive
  <1>9. NoLostWriter'
    <2> SUFFICES ASSUME WriterFree', queue' # << >> PROVE \E q \in Procs : OnItsWay(q)'
      BY DEF NoLostWriter
    <2>1. CASE WakeOne({})
      <3>1. PICK h \in Range(queue) : h \notin Range(queue')
        BY <1>2, <2>1
      <3>2. h \in Procs /\ op'[h] = "Lock"
        BY <1>0, <1>2 DEF Queued, TypeOK
      <3> QED
        BY <3>1, <3>2 DEF OnItsWay
    <2>2. CASE ~WakeOne({})
      <3>1. WakeNobody({}) /\ p \notin granted
        BY <1>1, <2>2 DEF WriterFree
      <3>2. WriterFree /\ queue' = queue
        BY <3>1 DEF WriterFree, WakeNobody
      <3>3. PICK q \in Procs : op[q] = "Lock" /\ q \notin Range(queue)
        BY <3>2 DEF NoLostWriter, OnItsWay
      <3>4. op'[q] = "Lock"
        BY <3>3 DEF TypeOK
      <3> QED
        BY <3>2, <3>3, <3>4 DEF OnItsWay
    <2> QED
      BY <2>1, <2>2
  <1> QED
    BY <1>4, <1>5, <1>6, <1>7, <1>8, <1>9

\* Unlock admits the waiting readers, or wakes the next writer; the last reader
\* wakes it otherwise.
LEMMA UnlockIInv ==
    ASSUME IInv, NEW p \in Procs, Unlock(p) \/ RUnlock(p)
    PROVE  IInv'
  <1>1. PICK told : /\ WakeOne(told) \/ WakeNobody(told)
                    /\ told \subseteq Sleepers
                    /\ WriterFree' => WakeOne(told)
    <2>1. CASE Unlock(p)
      <3>1. CASE rwaiting = 0
        BY <2>1, <3>1 DEF Unlock
      <3>2. CASE rwaiting # 0
        <4>1. ~WriterFree'
          BY <2>1, <3>2 DEF Unlock, WriterFree, IInv, TypeOK
        <4> QED
          BY <2>1, <3>2, <4>1 DEF Unlock
      <3> QED
        BY <3>1, <3>2
    <2>2. CASE RUnlock(p)
      BY <2>2 DEF RUnlock, WriterFree
    <2> QED
      BY <2>1, <2>2
  <1> USE DEF IInv
  <1>2. told \subseteq {q \in Procs : op[q] = "RLock" /\ q \in Blocked}
    BY <1>1 DEF Sleepers, Placed
  <1>3. /\ queue' \in Seq(Procs) /\ IsInjective(queue')
        /\ Range(queue) \subseteq Procs /\ Range(queue') \subseteq Range(queue)
        /\ signaled' \subseteq signaled \cup told \cup Range(queue)
        /\ \A q \in Range(queue') : q \in signaled' => q \in told
        /\ WakeOne(told) /\ queue' # << >> => \E h \in Range(queue) : h \notin Range(queue')
    BY <1>1, WakeEffect
  <1>4. UNCHANGED <<rw, wpending, cancelled, pc, op, chan, pending, waiting>>
    BY DEF Unlock, RUnlock
  <1>5. /\ granted' \subseteq waiting' /\ rgranted' = Cardinality(granted')
        /\ rwaiting' = Cardinality(waiting' \ granted')
        /\ locked' \in BOOLEAN /\ readers' \in Nat
        /\ Exclusive'
    <2>1. CASE Unlock(p)
      <3>1. granted = {} /\ rgranted = 0
        BY <2>1, NoneGranted DEF Unlock, Exclusive
      <3>2. waiting \ granted = waiting /\ waiting' \ granted' = {}
        BY <2>1, <3>1 DEF Unlock
      <3>3. rgranted' = Cardinality(waiting) /\ rwaiting' = 0
        BY <2>1, <3>1, <3>2, Counted DEF Unlock, CountersExact
      <3> QED
        BY <2>1, <3>2, <3>3, FS_EmptySet DEF Unlock, TypeOK, Exclusive
    <2>2. CASE RUnlock(p)
      BY <2>2 DEF RUnlock, TypeOK, Exclusive, CountersExact
    <2> QED
      BY <2>1, <2>2
  <1>6. signaled' \subseteq Procs
    BY <1>2, <1>3 DEF TypeOK
  <1>7. rgranted' \in Nat /\ rwaiting' \in Nat
    <2>1. IsFiniteSet(granted') /\ IsFiniteSet(waiting' \ granted')
      BY <1>4, <1>5, Counted, FS_Subset
    <2> QED
      BY <1>5, <2>1, FS_CardinalityType
  <1>8. TypeOK' /\ CountersExact'
    BY <1>3, <1>4, <1>5, <1>6, <1>7 DEF TypeOK, CountersExact
  <1>9. Placed'
    <2>1. \A q \in signaled' : q \in signaled \/ q \in Blocked
      BY <1>2, <1>3 DEF Queued, Placed
    <2>2. \A q \in signaled' : pc[q] # "try"
      BY <2>1 DEF Placed, Blocked
    <2> QED
      BY <1>4, <2>1, <2>2 DEF Placed, Blocked
  <1>10. Queued'
    <2>1. \A q \in Range(queue') : q \notin told
      BY <1>2, <1>3 DEF Queued
    <2> QED
      BY <1>3, <1>4, <2>1 DEF Queued
  <1>11. Registered'
    BY <1>4 DEF Registered, Blocked
  <1>12. NoLostWriter'
    <2> SUFFICES ASSUME WriterFree', queue' # << >> PROVE \E q \in Procs : OnItsWay(q)'
      BY DEF NoLostWriter
    <2>1. PICK h \in Range(queue) : h \notin Range(queue')
      BY <1>1, <1>3
    <2>2. h \in Procs /\ op'[h] = "Lock"
      BY <1>3, <1>4 DEF Queued
    <2> QED
      BY <2>1, <2>2 DEF OnItsWay
  <1> QED
    BY <1>5, <1>8, <1>9, <1>10, <1>11, <1>12

\* TryLock takes a lock that nobody holds, TryRLock one that no writer wants.
LEMMA TryIInv ==
    ASSUME IInv, NEW p \in Procs, TryLock(p) \/ TryRLock(p)
    PROVE  IInv'
  <1> USE DEF IInv, TryLock, TryRLock
  <1>1. TypeOK' /\ CountersExact'
    <2>1. locked' \in BOOLEAN
      BY DEF TypeOK
    <2>2. readers' \in Nat
      BY DEF TypeOK
    <2> QED
      BY <2>1, <2>2 DEF TypeOK, CountersExact
  <1>2. Placed' /\ Queued' /\ Registered'
    BY DEF Placed, Queued, Registered, Blocked
  <1>3. Exclusive' /\ NoLostWriter'
    <2>1. CASE TryLock(p)
      <3>1. granted = {} /\ readers = 0
        BY <2>1, NoneGranted DEF WriterFree
      <3> QED
        BY <2>1, <3>1 DEF Exclusive, NoLostWriter, WriterFree
    <2>2. CASE TryRLock(p)
      <3>1. readers' # 0 /\ ~locked'
        BY <2>2 DEF TypeOK
      <3> QED
        BY <3>1 DEF Exclusive, NoLostWriter, WriterFree
    <2> QED
      BY <2>1, <2>2
  <1> QED
    BY <1>1, <1>2, <1>3

\* IInv is an invariant: the lock excludes, counts and wakes.
THEOREM Inductive == Spec => []IInv
  <1>1. IInv /\ [Next]_vars => IInv'
    <2> SUFFICES ASSUME IInv, [Next]_vars PROVE IInv'
      OBVIOUS
    <2>1. ASSUME NEW p \in Procs, Call(p) PROVE IInv'
      BY <2>1, StartIInv, TryIInv, UnlockIInv DEF Call, Lock, RLock
    <2>2. ASSUME NEW p \in Procs, Step(p) PROVE IInv'
      BY <2>2, TryAcquireIInv, TryRAcquireIInv, WaitIInv, LeaveIInv, RLeaveIInv DEF Step
    <2>3. CASE Cancel \/ UNCHANGED vars
      <3> USE <2>3 DEF Cancel, vars, lockVars, IInv
      <3>1. TypeOK' /\ CountersExact' /\ Exclusive'
        <4>1. CountersExact' /\ Exclusive'
          BY DEF CountersExact, Exclusive
        <4>2. cancelled' \in BOOLEAN
          BY DEF TypeOK
        <4> QED
          BY <4>1, <4>2 DEF TypeOK
      <3>2. Placed'
        BY DEF Placed, Blocked
      <3>4. Queued' /\ Registered'
        BY DEF Queued, Registered, Blocked
      <3>3. NoLostWriter'
        BY DEF NoLostWriter, WriterFree, OnItsWay
      <3> QED
        BY <3>1, <3>2, <3>3, <3>4
    <2> QED
      BY <2>1, <2>2, <2>3 DEF Next
  <1> QED
    BY <1>1, InitIInv, PTL DEF Spec

\* Every counter of the lock stays a natural number.
THEOREM TypeCorrect == Spec => []TypeOK
  BY Inductive, PTL DEF IInv

\* A writer excludes readers and other writers, also by TryLock, and no writer
\* comes before the readers that an Unlock admitted.
THEOREM Exclusion == Spec => []Exclusive
  BY Inductive, PTL DEF IInv

\* wpending, rwaiting and rgranted are what they count, however many waits are
\* abandoned and at whatever point.
THEOREM Counters == Spec => []CountersExact
  BY Inductive, PTL DEF IInv

\* A free lock with a queue has a writer on its way: no wakeup is lost, also when
\* the woken writer is canceled.
THEOREM NoWakeupLost == Spec => []NoLostWriter
  BY Inductive, PTL DEF IInv
=============================================================================
