------------------------- MODULE ShellrtSessionProofs -------------------------
(***************************************************************************)
(* Proofs about ShellrtSession, for any number of tasks and any nesting:   *)
(* a join reaches the whole subtree, Program.Run reports the failure       *)
(* wherever it happened, and the group of every session is a structured    *)
(* group.                                                                  *)
(***************************************************************************)
EXTENDS ShellrtSession, FiniteSetTheorems, WellFoundedInduction, TLAPS

\* The root is no task, and tasks are numbered.
LEMMA Names ==
    ASSUME TypeOK
    PROVE  /\ Root \in Sessions /\ Root \notin Tasks /\ Tasks \subseteq Sessions
           /\ Launched \subseteq Tasks /\ Created \subseteq Sessions /\ next \in Nat
           /\ \A s \in Sessions : s # Root => s \in Tasks
           /\ Root \in Created /\ Launched \subseteq Created
  BY SessionAssumption DEF TypeOK, Root, Tasks, Sessions, Launched, Created

\* The Boolean functions among the variables.
LEMMA Flags ==
    TypeOK => /\ done \in [Sessions -> BOOLEAN] /\ joined \in [Sessions -> BOOLEAN]
              /\ closed \in [Sessions -> BOOLEAN] /\ armed \in [Sessions -> BOOLEAN]
              /\ asleep \in [Sessions -> BOOLEAN]
  BY DEF TypeOK

\* The live tasks of a group are finitely many.
LEMMA LiveFinite ==
    ASSUME TypeOK, NEW s
    PROVE  IsFiniteSet(LiveOf(s)) /\ Cardinality(LiveOf(s)) \in Nat
  <1>1. IsFiniteSet(Tasks)
    BY SessionAssumption, FS_Interval DEF Tasks
  <1>2. LiveOf(s) \subseteq Tasks
    BY Names DEF LiveOf
  <1> QED
    BY <1>1, <1>2, FS_Subset, FS_CardinalityType

\* The program starts with the root alone.
LEMMA InitIInv == Init => IInv
  <1> SUFFICES ASSUME Init PROVE IInv
    OBVIOUS
  <1>0. Launched = {} /\ Root \in Sessions /\ Root \notin Tasks /\ Tasks \subseteq Sessions
    BY DEF Init, Launched, Root, Sessions, Tasks
  <1>1. TypeOK
    <2>1. source \in BOOLEAN /\ ext \in BOOLEAN
      BY Zenon DEF Init
    <2>2. next \in 0 .. MaxTasks
      BY SessionAssumption DEF Init
    <2>3. /\ owner \in [Tasks -> Sessions] /\ above \in [Sessions -> SUBSET Sessions]
          /\ failures \in [Sessions -> SUBSET Tasks] /\ child \in [Sessions -> Sessions]
          /\ pc \in [Sessions -> PCs] /\ err \in [Sessions -> Errors]
          /\ fault \in [Sessions -> {"none", "genuine", "masked"}]
      BY <1>0 DEF Init, PCs, Errors
    <2>4. active \in [Sessions -> Nat]
      BY DEF Init
    <2>5. \A f \in {done, joined, closed, armed, asleep} : f \in [Sessions -> BOOLEAN]
      BY DEF Init
    <2> QED
      BY <2>1, <2>2, <2>3, <2>4, <2>5 DEF TypeOK
  <1>2. Tree /\ Cloning /\ SubtreeOver
    BY <1>0 DEF Init, Tree, Cloning, SubtreeOver
  <1>3. ActiveCounts
    <2> SUFFICES ASSUME NEW s \in Sessions PROVE active[s] = Cardinality(LiveOf(s))
      BY DEF ActiveCounts
    <2>1. LiveOf(s) = {}
      BY <1>0 DEF LiveOf
    <2> QED
      BY <2>1, FS_EmptySet DEF Init
  <1>4. JoinsFirst
    BY DEF Init, JoinsFirst
  <1>5. FailuresKept /\ Originates /\ Reported
    BY <1>0 DEF Init, FailuresKept, Originates, Reported, origin
  <1> QED
    BY <1>1, <1>2, <1>3, <1>4, <1>5 DEF IInv

-----------------------------------------------------------------------------
(* Steps of one session.                                                   *)

\* A step of session s that launches nobody and reports nothing: s goes on to
\* `to` with the error e.
LocalMove(s, to, e) ==
    /\ pc[s] # "none" /\ to \in PCs \ {"none"} /\ e \in Errors
    /\ to = "clone" => pc[s] = "clone"
    /\ pc' = [pc EXCEPT ![s] = to] /\ err' = [err EXCEPT ![s] = e]
    /\ s # Root => /\ pc[s] \in {"arm", "over"} <=> to \in {"arm", "over"}
                   /\ pc[s] \in {"arm", "over"} => e = err[s]
    /\ UNCHANGED <<source, next, owner, above, active, failures, child>>

\* Such a step keeps the tree, the clones, the counts and the failures.
LEMMA LocalKeeps ==
    ASSUME IInv, NEW s \in Sessions, NEW to, NEW e, LocalMove(s, to, e),
           \A t \in Tasks \ Launched : joined'[t] = joined[t]
    PROVE  /\ Tree' /\ Cloning' /\ ActiveCounts' /\ FailuresKept'
           /\ \A t \in Sessions \ {s} : pc'[t] = pc[t] /\ err'[t] = err[t]
           /\ pc'[s] = to /\ err'[s] = e
           /\ \A t \in Launched : Ended(t)' <=> Ended(t)
           /\ Launched' = Launched /\ Created' = Created
  <1> USE DEF IInv
  <1>1. /\ \A t \in Sessions \ {s} : pc'[t] = pc[t] /\ err'[t] = err[t]
        /\ pc'[s] = to /\ err'[s] = e
    BY DEF LocalMove, TypeOK
  <1>2. Launched' = Launched /\ Created' = Created
    BY DEF LocalMove, Launched, Created
  <1>3. /\ Root \notin Launched /\ Launched \subseteq Sessions /\ Launched \subseteq Tasks
        /\ Tasks \subseteq Sessions /\ Root \in Sessions
    BY Names
  <1>4. ASSUME NEW t \in Launched PROVE Ended(t)' <=> Ended(t)
    BY <1>1, <1>3 DEF LocalMove, Ended
  <1>5. Tree'
    <2>0. s \in Created
      <3>1. s = Root \/ s \in Tasks
        BY Names
      <3> QED
        BY <3>1 DEF LocalMove, Tree, Created
    <2>1. above' = above /\ owner' = owner /\ s \in Created
      BY <2>0 DEF LocalMove
    <2>2. \A t \in Sessions : pc[t] # "none" => pc'[t] # "none"
      BY <1>1 DEF LocalMove
    <2>3. \A t \in Tasks \ Launched : pc'[t] = pc[t] /\ err'[t] = err[t]
      BY <1>1, <1>3, <2>1, Names DEF Created
    <2>4. ASSUME NEW t \in Launched
          PROVE  /\ owner[t] \in Created /\ owner[t] # t
                 /\ above[t] = above[owner[t]] \cup {t}
                 /\ Root \in above[t] /\ above[t] \subseteq Created
                 /\ \A u \in above[t] \ {t} :
                       pc'[u] # "none" /\ \E c \in above[t] \cap Launched : owner[c] = u
      BY <2>2, Names DEF Tree
    <2> QED
      BY <1>2, <1>3, <2>1, <2>2, <2>3, <2>4 DEF Tree
  <1>6. Cloning'
    BY <1>1, <1>2, <1>3 DEF LocalMove, Cloning
  <1>7. ActiveCounts'
    <2>1. \A u : LiveOf(u)' = LiveOf(u)
      BY <1>2, <1>4 DEF LiveOf, LocalMove
    <2> QED
      BY <2>1 DEF ActiveCounts, LocalMove
  <1>8. FailuresKept'
    <2>1. \A t \in Launched : Ended(t) => err'[t] = err[t]
      BY <1>1, <1>3 DEF LocalMove, Ended
    <2> QED
      BY <1>2, <1>4, <2>1 DEF FailuresKept, LocalMove
  <1> QED
    BY <1>1, <1>2, <1>4, <1>5, <1>6, <1>7, <1>8

\* While nobody joins, the subtrees that are over stay so.
LEMMA LocalSubtree ==
    ASSUME IInv, NEW s \in Sessions, NEW to, NEW e, LocalMove(s, to, e), UNCHANGED joined
    PROVE  SubtreeOver'
  <1> SUFFICES ASSUME NEW u \in Sessions, joined[u], NEW t \in Launched, u \in above[t] \ {t}
               PROVE  pc'[t] \in {"none", "arm", "over"} /\ active[t] = 0
    BY DEF SubtreeOver, LocalMove, Launched
  <1>1. pc[t] \in {"none", "arm", "over"} /\ active[t] = 0
    BY DEF IInv, SubtreeOver
  <1>2. t \in Sessions /\ t # Root
    BY Names DEF IInv
  <1>3. CASE t = s
    BY <1>1, <1>2, <1>3 DEF LocalMove, IInv, TypeOK
  <1>4. CASE t # s
    BY <1>1, <1>2, <1>4 DEF LocalMove, IInv, TypeOK
  <1> QED
    BY <1>3, <1>4

\* The steps that move a session within its body, its join or its end.
LEMMA QuietIInv ==
    ASSUME IInv, NEW s \in Sessions,
           \/ GoReady(s) \/ BodyBlocks(s) \/ BodyUnblocked(s) \/ JoinWaits(s) \/ Close(s)
           \/ ShellArms(s) \/ (s \in Tasks /\ FinishArms(s))
           \/ (s = Root /\ (HostCancel \/ UNCHANGED vars))
    PROVE  IInv'
  <1> USE DEF At, config, group
  <1>0. s \in Tasks => s # Root
    BY Names DEF IInv
  <1>1. PICK to : /\ LocalMove(s, to, err[s])
                  /\ pc[s] \in InBody <=> to \in InBody
                  /\ to \in {"close", "closejoin"} <=> pc[s] \in {"close", "closejoin"}
                  /\ to \in {"shell", "finish", "arm", "over"}
                        <=> pc[s] \in {"shell", "finish", "arm", "over"}
    <2>1. err' = [err EXCEPT ![s] = err[s]] /\ err[s] \in Errors
      BY DEF GoReady, BodyBlocks, BodyUnblocked, JoinWaits, Close, ShellArms, FinishArms,
             HostCancel, vars, IInv, TypeOK
    <2>2. UNCHANGED <<source, next, owner, above, active, failures, child>>
      BY DEF GoReady, BodyBlocks, BodyUnblocked, JoinWaits, Close, ShellArms, FinishArms,
             HostCancel, vars
    <2>3. CASE GoReady(s) \/ BodyBlocks(s) \/ BodyUnblocked(s) \/ Close(s)
               \/ (s \in Tasks /\ FinishArms(s))
      <3>1. PICK to \in {"body", "blocked", "closejoin", "over"} :
               /\ pc' = [pc EXCEPT ![s] = to]
               /\ to = "body" => pc[s] \in {"ready", "blocked"}
               /\ to = "blocked" => pc[s] = "body"
               /\ to = "closejoin" => pc[s] = "close"
               /\ to = "over" => pc[s] = "arm"
        BY <2>3 DEF GoReady, BodyBlocks, BodyUnblocked, Close, FinishArms
      <3>2. LocalMove(s, to, err[s])
        BY <2>1, <2>2, <3>1 DEF LocalMove, PCs
      <3> QED
        BY <3>1, <3>2 DEF InBody
    <2>4. CASE JoinWaits(s) \/ ShellArms(s) \/ (s = Root /\ (HostCancel \/ UNCHANGED vars))
      <3>1. pc' = [pc EXCEPT ![s] = pc[s]] /\ pc[s] \in PCs /\ pc[s] # "none"
        BY <2>4 DEF JoinWaits, ShellArms, HostCancel, vars, IInv, TypeOK, Tree
      <3>2. LocalMove(s, pc[s], err[s])
        BY <2>1, <2>2, <3>1 DEF LocalMove
      <3> QED
        BY <3>2
    <2> QED
      BY <2>3, <2>4
  <1>2. UNCHANGED <<joined, fault, origin>>
    BY DEF origin, GoReady, BodyBlocks, BodyUnblocked, JoinWaits, Close, ShellArms, FinishArms,
           HostCancel, vars
  <1>3. /\ Tree' /\ Cloning' /\ ActiveCounts' /\ FailuresKept'
        /\ \A t \in Sessions \ {s} : pc'[t] = pc[t]
        /\ pc'[s] = to /\ err' = err
        /\ Launched' = Launched /\ Created' = Created
    <2>1. err' = err
      BY <1>1 DEF LocalMove, IInv, TypeOK
    <2> QED
      BY <1>1, <1>2, <2>1, LocalKeeps
  <1>4. SubtreeOver'
    BY <1>1, <1>2, LocalSubtree
  <1>5. JoinsFirst'
    <2>1. UNCHANGED <<source, active>>
      BY <1>1 DEF LocalMove
    <2>2. ASSUME NEW t \in Sessions
          PROVE  /\ joined[t] => active[t] = 0
                       /\ pc'[t] \in {"close", "closejoin", "shell", "finish", "arm", "over"}
                 /\ pc'[t] \in {"shell", "finish", "arm", "over"} => joined[t]
                 /\ (source \/ t = Root) /\ pc'[t] \in {"close", "closejoin"} => joined[t]
      BY <1>1, <1>3 DEF IInv, JoinsFirst
    <2> QED
      BY <1>2, <2>1, <2>2 DEF JoinsFirst
  <1>6. /\ ext \in BOOLEAN /\ ext' \in BOOLEAN /\ (ext => ext')
        /\ pc[Root] \in InBody => done'[Root] = done[Root] \/ ext'
    <2>0. ext \in BOOLEAN
      BY DEF IInv, TypeOK
    <2>1. CASE HostCancel
      BY <2>0, <2>1 DEF HostCancel
    <2>2. CASE ~HostCancel
      <3>1. ext' = ext
        BY <2>2 DEF GoReady, BodyBlocks, BodyUnblocked, JoinWaits, Close, ShellArms, FinishArms,
                    vars
      <3>2. CASE Close(s)
        <4>1. done'[Root] = (done[Root] \/ s \in above[Root])
          BY <3>2, Names DEF Close, Canceled, IInv
        <4>2. above[Root] = {Root} /\ done[Root] \in BOOLEAN
          BY Names, Flags DEF IInv, Tree
        <4>3. s = Root => pc[Root] \notin InBody
          BY <3>2 DEF Close, InBody
        <4> QED
          BY <2>0, <3>1, <4>1, <4>2, <4>3
      <3>3. CASE ~Close(s)
        <4>1. done' = done
          BY <2>2, <3>3 DEF GoReady, BodyBlocks, BodyUnblocked, JoinWaits, ShellArms, FinishArms,
                            vars
        <4> QED
          BY <2>0, <3>1, <4>1
      <3> QED
        BY <3>2, <3>3
    <2> QED
      BY <2>1, <2>2
  <1>7. Originates'
    <2>1. pc'[Root] \in InBody <=> pc[Root] \in InBody
      BY <1>1, <1>3, Names DEF IInv
    <2>2. \A o \in Created : pc'[o] \in InBody <=> pc[o] \in InBody
      BY <1>1, <1>3, Names DEF IInv
    <2> QED
      BY <1>2, <1>3, <1>6, <2>1, <2>2 DEF Originates, IInv
  <1>8. Reported'
    <2>1. UNCHANGED <<source, above>>
      BY <1>1 DEF LocalMove
    <2> QED
      BY <1>2, <1>3, <2>1 DEF IInv, Reported
  <1>9. TypeOK'
    <2>1. \A f \in {done', joined', closed', armed', asleep'} : f \in [Sessions -> BOOLEAN]
      <3>1. done' \in [Sessions -> BOOLEAN]
        BY Flags DEF GoReady, BodyBlocks, BodyUnblocked, JoinWaits, Close, ShellArms, FinishArms,
           HostCancel, vars, Canceled, IInv
      <3>2. closed' \in [Sessions -> BOOLEAN] /\ asleep' \in [Sessions -> BOOLEAN]
        BY Flags DEF GoReady, BodyBlocks, BodyUnblocked, JoinWaits, Close, ShellArms, FinishArms,
           HostCancel, vars, Set, IInv
      <3>3. armed' \in [Sessions -> BOOLEAN]
        BY Flags DEF GoReady, BodyBlocks, BodyUnblocked, JoinWaits, Close, ShellArms, FinishArms,
           HostCancel, vars, Set, IInv
      <3> QED
        BY <1>2, <3>1, <3>2, <3>3, Flags DEF IInv
    <2>2. pc' \in [Sessions -> PCs]
      BY <1>1 DEF LocalMove, IInv, TypeOK
    <2> QED
      BY <1>1, <1>2, <1>3, <1>6, <2>1, <2>2 DEF LocalMove, IInv, TypeOK
  <1> QED
    BY <1>3, <1>4, <1>5, <1>7, <1>8, <1>9 DEF IInv

\* A session that has started is the root or was launched, and nobody above it
\* is joined while it works.
LEMMA AtWork ==
    ASSUME IInv, NEW s \in Sessions, pc[s] \notin {"none", "arm", "over"}
    PROVE  s \in Created /\ \A u \in above[s] \ {s} : u \in Sessions /\ ~joined[u]
  <1>1. s = Root \/ s \in Tasks
    BY Names DEF IInv
  <1>2. s \in Created
    BY <1>1 DEF IInv, Tree, Created
  <1>3. CASE s = Root
    BY <1>2, <1>3 DEF IInv, Tree
  <1>4. CASE s \in Launched
    <2>1. above[s] \subseteq Sessions
      BY <1>4, Names DEF IInv, Tree
    <2> QED
      BY <1>2, <1>4, <2>1 DEF IInv, SubtreeOver
  <1> QED
    BY <1>2, <1>3, <1>4 DEF Created

\* A step of a working session that leaves its body or goes on after it, and
\* neither joins nor reports.
LEMMA WorkIInv ==
    ASSUME IInv, NEW s \in Sessions, NEW to, NEW e, LocalMove(s, to, e),
           pc[s] \notin {"none", "arm", "over"}, UNCHANGED <<joined, ext>>,
           done' \in [Sessions -> BOOLEAN],
           UNCHANGED <<closed, armed, asleep>>,
           to \notin InBody,
           to \in {"shell", "finish", "arm", "over"} => joined[s],
           to \in {"close", "closejoin"} /\ (source \/ s = Root) => joined[s],
           joined[s] => to \in {"close", "closejoin", "shell", "finish", "arm", "over"},
           fault' \in [Sessions -> {"none", "genuine", "masked"}],
           origin' = origin \/ origin' = origin \cup {s},
           e = "genuine" => origin' # {}, s \in origin' => e = "genuine",
           s # Root => done'[Root] = done[Root],
           s = Root /\ origin' = {} /\ ~ext => e \in {"nil", "deadline"},
           joined[s] /\ err[s] = "genuine" => e = "genuine"
    PROVE  IInv'
  <1>1. /\ Tree' /\ Cloning' /\ ActiveCounts' /\ FailuresKept'
        /\ \A t \in Sessions \ {s} : pc'[t] = pc[t] /\ err'[t] = err[t]
        /\ pc'[s] = to /\ err'[s] = e
        /\ Launched' = Launched /\ Created' = Created
    BY LocalKeeps
  <1>2. SubtreeOver'
    BY LocalSubtree
  <1>3. UNCHANGED <<source, active, above>>
    BY DEF LocalMove
  <1>4. s \in Created /\ \A u \in above[s] \ {s} : u \in Sessions /\ ~joined[u]
    BY AtWork
  <1>5. Root \in Sessions /\ Created \subseteq Sessions
    BY Names DEF IInv
  <1>6. JoinsFirst'
    <2>1. ASSUME NEW t \in Sessions
          PROVE  /\ joined[t] => active[t] = 0
                       /\ pc'[t] \in {"close", "closejoin", "shell", "finish", "arm", "over"}
                 /\ pc'[t] \in {"shell", "finish", "arm", "over"} => joined[t]
                 /\ (source \/ t = Root) /\ pc'[t] \in {"close", "closejoin"} => joined[t]
      <3>1. CASE t = s
        BY <1>1, <3>1 DEF IInv, JoinsFirst
      <3>2. CASE t # s
        BY <1>1, <3>2 DEF IInv, JoinsFirst
      <3> QED
        BY <3>1, <3>2
    <2> QED
      BY <1>3, <2>1 DEF JoinsFirst
  <1>7. Originates'
    <2>1. origin' \subseteq Created'
      BY <1>1, <1>4 DEF IInv, Originates
    <2>2. \A o \in origin' : err'[o] = "genuine" /\ pc'[o] \notin InBody
      BY <1>1, <1>4, <1>5 DEF IInv, Originates
    <2>3. origin' = {} => \A t \in Sessions : err'[t] # "genuine"
      BY <1>1 DEF IInv, Originates
    <2>4. pc'[Root] \in InBody /\ done'[Root] => ext' \/ origin' # {}
      BY <1>1, <1>5 DEF IInv, Originates
    <2>5. origin' = {} /\ ~ext' => err'[Root] \in {"nil", "deadline"}
      BY <1>1, <1>5 DEF IInv, Originates
    <2> QED
      BY <2>1, <2>2, <2>3, <2>4, <2>5 DEF Originates
  <1>8. Reported'
    <2> SUFFICES ASSUME source, NEW o \in origin', NEW u \in above[o], joined[u]
                 PROVE  err'[u] = "genuine"
      BY <1>3 DEF Reported
    <2>1. CASE o = s /\ u = s
      BY <1>1, <2>1
    <2>2. CASE o = s /\ u # s
      BY <1>4, <2>2
    <2>3. CASE o # s
      <3>1. o \in origin /\ err[u] = "genuine"
        BY <2>3 DEF IInv, Reported
      <3>2. o \in Created /\ above[o] \subseteq Sessions
        BY <3>1, Names DEF IInv, Originates, Tree, TypeOK
      <3> QED
        BY <1>1, <3>1, <3>2
    <2> QED
      BY <2>1, <2>2, <2>3
  <1>9. TypeOK'
    <2>1. pc' \in [Sessions -> PCs] /\ err' \in [Sessions -> Errors]
      BY DEF LocalMove, IInv, TypeOK
    <2>2. \A f \in {done', joined', closed', armed', asleep'} : f \in [Sessions -> BOOLEAN]
      BY Flags DEF IInv
    <2> QED
      BY <2>1, <2>2 DEF LocalMove, IInv, TypeOK
  <1> QED
    BY <1>1, <1>2, <1>6, <1>7, <1>8, <1>9 DEF IInv

\* A body ends, with or without an error.
LEMMA EndBodyIInv ==
    ASSUME IInv, NEW s \in Sessions, BodyReturns(s) \/ BodyFails(s) \/ BodyCanceled(s)
    PROVE  IInv'
  <1>0. PICK e \in {"nil", "genuine", "canceled"} :
          /\ EndBody(s, e) /\ pc[s] \in {"body", "blocked"}
          /\ fault' = IF e = "genuine" THEN [fault EXCEPT ![s] = "genuine"] ELSE fault
          /\ e = "canceled" => done[s]
    BY DEF BodyReturns, BodyFails, BodyCanceled
  <1>1. /\ EndBody(s, e) /\ pc[s] \in {"body", "blocked"}
        /\ origin' = IF e = "genuine" THEN origin \cup {s} ELSE origin
        /\ e = "canceled" => done[s]
        /\ fault' \in [Sessions -> {"none", "genuine", "masked"}]
    BY <1>0 DEF IInv, TypeOK, origin
  <1>2. AfterBody(s) \in {"join", "close"} /\ (AfterBody(s) = "close" => ~(source \/ s = Root))
    BY DEF AfterBody
  <1>3. LocalMove(s, AfterBody(s), e)
    BY <1>1, <1>2 DEF EndBody, LocalMove, PCs, Errors, config, group
  <1>4. ~joined[s] /\ s \notin origin
    BY <1>1, Flags DEF IInv, JoinsFirst, Originates, InBody
  <1>5. done' \in [Sessions -> BOOLEAN] /\ (s # Root => done'[Root] = done[Root])
    <2>1. CASE EndCancels(s, e)
      <3>1. done' = [u \in Sessions |-> done[u] \/ s \in above[u]]
        BY <1>1, <2>1 DEF EndBody, Canceled
      <3>2. above[Root] = {Root} /\ done \in [Sessions -> BOOLEAN] /\ Root \in Sessions
        BY Names, Flags DEF IInv, Tree
      <3> QED
        BY <3>1, <3>2
    <2>2. CASE ~EndCancels(s, e)
      BY <1>1, <2>2, Flags DEF EndBody, IInv
    <2> QED
      BY <2>1, <2>2
  <1>6. UNCHANGED <<joined, ext, closed, armed, asleep>>
    BY <1>1 DEF EndBody, config, group
  <1>7. s = Root /\ origin' = {} /\ ~ext => e \in {"nil", "deadline"}
    BY <1>1 DEF IInv, Originates, InBody
  <1> HIDE DEF AfterBody
  <1> QED
    BY <1>1, <1>2, <1>3, <1>4, <1>5, <1>6, <1>7, WorkIInv DEF InBody

-----------------------------------------------------------------------------
(* The joins.                                                              *)

\* The ranks of the classes of errors.
LEMMA Ranks ==
    Rank("nil") = 0 /\ Rank("canceled") = 1 /\ Rank("deadline") = 1 /\ Rank("genuine") = 2
  BY DEF Rank

\* A nonempty set of tasks has a first one.
LEMMA FirstTask ==
    ASSUME NEW S \in SUBSET Tasks, S # {}
    PROVE  \E t \in S : \A u \in S : t <= u
  <1>1. S \subseteq Nat
    BY SessionAssumption DEF Tasks
  <1>2. PICK t \in S : \A u \in S : ~(<<u, t>> \in OpToRel(<, Nat))
    BY <1>1, WFMin, NatLessThanWellFounded
  <1>3. \A u \in S : t <= u
    <2> SUFFICES ASSUME NEW u \in S, u < t PROVE FALSE
      BY <1>1
    <2> QED
      BY <1>1, <1>2 DEF OpToRel
  <1> QED
    BY <1>3

\* primaryFailureLocked reports a recorded failure, a genuine one if there is one.
LEMMA PrimaryRanks ==
    ASSUME IInv, NEW s \in Sessions
    PROVE  /\ Primary(s) \in Errors
           /\ Primary(s) = "genuine" <=> \E t \in failures[s] : err[t] = "genuine"
  <1>1. CASE failures[s] = {}
    BY <1>1 DEF Primary, Errors
  <1>2. CASE failures[s] # {}
    <2> DEFINE Best(t) == \A u \in failures[s] :
                             \/ Rank(err[t]) > Rank(err[u])
                             \/ Rank(err[t]) = Rank(err[u]) /\ t <= u
               G == {t \in failures[s] : err[t] = "genuine"}
    <2>1. /\ failures[s] \subseteq Tasks
          /\ \A t \in failures[s] : err[t] \in {"canceled", "deadline", "genuine"}
      BY Names DEF IInv, TypeOK, FailuresKept, Errors
    <2>2. \A t \in failures[s] : Rank(err[t]) = IF err[t] = "genuine" THEN 2 ELSE 1
      BY <2>1, Ranks
    <2>3. \E t \in failures[s] : Best(t)
      <3>1. CASE G = {}
        <4>1. PICK t \in failures[s] : \A u \in failures[s] : t <= u
          BY <1>2, <2>1, FirstTask
        <4>2. \A u \in failures[s] : Rank(err[u]) = 1
          BY <2>2, <3>1
        <4> QED
          BY <4>1, <4>2
      <3>2. CASE G # {}
        <4>1. PICK t \in G : \A u \in G : t <= u
          BY <2>1, <3>2, FirstTask
        <4>2. ASSUME NEW u \in failures[s]
              PROVE  Rank(err[t]) > Rank(err[u]) \/ (Rank(err[t]) = Rank(err[u]) /\ t <= u)
          BY <2>2, <4>1
        <4> QED
          BY <4>1, <4>2
      <3> QED
        BY <3>1, <3>2
    <2>4. PICK t \in failures[s] : Best(t) /\ Primary(s) = err[t]
      <3>1. Primary(s) = err[CHOOSE t \in failures[s] : Best(t)]
        BY <1>2 DEF Primary
      <3> HIDE DEF Best
      <3> QED
        BY <2>3, <3>1
    <2>5. (\E u \in failures[s] : err[u] = "genuine") => err[t] = "genuine"
      <3> SUFFICES ASSUME NEW u \in failures[s], err[u] = "genuine" PROVE err[t] = "genuine"
        OBVIOUS
      <3>1. Rank(err[u]) = 2 /\ Rank(err[t]) \in {1, 2} /\ (Rank(err[t]) = 2 => err[t] = "genuine")
        BY <2>2
      <3>2. Rank(err[t]) > Rank(err[u]) \/ Rank(err[t]) = Rank(err[u])
        BY <2>4
      <3> QED
        BY <3>1, <3>2
    <2> QED
      BY <2>1, <2>4, <2>5 DEF Errors
  <1> QED
    BY <1>1, <1>2

\* The shell is closed.
LEMMA ShellClosedIInv ==
    ASSUME IInv, NEW s \in Sessions, ShellClosed(s)
    PROVE  IInv'
  <1> DEFINE to == IF s = Root THEN "over" ELSE "finish"
  <1>1. pc[s] = "shell" /\ pc' = [pc EXCEPT ![s] = to]
    BY DEF ShellClosed, At
  <1>2. PICK shellErr \in {"nil", "deadline", "genuine"} :
          /\ err' = [err EXCEPT ![s] = IF err[s] # "nil" THEN err[s] ELSE CloseResult(s, shellErr)]
          /\ fault' = IF shellErr # "genuine" THEN fault
                      ELSE [fault EXCEPT ![s] = IF Masks(s) THEN "masked" ELSE "genuine"]
    BY DEF ShellClosed
  <1> DEFINE e == IF err[s] # "nil" THEN err[s] ELSE CloseResult(s, shellErr)
  <1>a. /\ Primary(s) \in Errors /\ err[s] \in Errors
        /\ Primary(s) = "genuine" => \E t \in Sessions : err[t] = "genuine"
    <2>1. failures[s] \subseteq Sessions
      BY Names DEF IInv, TypeOK
    <2> QED
      BY <2>1, PrimaryRanks DEF IInv, TypeOK
  <1>b. /\ e \in Errors /\ (err[s] = "genuine" => e = "genuine")
        /\ e = "genuine" => shellErr = "genuine" \/ err[s] = "genuine" \/ Primary(s) = "genuine"
        /\ shellErr = "genuine" /\ ~Masks(s) => e = "genuine"
        /\ s = Root /\ ~ext /\ e = "canceled" => err[s] = "canceled"
        /\ Masks(s) /\ e = "genuine" => Primary(s) = "genuine"
    BY <1>a DEF CloseResult, WithoutShutdown, Masks, Errors
  <1> HIDE DEF e
  <1>3. joined[s] /\ (err[s] # "genuine" => s \notin origin)
    BY <1>1 DEF IInv, JoinsFirst, Originates
  <1>4. LocalMove(s, to, e)
    BY <1>1, <1>2, <1>b DEF e, ShellClosed, LocalMove, PCs, config, group
  <1>5. UNCHANGED <<joined, ext, closed, armed, asleep, done>> /\ done' \in [Sessions -> BOOLEAN]
    BY Flags DEF ShellClosed, config, group, IInv
  <1>6. /\ origin' = IF shellErr = "genuine" /\ ~Masks(s) THEN origin \cup {s} ELSE origin
        /\ fault' \in [Sessions -> {"none", "genuine", "masked"}]
    <2>1. CASE shellErr # "genuine"
      BY <1>2, <2>1 DEF IInv, TypeOK, origin
    <2>2. CASE shellErr = "genuine" /\ Masks(s)
      BY <1>2, <1>3, <2>2 DEF Masks, IInv, TypeOK, origin
    <2>3. CASE shellErr = "genuine" /\ ~Masks(s)
      BY <1>2, <2>3 DEF IInv, TypeOK, origin
    <2> QED
      BY <2>1, <2>2, <2>3
  <1>7. /\ s \in origin' => e = "genuine"
        /\ e = "genuine" => origin' # {}
        /\ s = Root /\ origin' = {} /\ ~ext => e \in {"nil", "deadline"}
    BY <1>a, <1>b, <1>3, <1>6 DEF IInv, Originates, Errors
  <1>8. to \in {"over", "finish"}
    OBVIOUS
  <1> HIDE DEF to
  <1> QED
    BY <1>1, <1>b, <1>3, <1>4, <1>5, <1>6, <1>7, <1>8, WorkIInv DEF InBody

\* Below an empty group everybody has reported; the way up from a task leads
\* through a child that has, and that joined its own group if it is another.
LEMMA EmptyGroup ==
    ASSUME IInv, NEW s \in Sessions, active[s] = 0, NEW t \in Launched, s \in above[t] \ {t}
    PROVE  /\ pc[t] \in {"none", "arm", "over"} /\ active[t] = 0
           /\ \E c \in above[t] \cap Launched : owner[c] = s /\ Ended(c) /\ (c = t \/ joined[c])
  <1> USE DEF IInv
  <1>0. Launched \subseteq Sessions
    BY Names
  <1>1. PICK c \in above[t] \cap Launched : owner[c] = s
    BY DEF Tree
  <1>2. Ended(c)
    <2>1. LiveOf(s) = {}
      BY LiveFinite, FS_EmptySet DEF ActiveCounts
    <2> QED
      BY <1>1, <2>1 DEF LiveOf
  <1>3. CASE c = t
    <2>1. CASE pc[t] = "none"
      <3>1. LiveOf(t) = {}
        <4> SUFFICES ASSUME NEW u \in LiveOf(t) PROVE FALSE
          OBVIOUS
        <4>1. u \in Launched /\ owner[u] = t
          BY DEF LiveOf
        <4>2. t \in above[u] \ {u}
          BY <1>0, <4>1 DEF Tree
        <4> QED
          BY <2>1, <4>1, <4>2 DEF Tree
      <3> QED
        BY <1>0, <1>1, <1>2, <1>3, <2>1, <3>1, FS_EmptySet DEF ActiveCounts
    <2>2. CASE pc[t] # "none"
      BY <1>0, <1>1, <1>2, <1>3, <2>2 DEF Ended, JoinsFirst
    <2> QED
      BY <2>1, <2>2
  <1>4. CASE c # t
    <2>1. pc[c] # "none"
      BY <1>1, <1>4 DEF Tree
    <2>2. joined[c]
      BY <1>0, <1>1, <1>2, <2>1 DEF Ended, JoinsFirst
    <2> QED
      BY <1>0, <1>1, <1>2, <1>4, <2>2 DEF SubtreeOver
  <1> QED
    BY <1>3, <1>4

\* The joins: the session takes over the failure of the tasks below it.
LEMMA JoinIInv ==
    ASSUME IInv, NEW s \in Sessions, SourceJoin(s) \/ CloseJoin(s)
    PROVE  IInv'
  <1> DEFINE P == IF s = Root THEN WithoutShutdown(Primary(s)) ELSE Primary(s)
             to == IF SourceJoin(s) THEN "close" ELSE "shell"
             e == IF SourceJoin(s) THEN RankFailures(err[s], P)
                  ELSE err[s]
  <1>1. active[s] = 0 /\ joined' = [joined EXCEPT ![s] = TRUE]
    BY DEF SourceJoin, CloseJoin, JoinDone, Set
  <1>2. /\ P \in Errors
        /\ P = "genuine" <=> \E t \in failures[s] : err[t] = "genuine"
        /\ s = Root /\ ~ext => P # "canceled"
    BY PrimaryRanks DEF WithoutShutdown, Errors
  <1> HIDE DEF P
  <1>3. /\ e \in Errors /\ e \in {err[s], P} /\ (err[s] = "genuine" => e = "genuine")
        /\ SourceJoin(s) /\ P = "genuine" => e = "genuine"
    <2>1. err[s] \in Errors
      BY DEF IInv, TypeOK
    <2> QED
      BY <1>2, <2>1, Ranks DEF RankFailures, Errors
  <1>4. /\ pc[s] = (IF SourceJoin(s) THEN "join" ELSE "closejoin")
        /\ pc' = [pc EXCEPT ![s] = to] /\ err' = [err EXCEPT ![s] = e]
        /\ UNCHANGED <<source, ext, next, owner, above, active, failures, child, fault, origin,
                       done, closed, armed, asleep>>
    BY DEF SourceJoin, CloseJoin, At, config, P, origin, IInv, TypeOK
  <1>4a. to \in {"close", "shell"}
    OBVIOUS
  <1> HIDE DEF e, to
  <1>5. LocalMove(s, to, e)
    BY <1>3, <1>4, <1>4a DEF LocalMove, PCs
  <1>6. s \in Created /\ Created \subseteq Sessions /\ Root \in Sessions /\ Launched \subseteq Sessions
    BY <1>4, AtWork, Names DEF IInv
  <1>7. \A t \in Sessions \ {s} : joined'[t] = joined[t]
    BY <1>1, Flags DEF IInv
  <1>8. joined'[s] = TRUE
    BY <1>1, Flags DEF IInv
  <1>9. /\ Tree' /\ Cloning' /\ ActiveCounts' /\ FailuresKept'
        /\ \A t \in Sessions \ {s} : pc'[t] = pc[t] /\ err'[t] = err[t]
        /\ pc'[s] = to /\ err'[s] = e
        /\ Launched' = Launched /\ Created' = Created
    <2>1. \A t \in Tasks \ Launched : t \in Sessions /\ t # s
      BY <1>6, Names DEF Created, IInv
    <2> QED
      BY <1>5, <1>7, <2>1, LocalKeeps
  <1>10. SubtreeOver'
    <2> SUFFICES ASSUME NEW u \in Sessions, joined'[u], NEW t \in Launched, u \in above[t] \ {t}
                 PROVE  pc'[t] \in {"none", "arm", "over"} /\ active[t] = 0
      BY <1>4, <1>9 DEF SubtreeOver
    <2>1. pc[t] \in {"none", "arm", "over"} /\ active[t] = 0
      <3>1. CASE u = s
        BY <1>1, <3>1, EmptyGroup
      <3>2. CASE u # s
        BY <1>7, <3>2 DEF IInv, SubtreeOver
      <3> QED
        BY <3>1, <3>2
    <2>2. t # s /\ t \in Sessions
      BY <1>4, <1>6, <2>1
    <2> QED
      BY <1>9, <2>1, <2>2
  <1>11. JoinsFirst'
    <2>1. ASSUME NEW t \in Sessions
          PROVE  /\ joined'[t] => active[t] = 0
                       /\ pc'[t] \in {"close", "closejoin", "shell", "finish", "arm", "over"}
                 /\ pc'[t] \in {"shell", "finish", "arm", "over"} => joined'[t]
                 /\ (source \/ t = Root) /\ pc'[t] \in {"close", "closejoin"} => joined'[t]
      <3>1. CASE t = s
        BY <1>1, <1>4a, <1>8, <1>9, <3>1
      <3>2. CASE t # s
        BY <1>7, <1>9, <3>2 DEF IInv, JoinsFirst
      <3> QED
        BY <3>1, <3>2
    <2> QED
      BY <1>4, <2>1 DEF JoinsFirst
  <1>12. Originates'
    <2>1. origin' = origin /\ origin \subseteq Created
      BY <1>4 DEF IInv, Originates
    <2>2. \A o \in origin : err'[o] = "genuine" /\ pc'[o] \notin InBody
      BY <1>3, <1>4a, <1>6, <1>9, <2>1 DEF IInv, Originates, InBody
    <2>3. ASSUME origin = {}, NEW t \in Sessions PROVE err'[t] # "genuine"
      <3>1. \A u \in Sessions : err[u] # "genuine"
        BY <2>3 DEF IInv, Originates
      <3>2. P # "genuine"
        BY <1>2, <1>6, <3>1, Names DEF IInv, TypeOK
      <3> QED
        BY <1>3, <1>9, <3>1, <3>2
    <2>4. pc'[Root] \in InBody /\ done'[Root] => ext' \/ origin' # {}
      BY <1>4, <1>4a, <1>6, <1>9 DEF IInv, Originates, InBody
    <2>5. ASSUME origin = {}, ~ext PROVE err'[Root] \in {"nil", "deadline"}
      <3>1. CASE s = Root
        <4>1. e # "genuine"
          BY <1>9, <2>3, <2>5, <3>1
        <4>2. err[Root] \in {"nil", "deadline"}
          BY <2>5 DEF IInv, Originates
        <4>3. e \in {"nil", "deadline"}
          BY <1>2, <1>3, <2>5, <3>1, <4>1, <4>2 DEF Errors
        <4> QED
          BY <1>9, <3>1, <4>3
      <3>2. CASE s # Root
        BY <1>6, <1>9, <2>5, <3>2 DEF IInv, Originates
      <3> QED
        BY <3>1, <3>2
    <2> QED
      BY <1>4, <1>9, <2>1, <2>2, <2>3, <2>4, <2>5 DEF Originates
  <1>13. Reported'
    <2> SUFFICES ASSUME source, NEW o \in origin, NEW u \in above[o], joined'[u]
                 PROVE  err'[u] = "genuine"
      BY <1>4 DEF Reported
    <2>0. o \in Created /\ above[o] \subseteq Sessions /\ err[o] = "genuine"
      BY <1>6 DEF IInv, Originates, TypeOK
    <2>1. CASE u # s
      BY <1>7, <1>9, <2>0, <2>1 DEF IInv, Reported
    <2>2. CASE u = s /\ joined[s]
      BY <1>3, <1>9, <2>2 DEF IInv, Reported
    <2>3. CASE u = s /\ ~joined[s] /\ o = s
      BY <1>3, <1>9, <2>0, <2>3
    <2>4. CASE u = s /\ ~joined[s] /\ o # s
      <3>1. SourceJoin(s)
        BY <1>4, <2>4 DEF IInv, JoinsFirst
      <3>2. o \in Launched
        BY <2>0, <2>4 DEF IInv, Tree, Created
      <3>3. PICK c \in above[o] \cap Launched : owner[c] = s /\ Ended(c) /\ (c = o \/ joined[c])
        BY <1>1, <2>4, <3>2, EmptyGroup
      <3>4. err[c] = "genuine"
        BY <2>0, <3>3 DEF IInv, Reported
      <3>5. P = "genuine"
        BY <1>2, <3>3, <3>4 DEF IInv, FailuresKept
      <3> QED
        BY <1>3, <1>9, <2>4, <3>1, <3>5
    <2> QED
      BY <2>1, <2>2, <2>3, <2>4
  <1>14. TypeOK'
    <2>1. pc' \in [Sessions -> PCs] /\ err' \in [Sessions -> Errors]
      BY <1>5 DEF LocalMove, IInv, TypeOK
    <2>2. \A f \in {done', joined', closed', armed', asleep'} : f \in [Sessions -> BOOLEAN]
      BY <1>1, <1>4, Flags DEF IInv
    <2> QED
      BY <1>4, <2>1, <2>2 DEF IInv, TypeOK
  <1> QED
    BY <1>9, <1>10, <1>11, <1>12, <1>13, <1>14 DEF IInv

-----------------------------------------------------------------------------
(* Launching a task, and its report to the group.                          *)

\* What a started session knows of the contexts above it.
LEMMA WayUp ==
    ASSUME IInv, NEW s \in Created
    PROVE  /\ Root \in above[s] /\ s \in above[s] /\ above[s] \subseteq Created
           /\ \A u \in above[s] \ {s} :
                pc[u] # "none" /\ \E c \in above[s] \cap Launched : owner[c] = u
  <1>1. s = Root \/ s \in Launched
    BY DEF Created
  <1>2. s \in Sessions /\ Root \in Created
    BY Names DEF IInv
  <1>3. CASE s = Root
    BY <1>2, <1>3 DEF IInv, Tree
  <1>4. CASE s \in Launched
    BY <1>2, <1>4 DEF IInv, Tree
  <1> QED
    BY <1>1, <1>3, <1>4

\* Session.Go counts a new task.
LEMMA GoIInv ==
    ASSUME IInv, NEW s \in Sessions, Go(s)
    PROVE  IInv'
  <1> USE DEF IInv
  <1>1. PICK n \in Tasks : n = next + 1 /\ n = next'
    BY SessionAssumption DEF Go, TypeOK, Tasks
  <1>2. /\ Launched' = Launched \cup {n} /\ Created' = Created \cup {n}
        /\ n \notin Created /\ n \notin Launched
    <2>1. next \in Nat /\ n = next + 1 /\ next' = next + 1
      BY <1>1, Names
    <2>2. 1 .. next + 1 = (1 .. next) \cup {next + 1} /\ next + 1 \notin 1 .. next /\ next + 1 # 0
      BY <2>1
    <2> QED
      BY <2>1, <2>2 DEF Launched, Created, Root
  <1>3. /\ pc[s] = "body" /\ pc' = [pc EXCEPT ![s] = "clone"]
        /\ owner' = [owner EXCEPT ![n] = s]
        /\ above' = [above EXCEPT ![n] = above[s] \cup {n}]
        /\ active' = [active EXCEPT ![s] = @ + 1]
        /\ child' = [child EXCEPT ![s] = n]
        /\ UNCHANGED <<source, ext, failures, joined, done, closed, armed, asleep, err, fault,
                       origin>>
    BY <1>1 DEF Go, At, config, origin
  <1>4. s \in Created /\ \A u \in above[s] \ {s} : u \in Sessions /\ ~joined[u]
    BY <1>3, AtWork
  <1>5. /\ Root \in Sessions /\ Root \in Created /\ Root \notin Tasks /\ Tasks \subseteq Sessions
        /\ Launched \subseteq Tasks /\ Created \subseteq Sessions /\ Launched \subseteq Created
    BY Names
  <1>6. n \in Sessions /\ n # s /\ pc[n] = "none" /\ err[n] = "nil" /\ ~joined[n] /\ ~joined[s]
    BY <1>2, <1>3, <1>4, <1>5 DEF Tree, JoinsFirst
  <1>7. /\ pc'[s] = "clone" /\ \A t \in Sessions \ {s} : pc'[t] = pc[t]
        /\ owner'[n] = s /\ \A t \in Launched : owner'[t] = owner[t]
        /\ above'[n] = above[s] \cup {n} /\ \A t \in Sessions \ {n} : above'[t] = above[t]
        /\ child'[s] = n /\ \A t \in Sessions \ {s} : child'[t] = child[t]
    BY <1>2, <1>3, <1>5, <1>6 DEF TypeOK
  <1>8. active'[s] = active[s] + 1 /\ \A t \in Sessions \ {s} : active'[t] = active[t]
    BY <1>3 DEF TypeOK
  <1>9. /\ \A t \in Launched : Ended(t)' <=> Ended(t)
        /\ ~Ended(n)'
    BY <1>3, <1>5, <1>6, <1>7 DEF Ended
  <1>10. Tree'
    <2>1. above'[Root] = {Root} /\ pc'[Root] # "none"
      BY <1>1, <1>5, <1>7 DEF Tree
    <2>2. \A t \in Sessions : pc[t] # "none" => pc'[t] # "none"
      BY <1>7
    <2>3. ASSUME NEW t \in Launched
          PROVE  /\ owner'[t] \in Created' /\ owner'[t] # t
                 /\ above'[t] = above'[owner'[t]] \cup {t}
                 /\ Root \in above'[t] /\ above'[t] \subseteq Created'
                 /\ \A u \in above'[t] \ {t} :
                       pc'[u] # "none" /\ \E c \in above'[t] \cap Launched' : owner'[c] = u
      <3>1. /\ owner[t] \in Created /\ owner[t] # t
            /\ above[t] = above[owner[t]] \cup {t}
            /\ Root \in above[t] /\ above[t] \subseteq Created
            /\ \A u \in above[t] \ {t} :
                  pc[u] # "none" /\ \E c \in above[t] \cap Launched : owner[c] = u
        BY DEF Tree
      <3>2. owner'[t] = owner[t] /\ above'[t] = above[t] /\ above'[owner[t]] = above[owner[t]]
        BY <1>2, <1>5, <1>7, <3>1
      <3>3. ASSUME NEW u \in above[t] \ {t}
            PROVE  pc'[u] # "none" /\ \E c \in above[t] \cap Launched' : owner'[c] = u
        BY <1>2, <1>5, <1>7, <2>2, <3>1
      <3> QED
        BY <1>2, <3>1, <3>2, <3>3
    <2>4. /\ owner'[n] \in Created' /\ owner'[n] # n
          /\ above'[n] = above'[owner'[n]] \cup {n}
          /\ Root \in above'[n] /\ above'[n] \subseteq Created'
          /\ \A u \in above'[n] \ {n} :
                pc'[u] # "none" /\ \E c \in above'[n] \cap Launched' : owner'[c] = u
      <3>1. /\ Root \in above[s] /\ s \in above[s] /\ above[s] \subseteq Created
            /\ \A u \in above[s] \ {s} :
                 pc[u] # "none" /\ \E c \in above[s] \cap Launched : owner[c] = u
        BY <1>4, WayUp
      <3>2. ASSUME NEW u \in above[s]
            PROVE  pc'[u] # "none" /\ \E c \in above'[n] \cap Launched' : owner'[c] = u
        <4>1. CASE u = s
          BY <1>2, <1>7, <4>1
        <4>2. CASE u # s
          <5>1. pc'[u] # "none"
            BY <1>5, <2>2, <3>1, <4>2
          <5>2. PICK c \in above[s] \cap Launched : owner[c] = u
            BY <3>1, <4>2
          <5> QED
            BY <1>2, <1>7, <5>1, <5>2
        <4> QED
          BY <4>1, <4>2
      <3> QED
        BY <1>2, <1>4, <1>6, <1>7, <3>1, <3>2
    <2>5. \A t \in Tasks \ Launched' : pc'[t] = "none" /\ err'[t] = "nil" /\ ~joined'[t]
      BY <1>2, <1>3, <1>4, <1>5, <1>7 DEF Tree, Created
    <2>6. \A t \in Sessions : t \in above'[t]
      BY <1>7 DEF Tree
    <2> QED
      BY <1>2, <2>1, <2>3, <2>4, <2>5, <2>6 DEF Tree
  <1>11. Cloning'
    <2> SUFFICES ASSUME NEW t \in Sessions, pc'[t] = "clone"
                 PROVE  /\ child'[t] \in Launched' /\ owner'[child'[t]] = t
                        /\ pc'[child'[t]] = "none" /\ err[child'[t]] = "nil"
      BY <1>3 DEF Cloning
    <2>1. CASE t = s
      BY <1>2, <1>6, <1>7, <2>1
    <2>2. CASE t # s
      <3>1. /\ child[t] \in Launched /\ owner[child[t]] = t
            /\ pc[child[t]] = "none" /\ err[child[t]] = "nil"
        BY <1>7, <2>2 DEF Cloning
      <3>2. child[t] # s /\ child[t] \in Sessions
        BY <1>3, <1>5, <3>1
      <3> QED
        BY <1>2, <1>7, <2>2, <3>1, <3>2
    <2> QED
      BY <2>1, <2>2
  <1>12. ActiveCounts'
    <2> SUFFICES ASSUME NEW u \in Sessions PROVE active'[u] = Cardinality(LiveOf(u)')
      BY DEF ActiveCounts
    <2>1. CASE u = s
      <3>1. LiveOf(s)' = LiveOf(s) \cup {n} /\ n \notin LiveOf(s)
        BY <1>2, <1>7, <1>9 DEF LiveOf
      <3>2. active[s] = Cardinality(LiveOf(s)) /\ IsFiniteSet(LiveOf(s))
        BY LiveFinite DEF ActiveCounts
      <3> QED
        BY <1>8, <2>1, <3>1, <3>2, FS_AddElement
    <2>2. CASE u # s
      <3>1. LiveOf(u)' = LiveOf(u)
        BY <1>2, <1>7, <1>9, <2>2 DEF LiveOf
      <3> QED
        BY <1>8, <2>2, <3>1 DEF ActiveCounts
    <2> QED
      BY <2>1, <2>2
  <1>13. JoinsFirst'
    <2>1. ASSUME NEW t \in Sessions
          PROVE  /\ joined[t] => active'[t] = 0
                       /\ pc'[t] \in {"close", "closejoin", "shell", "finish", "arm", "over"}
                 /\ pc'[t] \in {"shell", "finish", "arm", "over"} => joined[t]
                 /\ (source \/ t = Root) /\ pc'[t] \in {"close", "closejoin"} => joined[t]
      BY <1>6, <1>7, <1>8 DEF JoinsFirst
    <2> QED
      BY <1>3, <2>1 DEF JoinsFirst
  <1>14. SubtreeOver'
    <2> SUFFICES ASSUME NEW u \in Sessions, joined[u], NEW t \in Launched', u \in above'[t] \ {t}
                 PROVE  pc'[t] \in {"none", "arm", "over"} /\ active'[t] = 0
      BY <1>3 DEF SubtreeOver
    <2>1. t # n
      BY <1>4, <1>6, <1>7
    <2>2. t \in Launched /\ t \in Sessions /\ u \in above[t] \ {t}
      BY <1>2, <1>5, <1>7, <2>1
    <2>3. pc[t] \in {"none", "arm", "over"} /\ active[t] = 0
      BY <2>2 DEF SubtreeOver
    <2> QED
      BY <1>3, <1>7, <1>8, <2>2, <2>3
  <1>15. FailuresKept'
    <2>1. ASSUME NEW u \in Sessions, NEW t \in failures[u]
          PROVE  t \in Launched' /\ owner'[t] = u /\ Ended(t)' /\ err[t] # "nil"
      BY <1>2, <1>7, <1>9 DEF FailuresKept
    <2>2. ASSUME NEW t \in Launched', Ended(t)', err[t] = "genuine"
          PROVE  t \in failures[owner'[t]]
      BY <1>2, <1>7, <1>9, <2>2 DEF FailuresKept
    <2> QED
      BY <1>3, <2>1, <2>2 DEF FailuresKept
  <1>16. Originates'
    <2>1. \A t \in Sessions : pc'[t] \in InBody <=> pc[t] \in InBody
      BY <1>3, <1>7 DEF InBody
    <2>2. \A o \in origin : o \in Sessions
      BY <1>5 DEF Originates
    <2> QED
      BY <1>2, <1>3, <1>5, <2>1, <2>2 DEF Originates
  <1>17. Reported'
    <2>1. \A o \in origin : above'[o] = above[o]
      BY <1>2, <1>5, <1>7 DEF Originates
    <2> QED
      BY <1>3, <2>1 DEF Reported
  <1>18. TypeOK'
    <2>1. next' \in 0 .. MaxTasks
      BY <1>1 DEF Tasks, TypeOK
    <2>2. active' \in [Sessions -> Nat]
      BY <1>3 DEF TypeOK
    <2>3. /\ owner' \in [Tasks -> Sessions] /\ child' \in [Sessions -> Sessions]
          /\ pc' \in [Sessions -> PCs]
      BY <1>3, <1>6 DEF TypeOK, PCs
    <2>4. above' \in [Sessions -> SUBSET Sessions]
      BY <1>3, <1>6 DEF TypeOK
    <2> QED
      BY <1>3, <2>1, <2>2, <2>3, <2>4 DEF TypeOK
  <1> QED
    BY <1>10, <1>11, <1>12, <1>13, <1>14, <1>15, <1>16, <1>17, <1>18

\* The tree outlives every step that launches nobody.
LEMMA TreeKept ==
    ASSUME IInv, UNCHANGED <<next, owner, above>>,
           \A t \in Sessions : pc[t] # "none" => pc'[t] # "none",
           \A t \in Tasks \ Launched : pc'[t] = pc[t] /\ err'[t] = err[t] /\ joined'[t] = joined[t]
    PROVE  Tree'
  <1>1. Launched' = Launched /\ Created' = Created
    BY DEF Launched, Created
  <1>2. Root \in Sessions /\ Created \subseteq Sessions
    BY Names DEF IInv
  <1>3. ASSUME NEW t \in Launched
        PROVE  /\ owner[t] \in Created /\ owner[t] # t
               /\ above[t] = above[owner[t]] \cup {t}
               /\ Root \in above[t] /\ above[t] \subseteq Created
               /\ \A u \in above[t] \ {t} :
                     pc'[u] # "none" /\ \E c \in above[t] \cap Launched : owner[c] = u
    BY <1>2 DEF IInv, Tree
  <1>4. \A t \in Tasks \ Launched : pc'[t] = "none" /\ err'[t] = "nil" /\ ~joined'[t]
    BY DEF IInv, Tree
  <1>5. above[Root] = {Root} /\ pc'[Root] # "none" /\ \A t \in Sessions : t \in above[t]
    BY <1>2 DEF IInv, Tree
  <1> QED
    BY <1>1, <1>3, <1>4, <1>5 DEF Tree

\* The clone is there: the task starts.
LEMMA GoStartIInv ==
    ASSUME IInv, NEW s \in Sessions, GoStart(s)
    PROVE  IInv'
  <1> USE DEF IInv
  <1>1. PICK c \in Launched : /\ c = child[s] /\ owner[c] = s /\ pc[c] = "none" /\ err[c] = "nil"
    BY DEF GoStart, Cloning
  <1>2. /\ pc[s] = "clone" /\ pc' = [pc EXCEPT ![s] = "ready", ![c] = "body"]
        /\ UNCHANGED <<source, ext, next, owner, above, active, failures, joined, done, closed,
                       armed, asleep, child, err, fault, origin>>
    BY <1>1 DEF GoStart, config, group, origin
  <1>3. s \in Created /\ \A u \in above[s] \ {s} : u \in Sessions /\ ~joined[u]
    BY <1>2, AtWork
  <1>4. /\ Root \in Sessions /\ Root \notin Tasks /\ Tasks \subseteq Sessions
        /\ Launched \subseteq Tasks /\ Created \subseteq Sessions
    BY Names
  <1>5. c \in Sessions /\ c # s /\ c # Root /\ ~joined[s] /\ ~joined[c] /\ c \notin origin
    BY <1>1, <1>2, <1>4 DEF JoinsFirst, Originates
  <1>6. pc'[s] = "ready" /\ pc'[c] = "body" /\ \A t \in Sessions \ {s, c} : pc'[t] = pc[t]
    BY <1>2, <1>5 DEF TypeOK
  <1>7. Launched' = Launched /\ Created' = Created
    BY <1>2 DEF Launched, Created
  <1>8. \A t \in Launched : Ended(t)' <=> Ended(t)
    BY <1>1, <1>2, <1>4, <1>6 DEF Ended
  <1>9. Tree'
    <2>1. \A t \in Sessions : pc[t] # "none" => pc'[t] # "none"
      BY <1>6
    <2>2. ASSUME NEW t \in Tasks \ Launched
          PROVE  pc'[t] = pc[t] /\ err'[t] = err[t] /\ joined'[t] = joined[t]
      BY <1>1, <1>2, <1>3, <1>4, <1>6 DEF Tree, Created
    <2> QED
      BY <1>2, <2>1, <2>2, TreeKept
  <1>10. Cloning'
    <2> SUFFICES ASSUME NEW t \in Sessions, pc'[t] = "clone"
                 PROVE  /\ child[t] \in Launched /\ owner[child[t]] = t
                        /\ pc'[child[t]] = "none" /\ err[child[t]] = "nil"
      BY <1>2, <1>7 DEF Cloning
    <2>1. t # s /\ t # c
      BY <1>6
    <2>2. /\ child[t] \in Launched /\ owner[child[t]] = t
          /\ pc[child[t]] = "none" /\ err[child[t]] = "nil"
      BY <1>6, <2>1 DEF Cloning
    <2>3. child[t] # c /\ child[t] # s /\ child[t] \in Sessions
      BY <1>1, <1>2, <1>4, <2>1, <2>2
    <2> QED
      BY <1>6, <2>2, <2>3
  <1>11. ActiveCounts'
    <2>1. \A u : LiveOf(u)' = LiveOf(u)
      BY <1>2, <1>7, <1>8 DEF LiveOf
    <2> QED
      BY <1>2, <2>1 DEF ActiveCounts
  <1>12. JoinsFirst'
    <2>1. ASSUME NEW t \in Sessions
          PROVE  /\ joined[t] => active[t] = 0
                       /\ pc'[t] \in {"close", "closejoin", "shell", "finish", "arm", "over"}
                 /\ pc'[t] \in {"shell", "finish", "arm", "over"} => joined[t]
                 /\ (source \/ t = Root) /\ pc'[t] \in {"close", "closejoin"} => joined[t]
      BY <1>5, <1>6 DEF JoinsFirst
    <2> QED
      BY <1>2, <2>1 DEF JoinsFirst
  <1>13. SubtreeOver'
    <2> SUFFICES ASSUME NEW u \in Sessions, joined[u], NEW t \in Launched, u \in above[t] \ {t}
                 PROVE  pc'[t] \in {"none", "arm", "over"} /\ active[t] = 0
      BY <1>2, <1>7 DEF SubtreeOver
    <2>1. t # c
      BY <1>1, <1>3, <1>5 DEF Tree
    <2>2. pc[t] \in {"none", "arm", "over"} /\ active[t] = 0
      BY DEF SubtreeOver
    <2> QED
      BY <1>2, <1>4, <1>6, <2>1, <2>2
  <1>14. FailuresKept'
    BY <1>2, <1>7, <1>8 DEF FailuresKept
  <1>15. Originates'
    <2>1. \A o \in Created \ {c} : pc'[o] \in InBody <=> pc[o] \in InBody
      BY <1>2, <1>4, <1>6 DEF InBody
    <2>2. Root \in Created \ {c}
      BY <1>5 DEF Created
    <2> QED
      BY <1>2, <1>5, <1>7, <2>1, <2>2 DEF Originates
  <1>16. Reported'
    BY <1>2 DEF Reported
  <1>17. TypeOK'
    <2>1. pc' \in [Sessions -> PCs]
      BY <1>2, <1>5 DEF TypeOK, PCs
    <2> QED
      BY <1>2, <2>1 DEF TypeOK
  <1> QED
    BY <1>9, <1>10, <1>11, <1>12, <1>13, <1>14, <1>15, <1>16, <1>17

\* The report of a live task c: its group loses it and keeps its failure.
LEMMA ReportCounts ==
    ASSUME IInv, NEW c \in Launched, NEW e \in Errors, ~Ended(c), Ended(c)',
           Recorded(c, e), err'[c] = e, UNCHANGED <<next, owner>>,
           \A t \in Launched \ {c} : (Ended(t)' <=> Ended(t)) /\ err'[t] = err[t]
    PROVE  /\ ActiveCounts' /\ FailuresKept'
           /\ \A t \in Sessions \ {owner[c]} : active'[t] = active[t]
           /\ active[owner[c]] # 0 /\ ~joined[owner[c]]
           /\ active' \in [Sessions -> Nat] /\ failures' \in [Sessions -> SUBSET Tasks]
           /\ done' \in [Sessions -> BOOLEAN] /\ asleep' \in [Sessions -> BOOLEAN]
           /\ e # "genuine" => done' = done
  <1> USE DEF IInv
  <1>1. PICK o \in Sessions : o = owner[c]
    BY Names DEF TypeOK
  <1>2. /\ failures' = IF e = "nil" THEN failures ELSE [failures EXCEPT ![o] = @ \cup {c}]
        /\ done' = IF e = "genuine" THEN Canceled(o) ELSE done
        /\ active' = [active EXCEPT ![o] = @ - 1]
        /\ asleep' = [asleep EXCEPT ![o] = @ /\ active'[o] # 0]
    BY <1>1 DEF Recorded
  <1>3. Launched' = Launched /\ owner' = owner /\ Launched \subseteq Tasks
    BY Names DEF Launched
  <1>4. LiveOf(o)' = LiveOf(o) \ {c} /\ c \in LiveOf(o)
    BY <1>1, <1>3 DEF LiveOf
  <1>5. \A u \in Sessions \ {o} : LiveOf(u)' = LiveOf(u)
    BY <1>1, <1>3 DEF LiveOf
  <1>6. /\ active[o] = Cardinality(LiveOf(o)) /\ IsFiniteSet(LiveOf(o)) /\ active[o] \in Nat
        /\ Cardinality(LiveOf(o)') = active[o] - 1
    <2>1. active[o] = Cardinality(LiveOf(o)) /\ IsFiniteSet(LiveOf(o)) /\ active[o] \in Nat
      BY LiveFinite DEF ActiveCounts
    <2>2. Cardinality(LiveOf(o) \ {c}) = Cardinality(LiveOf(o)) - 1
      BY <1>4, <2>1, FS_RemoveElement
    <2> QED
      BY <1>4, <2>1, <2>2
  <1>7. active[o] # 0 /\ active[o] - 1 \in Nat
    <2>1. LiveOf(o) # {}
      BY <1>4
    <2> QED
      BY <1>6, <2>1, FS_EmptySet
  <1>8. active'[o] = active[o] - 1 /\ \A t \in Sessions \ {o} : active'[t] = active[t]
    BY <1>2 DEF TypeOK
  <1>9. ActiveCounts'
    <2> SUFFICES ASSUME NEW u \in Sessions PROVE active'[u] = Cardinality(LiveOf(u)')
      BY DEF ActiveCounts
    <2> QED
      BY <1>5, <1>6, <1>8 DEF ActiveCounts
  <1>10. /\ failures' \in [Sessions -> SUBSET Tasks]
         /\ \A u \in Sessions \ {o} : failures'[u] = failures[u]
         /\ failures'[o] = IF e = "nil" THEN failures[o] ELSE failures[o] \cup {c}
    BY <1>2, <1>3 DEF TypeOK
  <1>11. FailuresKept'
    <2>1. ASSUME NEW u \in Sessions, NEW t \in failures'[u]
          PROVE  t \in Launched /\ owner[t] = u /\ Ended(t)' /\ err'[t] # "nil"
      <3>1. CASE t = c /\ t \notin failures[u]
        BY <1>1, <1>10, <3>1
      <3>2. CASE t \in failures[u]
        BY <3>2 DEF FailuresKept
      <3> QED
        BY <1>10, <3>1, <3>2
    <2>2. ASSUME NEW t \in Launched, Ended(t)', err'[t] = "genuine"
          PROVE  t \in failures'[owner[t]]
      <3>1. CASE t = c
        BY <1>1, <1>10, <2>2, <3>1
      <3>2. CASE t # c
        <4>1. t \in failures[owner[t]] /\ owner[t] \in Sessions
          BY <1>3, <2>2, <3>2 DEF FailuresKept, TypeOK
        <4> QED
          BY <1>10, <4>1
      <3> QED
        BY <3>1, <3>2
    <2> QED
      BY <1>3, <2>1, <2>2 DEF FailuresKept
  <1>12. active' \in [Sessions -> Nat]
    BY <1>2, <1>7 DEF TypeOK
  <1>13. done' \in [Sessions -> BOOLEAN]
    BY <1>2, Flags DEF Canceled
  <1>14. asleep' \in [Sessions -> BOOLEAN]
    BY <1>2, Flags
  <1>15. ~joined[o]
    BY <1>7 DEF JoinsFirst
  <1> QED
    BY <1>1, <1>2, <1>7, <1>8, <1>9, <1>10, <1>11, <1>12, <1>13, <1>14, <1>15

\* The launcher reports for a task it could not clone.
LEMMA GoUnclonedIInv ==
    ASSUME IInv, NEW s \in Sessions, GoUncloned(s)
    PROVE  IInv'
  <1> USE DEF IInv
  <1>1. PICK c \in Launched : /\ c = child[s] /\ owner[c] = s /\ pc[c] = "none" /\ err[c] = "nil"
    BY DEF GoUncloned, At, Cloning
  <1>2. /\ pc[s] = "clone" /\ pc' = [pc EXCEPT ![s] = "body"]
        /\ err' = [err EXCEPT ![c] = "genuine"] /\ Recorded(c, "genuine")
        /\ origin' = origin \cup {c} /\ fault' \in [Sessions -> {"none", "genuine", "masked"}]
        /\ UNCHANGED <<source, ext, next, owner, above, joined, closed, armed, child>>
    <2>1. fault' = [fault EXCEPT ![c] = "genuine"] /\ c \in Sessions
      BY <1>1, Names DEF GoUncloned
    <2>2. origin' = origin \cup {c} /\ fault' \in [Sessions -> {"none", "genuine", "masked"}]
      BY <2>1 DEF TypeOK, origin
    <2> QED
      BY <1>1, <2>2 DEF GoUncloned, At, config
  <1>3. s \in Created /\ \A u \in above[s] \ {s} : u \in Sessions /\ ~joined[u]
    BY <1>2, AtWork
  <1>4. /\ Root \in Sessions /\ Root \notin Tasks /\ Tasks \subseteq Sessions
        /\ Launched \subseteq Tasks /\ Created \subseteq Sessions /\ Launched \subseteq Created
    BY Names
  <1>5. c \in Sessions /\ c # s /\ c # Root /\ ~joined[s] /\ ~joined[c] /\ s \notin origin
    BY <1>1, <1>2, <1>4 DEF JoinsFirst, Originates, InBody
  <1>6. /\ pc'[s] = "body" /\ \A t \in Sessions \ {s} : pc'[t] = pc[t]
        /\ err'[c] = "genuine" /\ \A t \in Sessions \ {c} : err'[t] = err[t]
    BY <1>2, <1>5 DEF TypeOK
  <1>7. Launched' = Launched /\ Created' = Created
    BY <1>2 DEF Launched, Created
  <1>8. /\ ~Ended(c) /\ Ended(c)'
        /\ \A t \in Launched \ {c} : (Ended(t)' <=> Ended(t)) /\ err'[t] = err[t]
    BY <1>1, <1>2, <1>4, <1>5, <1>6 DEF Ended
  <1>9. /\ ActiveCounts' /\ FailuresKept'
        /\ \A t \in Sessions \ {s} : active'[t] = active[t]
        /\ active' \in [Sessions -> Nat] /\ failures' \in [Sessions -> SUBSET Tasks]
        /\ done' \in [Sessions -> BOOLEAN] /\ asleep' \in [Sessions -> BOOLEAN]
    BY <1>1, <1>2, <1>6, <1>8, ReportCounts DEF Errors
  <1>10. Tree'
    <2>1. \A t \in Sessions : pc[t] # "none" => pc'[t] # "none"
      BY <1>6
    <2>2. ASSUME NEW t \in Tasks \ Launched
          PROVE  pc'[t] = pc[t] /\ err'[t] = err[t] /\ joined'[t] = joined[t]
      BY <1>1, <1>2, <1>3, <1>4, <1>6 DEF Tree, Created
    <2> QED
      BY <1>2, <2>1, <2>2, TreeKept
  <1>11. Cloning'
    <2> SUFFICES ASSUME NEW t \in Sessions, pc'[t] = "clone"
                 PROVE  /\ child[t] \in Launched /\ owner[child[t]] = t
                        /\ pc'[child[t]] = "none" /\ err'[child[t]] = "nil"
      BY <1>2, <1>7 DEF Cloning
    <2>1. t # s
      BY <1>6
    <2>2. /\ child[t] \in Launched /\ owner[child[t]] = t
          /\ pc[child[t]] = "none" /\ err[child[t]] = "nil"
      BY <1>6, <2>1 DEF Cloning
    <2>3. child[t] # c /\ child[t] # s /\ child[t] \in Sessions
      BY <1>1, <1>2, <1>4, <2>1, <2>2
    <2> QED
      BY <1>6, <2>2, <2>3
  <1>12. JoinsFirst'
    <2>1. ASSUME NEW t \in Sessions
          PROVE  /\ joined[t] => active'[t] = 0
                       /\ pc'[t] \in {"close", "closejoin", "shell", "finish", "arm", "over"}
                 /\ pc'[t] \in {"shell", "finish", "arm", "over"} => joined[t]
                 /\ (source \/ t = Root) /\ pc'[t] \in {"close", "closejoin"} => joined[t]
      BY <1>5, <1>6, <1>9 DEF JoinsFirst
    <2> QED
      BY <1>2, <2>1 DEF JoinsFirst
  <1>13. SubtreeOver'
    <2> SUFFICES ASSUME NEW u \in Sessions, joined[u], NEW t \in Launched, u \in above[t] \ {t}
                 PROVE  pc'[t] \in {"none", "arm", "over"} /\ active'[t] = 0
      BY <1>2, <1>7 DEF SubtreeOver
    <2>1. pc[t] \in {"none", "arm", "over"} /\ active[t] = 0
      BY DEF SubtreeOver
    <2> QED
      BY <1>2, <1>4, <1>6, <1>9, <2>1
  <1>14. Originates'
    <2>1. \A o \in origin' : err'[o] = "genuine" /\ pc'[o] \notin InBody
      BY <1>1, <1>2, <1>4, <1>5, <1>6 DEF Originates, InBody
    <2> QED
      BY <1>2, <1>4, <1>7, <2>1 DEF Originates
  <1>15. Reported'
    <2> SUFFICES ASSUME source, NEW o \in origin', NEW u \in above[o], joined[u]
                 PROVE  err'[u] = "genuine"
      BY <1>2 DEF Reported
    <2>1. o # c
      BY <1>1, <1>3, <1>5 DEF Tree
    <2>2. err[u] = "genuine" /\ o \in Sessions
      BY <1>2, <1>4, <2>1 DEF Reported, Originates
    <2>3. u \in Sessions
      BY <2>2 DEF TypeOK
    <2> QED
      BY <1>6, <2>2, <2>3
  <1>16. TypeOK'
    <2>1. pc' \in [Sessions -> PCs] /\ err' \in [Sessions -> Errors]
      BY <1>2, <1>5 DEF TypeOK, PCs, Errors
    <2>2. \A f \in {done', joined', closed', armed', asleep'} : f \in [Sessions -> BOOLEAN]
      BY <1>2, <1>9, Flags
    <2> QED
      BY <1>2, <1>9, <2>1, <2>2 DEF TypeOK
  <1> QED
    BY <1>9, <1>10, <1>11, <1>12, <1>13, <1>14, <1>15, <1>16

\* A task reports to its owner's group.
LEMMA FinishIInv ==
    ASSUME IInv, NEW t \in Tasks, Finish(t)
    PROVE  IInv'
  <1> USE DEF IInv
  <1>1. PICK e \in Errors : e = err[t]
    BY Names DEF TypeOK
  <1>2. /\ pc[t] = "finish" /\ pc' = [pc EXCEPT ![t] = "arm"]
        /\ Recorded(t, e)
        /\ UNCHANGED <<source, ext, next, owner, above, joined, closed, armed, child, err,
                       fault, origin>>
    BY <1>1 DEF Finish, At, config, origin
  <1>3. /\ Root \in Sessions /\ Root \notin Tasks /\ Tasks \subseteq Sessions
        /\ Launched \subseteq Tasks /\ Created \subseteq Sessions
    BY Names
  <1>4. t \in Launched /\ t \in Sessions /\ t # Root /\ joined[t]
    BY <1>2, <1>3 DEF Tree, JoinsFirst
  <1>5. pc'[t] = "arm" /\ \A u \in Sessions \ {t} : pc'[u] = pc[u]
    BY <1>2, <1>4 DEF TypeOK
  <1>6. Launched' = Launched /\ Created' = Created
    BY <1>2 DEF Launched, Created
  <1>7. /\ ~Ended(t) /\ Ended(t)'
        /\ \A u \in Launched \ {t} : (Ended(u)' <=> Ended(u)) /\ err'[u] = err[u]
    BY <1>2, <1>3, <1>5 DEF Ended
  <1>8. /\ ActiveCounts' /\ FailuresKept'
        /\ \A u \in Sessions \ {owner[t]} : active'[u] = active[u]
        /\ active[owner[t]] # 0 /\ ~joined[owner[t]]
        /\ active' \in [Sessions -> Nat] /\ failures' \in [Sessions -> SUBSET Tasks]
        /\ done' \in [Sessions -> BOOLEAN] /\ asleep' \in [Sessions -> BOOLEAN]
        /\ e # "genuine" => done' = done
    BY <1>1, <1>2, <1>4, <1>7, ReportCounts
  <1>9. Tree'
    <2>1. \A u \in Sessions : pc[u] # "none" => pc'[u] # "none"
      BY <1>5
    <2>2. ASSUME NEW u \in Tasks \ Launched
          PROVE  pc'[u] = pc[u] /\ err'[u] = err[u] /\ joined'[u] = joined[u]
      BY <1>2, <1>3, <1>4, <1>5 DEF Tree, Created
    <2> QED
      BY <1>2, <2>1, <2>2, TreeKept
  <1>10. Cloning'
    <2> SUFFICES ASSUME NEW u \in Sessions, pc'[u] = "clone"
                 PROVE  /\ child[u] \in Launched /\ owner[child[u]] = u
                        /\ pc'[child[u]] = "none" /\ err[child[u]] = "nil"
      BY <1>2, <1>6 DEF Cloning
    <2>1. /\ child[u] \in Launched /\ owner[child[u]] = u
          /\ pc[child[u]] = "none" /\ err[child[u]] = "nil"
      BY <1>5 DEF Cloning
    <2> QED
      BY <1>2, <1>3, <1>5, <2>1
  <1>11. JoinsFirst'
    <2>1. ASSUME NEW u \in Sessions
          PROVE  /\ joined[u] => active'[u] = 0
                       /\ pc'[u] \in {"close", "closejoin", "shell", "finish", "arm", "over"}
                 /\ pc'[u] \in {"shell", "finish", "arm", "over"} => joined[u]
                 /\ (source \/ u = Root) /\ pc'[u] \in {"close", "closejoin"} => joined[u]
      BY <1>4, <1>5, <1>8 DEF JoinsFirst
    <2> QED
      BY <1>2, <2>1 DEF JoinsFirst
  <1>12. SubtreeOver'
    <2> SUFFICES ASSUME NEW u \in Sessions, joined[u], NEW v \in Launched, u \in above[v] \ {v}
                 PROVE  pc'[v] \in {"none", "arm", "over"} /\ active'[v] = 0
      BY <1>2, <1>6 DEF SubtreeOver
    <2>1. pc[v] \in {"none", "arm", "over"} /\ active[v] = 0
      BY DEF SubtreeOver
    <2> QED
      BY <1>2, <1>3, <1>5, <1>8, <2>1
  <1>13. Originates'
    <2>1. \A o \in origin : pc'[o] \in InBody => pc[o] \in InBody
      BY <1>2, <1>3, <1>5 DEF Originates, InBody
    <2>2. pc'[Root] = pc[Root]
      BY <1>3, <1>4, <1>5
    <2>3. origin # {} \/ done' = done
      BY <1>1, <1>4, <1>8 DEF Originates
    <2> QED
      BY <1>2, <1>6, <2>1, <2>2, <2>3 DEF Originates
  <1>14. Reported'
    BY <1>2 DEF Reported
  <1>15. TypeOK'
    <2>1. pc' \in [Sessions -> PCs]
      BY <1>2, <1>4 DEF TypeOK, PCs
    <2>2. \A f \in {done', joined', closed', armed', asleep'} : f \in [Sessions -> BOOLEAN]
      BY <1>2, <1>8, Flags
    <2> QED
      BY <1>2, <1>8, <2>1, <2>2 DEF TypeOK
  <1> QED
    BY <1>8, <1>9, <1>10, <1>11, <1>12, <1>13, <1>14, <1>15

-----------------------------------------------------------------------------
\* IInv is an inductive invariant.
THEOREM Inductive == Spec => []IInv
  <1>1. Init => IInv
    BY InitIInv
  <1>2. IInv /\ [Next]_vars => IInv'
    <2> SUFFICES ASSUME IInv, [Next]_vars PROVE IInv'
      OBVIOUS
    <2>0. Root \in Sessions /\ Tasks \subseteq Sessions
      BY Names DEF IInv
    <2>1. ASSUME NEW s \in Sessions, Go(s) \/ BodyBlocks(s) \/ BodyUnblocked(s) \/ Step(s)
          PROVE  IInv'
      <3>1. CASE Go(s)
        BY <3>1, GoIInv
      <3>2. CASE GoReady(s) \/ BodyBlocks(s) \/ BodyUnblocked(s) \/ JoinWaits(s) \/ Close(s)
                 \/ ShellArms(s)
        BY <3>2, QuietIInv
      <3>3. CASE GoUncloned(s)
        BY <3>3, GoUnclonedIInv
      <3>4. CASE GoStart(s)
        BY <3>4, GoStartIInv
      <3>5. CASE BodyReturns(s) \/ BodyFails(s) \/ BodyCanceled(s)
        BY <3>5, EndBodyIInv
      <3>6. CASE SourceJoin(s) \/ CloseJoin(s)
        BY <3>6, JoinIInv
      <3>7. CASE ShellClosed(s)
        BY <3>7, ShellClosedIInv
      <3> QED
        BY <2>1, <3>1, <3>2, <3>3, <3>4, <3>5, <3>6, <3>7 DEF Step
    <2>2. ASSUME NEW t \in Tasks, TaskEnd(t) PROVE IInv'
      <3>1. CASE Finish(t)
        BY <3>1, FinishIInv
      <3>2. CASE FinishArms(t)
        BY <2>0, <3>2, QuietIInv
      <3> QED
        BY <2>2, <3>1, <3>2 DEF TaskEnd
    <2>3. CASE HostCancel \/ UNCHANGED vars
      BY <2>0, <2>3, QuietIInv
    <2> QED
      BY <2>1, <2>2, <2>3 DEF Next
  <1> QED
    BY <1>1, <1>2, PTL DEF Spec

\* Type correctness.
THEOREM TypeCorrect == Spec => []TypeOK
  <1>1. IInv => TypeOK
    BY DEF IInv
  <1> QED
    BY <1>1, Inductive, PTL

\* Session.Join waits for the whole subtree, however deep and however many
\* the tasks: of the tasks below a joined session none still works.
THEOREM JoinReachesAll == Spec => []SubtreeOver
  <1>1. IInv => SubtreeOver
    BY DEF IInv
  <1> QED
    BY <1>1, Inductive, PTL

\* Program.Run of source tasks reports the failure of a body, a clone or a
\* shell that happened anywhere, and does not report the cancellation of its own
\* shutdown.  The failure of a shell whose session had already ended canceled is
\* in the history as "masked" and is excepted: the code drops it.
THEOREM OutcomeReported == Spec => []Outcome
  <1>1. IInv => Outcome
    <2> SUFFICES ASSUME IInv, source, pc[Root] = "over"
                 PROVE  /\ origin # {} => err[Root] = "genuine"
                        /\ origin = {} /\ ~ext => err[Root] \in {"nil", "deadline"}
      BY DEF Outcome
    <2>1. joined[Root]
      BY Names DEF IInv, JoinsFirst
    <2>2. ASSUME NEW o \in origin PROVE err[Root] = "genuine"
      <3>1. o \in Created
        BY DEF IInv, Originates
      <3> QED
        BY <2>1, <3>1, WayUp DEF IInv, Reported
    <2> QED
      BY <2>2 DEF IInv, Originates
  <1> QED
    BY <1>1, Inductive, PTL

-----------------------------------------------------------------------------
(* Every session's group is a structured group.                            *)

\* The phases and the failures that Group(g) substitutes.
PhaseOf(g) == [t \in Tasks |->
                 IF t > next \/ owner[t] # g THEN "none"
                 ELSE IF pc[t] \in {"arm", "over"} \/ (pc[t] = "none" /\ err[t] # "nil")
                      THEN "ended" ELSE "live"]

FailedOf(g) == {t \in failures[g] : err[t] = "genuine"}

\* The phases in terms of the inductive invariant.
LEMMA Phases ==
    ASSUME IInv, NEW g
    PROVE  \A t \in Tasks :
             PhaseOf(g)[t] = IF t \notin Launched \/ owner[t] # g THEN "none"
                             ELSE IF Ended(t) THEN "ended" ELSE "live"
  <1>1. \A t \in Tasks : t > next <=> t \notin Launched
    BY SessionAssumption DEF IInv, TypeOK, Tasks, Launched
  <1> QED
    BY <1>1 DEF PhaseOf, Ended

\* A step that changes no phase and records nothing stutters or cancels.
LEMMA GroupQuiet ==
    ASSUME NEW g \in Sessions, PhaseOf(g)' = PhaseOf(g), FailedOf(g)' = FailedOf(g),
           joined'[g] = joined[g], done'[g] = done[g] \/ done'[g] = TRUE
    PROVE  [Group(g)!Next]_(Group(g)!vars)
  <1>1. CASE done'[g] = done[g]
    BY <1>1 DEF Group!vars, PhaseOf, FailedOf
  <1>2. CASE done'[g] = TRUE
    <2>1. Group(g)!Cancel
      BY <1>2 DEF Group!Cancel, PhaseOf, FailedOf
    <2> QED
      BY <2>1 DEF Group!Next
  <1> QED
    BY <1>1, <1>2

\* Contexts only ever become done.
LEMMA DoneOnly ==
    ASSUME IInv, NEW s \in Sessions, done' = done \/ done' = Canceled(s), NEW g \in Sessions
    PROVE  /\ done'[g] = done[g] \/ done'[g] = TRUE
           /\ done' = Canceled(s) /\ s \in above[g] => done'[g] = TRUE
  <1>1. done[g] \in BOOLEAN
    BY Flags DEF IInv
  <1> QED
    BY <1>1 DEF Canceled

\* A step that launches and ends nobody leaves phases and failures alone.
LEMMA SamePhases ==
    ASSUME IInv, UNCHANGED <<next, owner, failures>>, NEW g \in Sessions,
           \A t \in Launched : (Ended(t)' <=> Ended(t)) /\ (Ended(t) => err'[t] = err[t])
    PROVE  PhaseOf(g)' = PhaseOf(g) /\ FailedOf(g)' = FailedOf(g)
  <1>1. FailedOf(g)' = FailedOf(g)
    <2>1. \A t \in failures[g] : err'[t] = err[t]
      BY DEF IInv, FailuresKept
    <2> QED
      BY <2>1 DEF FailedOf
  <1>2. \A t \in Tasks : t > next <=> t \notin Launched
    BY SessionAssumption DEF IInv, TypeOK, Tasks, Launched
  <1>3. ASSUME NEW t \in Tasks PROVE PhaseOf(g)'[t] = PhaseOf(g)[t]
    BY <1>2 DEF PhaseOf, Ended
  <1> QED
    BY <1>1, <1>3 DEF PhaseOf

\* The steps within a session, and the start of a task, end nobody.
LEMMA LocalPhases ==
    ASSUME IInv, NEW s \in Sessions,
           \/ GoStart(s) \/ GoReady(s) \/ BodyBlocks(s) \/ BodyUnblocked(s) \/ JoinWaits(s)
           \/ Close(s) \/ ShellArms(s) \/ (s \in Tasks /\ FinishArms(s))
           \/ (s = Root /\ (HostCancel \/ UNCHANGED vars))
           \/ BodyReturns(s) \/ BodyFails(s) \/ BodyCanceled(s) \/ ShellClosed(s)
           \/ SourceJoin(s) \/ CloseJoin(s)
    PROVE  /\ UNCHANGED <<next, owner, failures>>
           /\ \A t \in Launched : (Ended(t)' <=> Ended(t)) /\ (Ended(t) => err'[t] = err[t])
           /\ done' = done \/ done' = Canceled(s)
  <1> USE DEF At, config, group, IInv
  <1>0. Launched \subseteq Sessions /\ Root \notin Launched
    BY Names
  <1>1. CASE GoReady(s) \/ BodyBlocks(s) \/ BodyUnblocked(s) \/ JoinWaits(s) \/ Close(s)
             \/ ShellArms(s) \/ (s \in Tasks /\ FinishArms(s))
             \/ (s = Root /\ (HostCancel \/ UNCHANGED vars))
    <2>1. err' = err /\ UNCHANGED <<next, owner, failures>>
      BY <1>1 DEF GoReady, BodyBlocks, BodyUnblocked, JoinWaits, Close, ShellArms, FinishArms,
                  HostCancel, vars
    <2>2. done' = done \/ done' = Canceled(s)
      BY <1>1 DEF GoReady, BodyBlocks, BodyUnblocked, JoinWaits, Close, ShellArms, FinishArms,
                  HostCancel, vars
    <2>3. \/ pc' = pc
          \/ \E to \in {"body", "blocked", "closejoin"} :
               /\ pc' = [pc EXCEPT ![s] = to] /\ pc[s] \notin {"none", "arm", "over"}
          \/ pc' = [pc EXCEPT ![s] = "over"] /\ pc[s] = "arm"
      BY <1>1 DEF GoReady, BodyBlocks, BodyUnblocked, JoinWaits, Close, ShellArms, FinishArms,
                  HostCancel, vars
    <2>4. ASSUME NEW t \in Launched PROVE Ended(t)' <=> Ended(t)
      BY <1>0, <2>1, <2>3 DEF Ended, TypeOK
    <2> QED
      BY <2>1, <2>2, <2>4
  <1>2. CASE GoStart(s)
    <2>1. PICK c \in Launched : c = child[s] /\ pc[c] = "none" /\ err[c] = "nil"
      BY <1>2 DEF GoStart, Cloning
    <2>2. /\ pc' = [pc EXCEPT ![s] = "ready", ![c] = "body"] /\ pc[s] = "clone"
          /\ UNCHANGED <<next, owner, failures, err, done>>
      BY <1>2, <2>1 DEF GoStart
    <2>3. ASSUME NEW t \in Launched PROVE Ended(t)' <=> Ended(t)
      BY <1>0, <2>1, <2>2 DEF Ended, TypeOK
    <2> QED
      BY <2>2, <2>3
  <1>3. CASE BodyReturns(s) \/ BodyFails(s) \/ BodyCanceled(s) \/ ShellClosed(s)
             \/ SourceJoin(s) \/ CloseJoin(s)
    <2>1. UNCHANGED <<next, owner, failures>>
      BY <1>3 DEF BodyReturns, BodyFails, BodyCanceled, EndBody, ShellClosed, SourceJoin, CloseJoin
    <2>2. done' = done \/ done' = Canceled(s)
      BY <1>3 DEF BodyReturns, BodyFails, BodyCanceled, EndBody, ShellClosed, SourceJoin, CloseJoin
    <2>3. \E e : err' = [err EXCEPT ![s] = e]
      <3>1. err = [err EXCEPT ![s] = err[s]]
        BY DEF TypeOK
      <3> QED
        BY <1>3, <3>1
           DEF BodyReturns, BodyFails, BodyCanceled, EndBody, ShellClosed, SourceJoin, CloseJoin
    <2>4. \E to \in {"join", "close", "shell", "finish", "over"} :
            /\ pc' = [pc EXCEPT ![s] = to] /\ pc[s] \notin {"none", "arm", "over"}
            /\ s # Root => to # "over"
      BY <1>3 DEF BodyReturns, BodyFails, BodyCanceled, EndBody, AfterBody, ShellClosed,
                  SourceJoin, CloseJoin
    <2>5. ASSUME NEW t \in Launched
          PROVE  (Ended(t)' <=> Ended(t)) /\ (Ended(t) => err'[t] = err[t])
      <3>1. CASE t = s
        BY <1>0, <2>4, <3>1 DEF Ended, TypeOK
      <3>2. CASE t # s
        BY <1>0, <2>3, <2>4, <3>2 DEF Ended, TypeOK
      <3> QED
        BY <3>1, <3>2
    <2> QED
      BY <2>1, <2>2, <2>5
  <1> QED
    BY <1>1, <1>2, <1>3

\* The join of a session joins its group, the first time, and no other.
LEMMA JoinsGroup ==
    ASSUME IInv, NEW s \in Sessions, SourceJoin(s) \/ CloseJoin(s), NEW g \in Sessions
    PROVE  [Group(g)!Next]_(Group(g)!vars)
  <1>1. PhaseOf(g)' = PhaseOf(g) /\ FailedOf(g)' = FailedOf(g) /\ done' = done
    BY LocalPhases, SamePhases DEF SourceJoin, CloseJoin
  <1>2. active[s] = 0 /\ joined' = [joined EXCEPT ![s] = TRUE] /\ joined \in [Sessions -> BOOLEAN]
    BY Flags DEF SourceJoin, CloseJoin, JoinDone, Set, IInv
  <1>3. CASE g # s \/ joined[s]
    <2>1. joined'[g] = joined[g]
      BY <1>2, <1>3
    <2> QED
      BY <1>1, <2>1, GroupQuiet
  <1>4. CASE g = s /\ ~joined[s]
    <2>1. LiveOf(s) = {}
      BY <1>2, LiveFinite, FS_EmptySet DEF ActiveCounts, IInv
    <2>2. \A t \in Tasks : PhaseOf(g)[t] # "live"
      BY <1>4, <2>1, Phases DEF LiveOf
    <2>3. joined'[g] = TRUE /\ ~joined[g]
      BY <1>2, <1>4
    <2>4. Group(g)!Join
      BY <1>1, <2>2, <2>3 DEF Group!Join, PhaseOf, FailedOf
    <2> QED
      BY <2>4 DEF Group!Next
  <1> QED
    BY <1>3, <1>4

\* Session.Go launches the next task of its group.
LEMMA GoLaunches ==
    ASSUME IInv, NEW s \in Sessions, Go(s), NEW g \in Sessions
    PROVE  [Group(g)!Next]_(Group(g)!vars)
  <1> USE DEF IInv
  <1>1. PICK n \in Tasks : n = next + 1 /\ n = next'
    BY SessionAssumption DEF Go, TypeOK, Tasks
  <1>2. /\ Launched' = Launched \cup {n} /\ n \notin Launched
        /\ \A u \in Tasks : u > n => u \notin Launched
        /\ \A u \in Tasks : u > next' <=> u \notin Launched'
    BY <1>1, SessionAssumption DEF TypeOK, Launched, Tasks
  <1>3. /\ pc[s] = "body" /\ pc' = [pc EXCEPT ![s] = "clone"]
        /\ owner' = [owner EXCEPT ![n] = s] /\ ~joined[s] /\ ~done[s]
        /\ UNCHANGED <<failures, joined, done, err>>
    BY <1>1 DEF Go, At
  <1>4. FailedOf(g)' = FailedOf(g)
    BY <1>3 DEF FailedOf
  <1>5. Launched \subseteq Sessions /\ n \in Sessions /\ Launched \subseteq Tasks
    BY Names
  <1>6. pc[n] = "none" /\ err[n] = "nil" /\ n # s
    BY <1>2, <1>3 DEF Tree
  <1>7. owner'[n] = s /\ \A t \in Tasks \ {n} : owner'[t] = owner[t]
    BY <1>3 DEF TypeOK
  <1>8. (\A t \in Launched : Ended(t)' <=> Ended(t)) /\ ~Ended(n)'
    BY <1>3, <1>5, <1>6 DEF Ended, TypeOK
  <1>9. \A t \in Tasks : PhaseOf(g)'[t] = IF t \notin Launched' \/ owner'[t] # g THEN "none"
                                          ELSE IF Ended(t)' THEN "ended" ELSE "live"
    BY <1>2 DEF PhaseOf, Ended
  <1>10. CASE g = s
    <2>1. PhaseOf(g)[n] = "none" /\ \A u \in Tasks : u > n => PhaseOf(g)[u] = "none"
      BY <1>2, Phases
    <2>2. ASSUME NEW t \in Tasks
          PROVE  PhaseOf(g)'[t] = [PhaseOf(g) EXCEPT ![n] = "live"][t]
      <3>1. PhaseOf(g)[t] = IF t \notin Launched \/ owner[t] # g THEN "none"
                            ELSE IF Ended(t) THEN "ended" ELSE "live"
        BY Phases
      <3>2. n \in DOMAIN PhaseOf(g) /\ t \in DOMAIN PhaseOf(g)
        BY DEF PhaseOf
      <3>3. CASE t = n
        BY <1>2, <1>7, <1>8, <1>9, <1>10, <3>2, <3>3
      <3>4. CASE t # n
        BY <1>2, <1>7, <1>8, <1>9, <3>1, <3>2, <3>4
      <3> QED
        BY <3>3, <3>4
    <2>3. PhaseOf(g)' = [PhaseOf(g) EXCEPT ![n] = "live"]
      BY <2>2 DEF PhaseOf
    <2>4. Group(g)!Launch(n)
      BY <1>3, <1>4, <1>10, <2>1, <2>3 DEF Group!Launch, Group!Move, PhaseOf, FailedOf
    <2> QED
      BY <2>4 DEF Group!Next
  <1>11. CASE g # s
    <2>1. ASSUME NEW t \in Tasks PROVE PhaseOf(g)'[t] = PhaseOf(g)[t]
      BY <1>2, <1>7, <1>8, <1>9, <1>11, Phases
    <2>2. PhaseOf(g)' = PhaseOf(g)
      BY <2>1 DEF PhaseOf
    <2> QED
      BY <1>3, <1>4, <2>2, GroupQuiet
  <1> QED
    BY <1>10, <1>11

\* A report ends its task, and a genuine failure fails it and cancels the group.
LEMMA ReportEnds ==
    ASSUME IInv, NEW c \in Launched, NEW e \in Errors, ~Ended(c), Ended(c)',
           Recorded(c, e), err'[c] = e, UNCHANGED <<next, owner, above, joined>>,
           \A t \in Launched \ {c} : (Ended(t)' <=> Ended(t)) /\ err'[t] = err[t],
           NEW g \in Sessions
    PROVE  [Group(g)!Next]_(Group(g)!vars)
  <1> USE DEF IInv
  <1>1. PICK o \in Sessions : o = owner[c]
    BY Names DEF TypeOK
  <1>2. /\ failures' = IF e = "nil" THEN failures ELSE [failures EXCEPT ![o] = @ \cup {c}]
        /\ done' = IF e = "genuine" THEN Canceled(o) ELSE done
    BY <1>1 DEF Recorded
  <1>3. /\ Launched' = Launched /\ c \in Tasks
        /\ \A u \in Tasks : u > next <=> u \notin Launched
    BY Names, SessionAssumption DEF Launched, TypeOK, Tasks
  <1>4. /\ \A u \in Sessions \ {o} : failures'[u] = failures[u]
        /\ failures'[o] = IF e = "nil" THEN failures[o] ELSE failures[o] \cup {c}
    BY <1>2 DEF TypeOK
  <1>5. \A u \in Sessions : \A t \in failures[u] : t # c /\ err'[t] = err[t]
    BY DEF FailuresKept
  <1>6. \A t \in Tasks : PhaseOf(g)'[t] = IF t \notin Launched \/ owner[t] # g THEN "none"
                                          ELSE IF Ended(t)' THEN "ended" ELSE "live"
    BY <1>3 DEF PhaseOf, Ended
  <1>7. done' = done \/ done' = Canceled(o)
    BY <1>2
  <1>8. CASE g # o
    <2>1. ASSUME NEW t \in Tasks PROVE PhaseOf(g)'[t] = PhaseOf(g)[t]
      BY <1>1, <1>6, <1>8, Phases
    <2>2. PhaseOf(g)' = PhaseOf(g)
      BY <2>1 DEF PhaseOf
    <2>3. FailedOf(g)' = FailedOf(g)
      BY <1>4, <1>5, <1>8 DEF FailedOf
    <2>4. done'[g] = done[g] \/ done'[g] = TRUE
      BY <1>7, DoneOnly
    <2> QED
      BY <2>2, <2>3, <2>4, GroupQuiet
  <1>9. CASE g = o
    <2>1. PhaseOf(g)[c] = "live"
      BY <1>1, <1>3, <1>9, Phases
    <2>2. ASSUME NEW t \in Tasks
          PROVE  PhaseOf(g)'[t] = [PhaseOf(g) EXCEPT ![c] = "ended"][t]
      <3>1. PhaseOf(g)[t] = IF t \notin Launched \/ owner[t] # g THEN "none"
                            ELSE IF Ended(t) THEN "ended" ELSE "live"
        BY Phases
      <3>2. c \in DOMAIN PhaseOf(g) /\ t \in DOMAIN PhaseOf(g)
        BY <1>3 DEF PhaseOf
      <3> QED
        BY <1>1, <1>3, <1>6, <1>9, <3>1, <3>2
    <2>3. PhaseOf(g)' = [PhaseOf(g) EXCEPT ![c] = "ended"]
      BY <2>2 DEF PhaseOf
    <2>4. CASE e = "genuine"
      <3>1. FailedOf(g)' = FailedOf(g) \cup {c}
        BY <1>4, <1>5, <1>9, <2>4 DEF FailedOf
      <3>2. done'[g] = TRUE
        BY <1>2, <1>7, <1>9, <2>4, DoneOnly DEF Tree
      <3>3. Group(g)!Fail(c)
        BY <2>1, <2>3, <3>1, <3>2 DEF Group!Fail, Group!Move, PhaseOf, FailedOf
      <3> QED
        BY <1>3, <3>3 DEF Group!Next
    <2>5. CASE e # "genuine"
      <3>1. FailedOf(g)' = FailedOf(g)
        BY <1>4, <1>5, <1>9, <2>5 DEF FailedOf
      <3>2. Group(g)!End(c)
        BY <1>2, <2>1, <2>3, <2>5, <3>1 DEF Group!End, Group!Move, PhaseOf, FailedOf
      <3> QED
        BY <1>3, <3>2 DEF Group!Next
    <2> QED
      BY <2>4, <2>5
  <1> QED
    BY <1>8, <1>9

\* Every step is a step of every group, or leaves it alone.
LEMMA NextImplements ==
    ASSUME IInv, [Next]_vars, NEW g \in Sessions
    PROVE  [Group(g)!Next]_(Group(g)!vars)
  <1>0. /\ Root \in Sessions /\ Tasks \subseteq Sessions /\ Launched \subseteq Tasks
        /\ Launched \subseteq Sessions
    BY Names DEF IInv
  <1>1. ASSUME NEW s \in Sessions,
               \/ GoStart(s) \/ GoReady(s) \/ BodyBlocks(s) \/ BodyUnblocked(s) \/ JoinWaits(s)
               \/ Close(s) \/ ShellArms(s) \/ (s \in Tasks /\ FinishArms(s))
               \/ (s = Root /\ (HostCancel \/ UNCHANGED vars))
               \/ BodyReturns(s) \/ BodyFails(s) \/ BodyCanceled(s) \/ ShellClosed(s)
        PROVE  [Group(g)!Next]_(Group(g)!vars)
    <2>1. /\ UNCHANGED <<next, owner, failures>>
          /\ \A t \in Launched : (Ended(t)' <=> Ended(t)) /\ (Ended(t) => err'[t] = err[t])
          /\ done' = done \/ done' = Canceled(s)
      BY <1>1, LocalPhases
    <2>2. joined' = joined
      BY <1>1 DEF GoStart, GoReady, BodyBlocks, BodyUnblocked, JoinWaits, Close, ShellArms,
                  FinishArms, HostCancel, vars, BodyReturns, BodyFails, BodyCanceled, EndBody,
                  ShellClosed, group
    <2>3. PhaseOf(g)' = PhaseOf(g) /\ FailedOf(g)' = FailedOf(g)
      BY <2>1, SamePhases
    <2>4. done'[g] = done[g] \/ done'[g] = TRUE
      BY <2>1, DoneOnly
    <2> QED
      BY <2>2, <2>3, <2>4, GroupQuiet
  <1>2. ASSUME NEW s \in Sessions, GoUncloned(s) PROVE [Group(g)!Next]_(Group(g)!vars)
    <2>1. PICK c \in Launched : c = child[s] /\ owner[c] = s /\ pc[c] = "none" /\ err[c] = "nil"
      BY <1>2 DEF GoUncloned, At, IInv, Cloning
    <2>2. /\ pc[s] = "clone" /\ pc' = [pc EXCEPT ![s] = "body"]
          /\ err' = [err EXCEPT ![c] = "genuine"] /\ Recorded(c, "genuine")
          /\ UNCHANGED <<next, owner, above, joined>>
      BY <1>2, <2>1 DEF GoUncloned, At
    <2>3. /\ ~Ended(c) /\ Ended(c)' /\ err'[c] = "genuine"
          /\ \A t \in Launched \ {c} : (Ended(t)' <=> Ended(t)) /\ err'[t] = err[t]
      BY <1>0, <2>1, <2>2 DEF Ended, IInv, TypeOK
    <2> QED
      BY <2>2, <2>3, ReportEnds DEF Errors
  <1>3. ASSUME NEW t \in Tasks, Finish(t) PROVE [Group(g)!Next]_(Group(g)!vars)
    <2>1. PICK e \in Errors : e = err[t]
      BY <1>0 DEF IInv, TypeOK
    <2>2. /\ pc[t] = "finish" /\ pc' = [pc EXCEPT ![t] = "arm"] /\ Recorded(t, e)
          /\ UNCHANGED <<next, owner, above, joined, err>>
      BY <1>3, <2>1 DEF Finish, At
    <2>3. t \in Launched
      BY <2>2 DEF IInv, Tree
    <2>4. /\ ~Ended(t) /\ Ended(t)' /\ err'[t] = e
          /\ \A u \in Launched \ {t} : (Ended(u)' <=> Ended(u)) /\ err'[u] = err[u]
      BY <1>0, <2>1, <2>2 DEF Ended, IInv, TypeOK
    <2> QED
      BY <2>2, <2>3, <2>4, ReportEnds
  <1>4. ASSUME NEW s \in Sessions, Go(s) \/ BodyBlocks(s) \/ BodyUnblocked(s) \/ Step(s)
        PROVE  [Group(g)!Next]_(Group(g)!vars)
    <2>1. CASE Go(s)
      BY <2>1, GoLaunches
    <2>2. CASE SourceJoin(s) \/ CloseJoin(s)
      BY <2>2, JoinsGroup
    <2>3. CASE GoUncloned(s)
      BY <1>2, <2>3
    <2> QED
      BY <1>1, <1>4, <2>1, <2>2, <2>3 DEF Step
  <1>5. ASSUME NEW t \in Tasks, TaskEnd(t) PROVE [Group(g)!Next]_(Group(g)!vars)
    BY <1>0, <1>1, <1>3, <1>5 DEF TaskEnd
  <1>6. CASE HostCancel \/ UNCHANGED vars
    BY <1>0, <1>1, <1>6
  <1> QED
    BY <1>4, <1>5, <1>6 DEF Next

\* The group of every session, at any depth, implements the structured group:
\* ordered launches into an open group only, failures that cancel as they end
\* their task, and one join after the last task.
THEOREM GroupRefinement == Spec => ImplementsGroup
  <1>1. Init => \A s \in Sessions : Group(s)!Init
    <2> SUFFICES ASSUME Init, NEW s \in Sessions PROVE Group(s)!Init
      OBVIOUS
    <2>1. \A t \in Tasks : t > next
      BY SessionAssumption DEF Init, Tasks
    <2> QED
      BY <2>1 DEF Init, Group!Init
  <1>2. IInv /\ [Next]_vars => [\A s \in Sessions : [Group(s)!Next]_(Group(s)!vars)]_vars
    BY NextImplements
  <1> QED
    BY <1>1, <1>2, Inductive, PTL DEF Spec, ImplementsGroup

=============================================================================
