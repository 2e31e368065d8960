-------------------------- MODULE CallbackMailbox --------------------------
(***************************************************************************)
(* Callbacks of a native dependency session: a goroutine of the worker     *)
(* process calls back into the interpreter through a slot of a shared      *)
(* memory mapping, or over the control connection when the message does    *)
(* not fit or no slot is free.  The interpreter's goroutine waits in a     *)
(* request, serves callbacks meanwhile, and may make nested requests from  *)
(* a callback's body.  Both sides spin, then park, and are woken over the  *)
(* connection.  Closing the session unmaps the memory when the last        *)
(* request that retained it is over.                                       *)
(*                                                                         *)
(* Every atomic load and store of the mapping is a step.  A frame          *)
(* scheduled for package testing is left out, and so are routed callbacks. *)
(***************************************************************************)
EXTENDS Naturals, Sequences, FiniteSets

CONSTANTS
    Calls,          \* callbacks, each raised by a goroutine of its own
    NumSlots,       \* bashPPMailboxSlots
    MaxRequests     \* bound: requests of the interpreter, nested ones included

Slots == 1 .. NumSlots
Requests == 1 .. MaxRequests

ASSUME MailboxAssumption == NumSlots \in Nat \ {0} /\ MaxRequests \in Nat /\ 0 \notin Calls

VARIABLES
    word, owner, marker,    \* per slot: state, request payload, reply is an overflow marker
    workerParked, hostParked,
    cpc, slotOf, wait, early,   \* per callback: goroutine, its slot, its wait channel, early
    answeredBy,     \* per callback: the callback whose answer it received, 0 before
    ran,            \* history: how often the body of a callback ran
    stack,          \* the requests of the interpreter's goroutine, the innermost last
    nextReq,
    hpc, look, event,   \* the innermost request: where it is, the slot it looks at, its event
    active, retained,   \* per request: it serves the mailbox; it holds a reference
    serving,        \* per request: the slot or the callback it serves inline
    callbacks, reply,   \* per request: its callback channel (capacity 1), its reply arrived
    asked,          \* requests whose dependency call is running
    wake,           \* m.wake holds a token
    toHost,         \* the control connection, towards the interpreter
    reader,         \* the control reader: "read", "ended", or the blocked hand-over
    connected, done,    \* the connection is open, the process is gone
    closer, mailbox,    \* closeCanceled; s.mailbox is set
    refs, closing, mapped

memory == <<word, owner, marker, workerParked, hostParked>>
callVars == <<cpc, slotOf, wait, early, answeredBy>>
hostVars == <<stack, nextReq, hpc, look, event, active, retained, serving>>
chanVars == <<callbacks, reply, asked, wake>>
wires == <<toHost, reader, connected, done>>
life == <<closer, mailbox, refs, closing, mapped>>
vars == <<memory, callVars, hostVars, chanVars, wires, life, ran>>

Init ==
    /\ word = [s \in Slots |-> "free"] /\ owner = [s \in Slots |-> 0]
    /\ marker = [s \in Slots |-> "no"]
    /\ workerParked = [s \in Slots |-> FALSE] /\ hostParked = 0
    /\ cpc = [c \in Calls |-> "none"] /\ slotOf = [c \in Calls |-> 0]
    /\ wait = [c \in Calls |-> "empty"] /\ early = [c \in Calls |-> FALSE]
    /\ answeredBy = [c \in Calls |-> 0] /\ ran = [c \in Calls |-> 0]
    /\ stack = <<>> /\ nextReq = 1 /\ hpc = "out" /\ look = 0
    /\ active = [r \in Requests |-> FALSE] /\ retained = [r \in Requests |-> FALSE]
    /\ serving = [r \in Requests |-> <<"none">>] /\ event = "none"
    /\ callbacks = [r \in Requests |-> 0] /\ reply = [r \in Requests |-> FALSE]
    /\ asked = {} /\ wake = FALSE
    /\ toHost = <<>> /\ reader = <<"read">>
    /\ connected = TRUE /\ done = FALSE
    /\ closer = "idle" /\ mailbox = TRUE /\ refs = 0 /\ closing = FALSE /\ mapped = TRUE

Top == stack[Len(stack)]
Events == {"callback", "reply", "done"}

\* sendMessage.  To the worker: its reader puts the message in the wait channel of
\* the callback; one that has returned has none.  A wake finds the channel empty
\* or is dropped.
ToWorker(m, c) ==
    wait' = IF \/ ~connected \/ done \/ cpc[c] \in {"done", "failed"}
               \/ m = "wake" /\ wait[c] # "empty"
            THEN wait ELSE [wait EXCEPT ![c] = m]

\* To the interpreter: its reader may be busy.
ToHost(m) == toHost' = IF connected THEN Append(toHost, m) ELSE toHost

-----------------------------------------------------------------------------
(* The worker: callback and mailboxCallback.                               *)

\* handles.stop is closed: the worker's reader came to the end of the connection.
Stop == ~connected

Call(c, from, to) == ~done /\ cpc[c] = from /\ cpc' = [cpc EXCEPT ![c] = to]

\* The first free slot is claimed, written and published; nobody acts on a slot
\* that is being written.
Claim(c, s) ==
    /\ Call(c, "none", "published")
    /\ word[s] = "free"
    /\ word' = [word EXCEPT ![s] = "request"]
    /\ owner' = [owner EXCEPT ![s] = c]
    /\ slotOf' = [slotOf EXCEPT ![c] = s]
    /\ UNCHANGED <<marker, workerParked, hostParked, wait, early, answeredBy, hostVars,
                   chanVars, wires, life, ran>>

\* No slot was free, or the message does not fit: it goes over the connection.
Fallback(c) ==
    /\ Call(c, "none", "await")
    /\ connected
    /\ ToHost(<<"callback", c>>)
    /\ UNCHANGED <<memory, slotOf, wait, early, answeredBy, hostVars, chanVars, reader,
                   connected, done, life, ran>>

\* A parked server is woken over the connection.
CheckHost(c) ==
    /\ Call(c, "published", "spin")
    /\ IF hostParked # 0 THEN ToHost(<<"wake">>) ELSE UNCHANGED toHost
    /\ UNCHANGED <<memory, slotOf, wait, early, answeredBy, hostVars, chanVars, reader,
                   connected, done, life, ran>>

Replied(c) == word[slotOf[c]] = "reply"

Free(s) ==
    /\ word' = [word EXCEPT ![s] = "free"]
    /\ owner' = [owner EXCEPT ![s] = 0] /\ marker' = [marker EXCEPT ![s] = "no"]

\* The spin ended without a reply, which may have come since: the goroutine
\* announces that it parks.
SpinEnds(c) ==
    /\ Call(c, "spin", "recheck")
    /\ ~early[c]
    /\ workerParked' = [workerParked EXCEPT ![slotOf[c]] = TRUE]
    /\ UNCHANGED <<word, owner, marker, hostParked, slotOf, wait, early, answeredBy, hostVars,
                   chanVars, wires, life, ran>>

\* Mutant of RecheckSees: no last look at the slot.
RecheckBlind(c) == FALSE

\* The last look at the slot.
RecheckSees(c) == Replied(c)

Recheck(c) ==
    /\ Call(c, "recheck", IF RecheckSees(c) THEN "take" ELSE "parked")
    /\ workerParked' = [workerParked EXCEPT ![slotOf[c]] = ~RecheckSees(c)]
    /\ UNCHANGED <<word, owner, marker, hostParked, slotOf, wait, early, answeredBy, hostVars,
                   chanVars, wires, life, ran>>

\* A wake or an overflowing reply ends the park.
Parked(c) ==
    /\ Call(c, "parked", "spin")
    /\ wait[c] # "empty"
    /\ early' = [early EXCEPT ![c] = wait[c] = "reply"]
    /\ wait' = [wait EXCEPT ![c] = "empty"]
    /\ workerParked' = [workerParked EXCEPT ![slotOf[c]] = FALSE]
    /\ UNCHANGED <<word, owner, marker, hostParked, slotOf, answeredBy, hostVars, chanVars,
                   wires, life, ran>>

\* The connection closed: the slot is given back without its reply.
Abandon(c) ==
    /\ Stop
    /\ \/ Call(c, "parked", "failed")
       \/ Call(c, "spin", "failed") /\ early[c]
    /\ Free(slotOf[c])
    /\ workerParked' = [workerParked EXCEPT ![slotOf[c]] = FALSE]
    /\ slotOf' = [slotOf EXCEPT ![c] = 0] /\ early' = [early EXCEPT ![c] = FALSE]
    /\ UNCHANGED <<hostParked, wait, answeredBy, hostVars, chanVars, wires, life, ran>>

\* The spin or the last look sees the reply, which is read, and the slot is freed.  After a
\* marker without an early reply the reply is on its way over the connection.
Take(c) ==
    /\ LET s == slotOf[c]
           pend == marker[s] = "sent" /\ ~early[c]
       IN /\ \E from \in {"spin", "take"} : Call(c, from, IF pend THEN "overflow" ELSE "done")
          /\ Replied(c)
          /\ answeredBy' = [answeredBy EXCEPT ![c] = IF pend \/ marker[s] = "error" THEN 0
                                                     ELSE owner[s]]
          /\ Free(s)
          /\ slotOf' = [slotOf EXCEPT ![c] = 0] /\ early' = [early EXCEPT ![c] = FALSE]
    /\ UNCHANGED <<workerParked, hostParked, wait, hostVars, chanVars, wires, life, ran>>

\* The reply of a fallback, or the one a marker announced, comes over the connection.
Await(c) ==
    /\ Call(c, "await", "done") \/ Call(c, "overflow", "done")
    /\ wait[c] \in {"reply", "error"}
    /\ wait' = [wait EXCEPT ![c] = "empty"]
    /\ answeredBy' = [answeredBy EXCEPT ![c] = IF wait[c] = "reply" THEN c ELSE 0]
    /\ UNCHANGED <<memory, slotOf, early, hostVars, chanVars, wires, life, ran>>

\* Only the wait for an announced reply hears that the connection closed.
AwaitStopped(c) ==
    /\ Call(c, "overflow", "failed")
    /\ Stop
    /\ UNCHANGED <<memory, slotOf, wait, early, answeredBy, hostVars, chanVars, wires, life,
                   ran>>

\* The dependency call of a request returns.
DepReplies(r) ==
    /\ ~done /\ r \in asked
    /\ asked' = asked \ {r}
    /\ ToHost(<<"reply", r>>)
    /\ UNCHANGED <<memory, callVars, hostVars, callbacks, reply, wake, reader,
                   connected, done, life, ran>>

\* main returns after stop, or the program exits on its own, or it is killed:
\* its goroutines are gone.
WorkerExits ==
    /\ ~done /\ done' = TRUE
    /\ cpc' = [c \in Calls |-> "failed"] /\ slotOf' = [c \in Calls |-> 0]
    /\ wait' = [c \in Calls |-> "empty"] /\ early' = [c \in Calls |-> FALSE]
    /\ answeredBy' = [c \in Calls |-> 0]
    /\ asked' = {}
    /\ UNCHANGED <<memory, hostVars, callbacks, reply, wake, toHost, reader, connected,
                   life, ran>>

-----------------------------------------------------------------------------
(* The control reader of the interpreter.                                  *)

\* One message: a token for the server, a reply, or a callback for the innermost
\* request, whose channel may be full.
ReaderReads ==
    /\ reader = <<"read">> /\ toHost # <<>> /\ connected
    /\ toHost' = Tail(toHost)
    /\ LET m == Head(toHost)
           handed == m[1] = "callback" /\ stack # <<>>
       IN /\ wake' = (wake \/ m[1] = "wake")
          /\ reply' = IF m[1] = "reply" /\ m[2] \in {stack[i] : i \in 1 .. Len(stack)}
                      THEN [reply EXCEPT ![m[2]] = TRUE] ELSE reply
          /\ reader' = IF handed /\ callbacks[Top] # 0 THEN <<"push", m[2], Top>> ELSE reader
          /\ callbacks' = IF handed /\ callbacks[Top] = 0 THEN [callbacks EXCEPT ![Top] = m[2]]
                          ELSE callbacks
          /\ IF m[1] = "callback" /\ ~handed THEN ToWorker("error", m[2])
             ELSE UNCHANGED wait
    /\ UNCHANGED <<memory, cpc, slotOf, early, answeredBy, hostVars, asked, connected,
                   done, life, ran>>

\* callbacks <- reply, or s.done.
ReaderPushes ==
    /\ reader[1] = "push"
    /\ \/ /\ callbacks[reader[3]] = 0
          /\ callbacks' = [callbacks EXCEPT ![reader[3]] = reader[2]]
          /\ reader' = IF connected THEN <<"read">> ELSE <<"ended">>
       \/ done /\ reader' = <<"ended">> /\ UNCHANGED callbacks
    /\ UNCHANGED <<memory, callVars, hostVars, reply, asked, wake, toHost, connected,
                   done, life, ran>>

ReaderEnds ==
    /\ reader = <<"read">> /\ done /\ toHost = <<>>
    /\ reader' = <<"ended">>
    /\ UNCHANGED <<memory, callVars, hostVars, chanVars, toHost, connected, done,
                   life, ran>>

-----------------------------------------------------------------------------
(* request: the interpreter's goroutine.                                   *)

Host(from, to) == hpc = from /\ hpc' = to

\* A request from the outside or from the body of a callback; it installs its
\* callback channel and reads s.mailbox.
Enter ==
    /\ Host(IF stack = <<>> THEN "out" ELSE "body", "retain")
    /\ nextReq \in Requests
    /\ stack' = Append(stack, nextReq) /\ nextReq' = nextReq + 1
    /\ retained' = [retained EXCEPT ![nextReq] = mailbox]
    /\ UNCHANGED <<memory, callVars, event, look, active, serving, chanVars, wires, life, ran>>

\* retain, of the mailbox that was read.
Retains == retained[Top] /\ ~closing

\* Where the loop begins: with the slots, if the request serves the mailbox.
LoopOf(serves) ==
    /\ hpc' = IF serves THEN "take" ELSE "poll"
    /\ look' = IF serves THEN 1 ELSE 0

\* The request is sent; on a closed connection it fails.
Send ==
    /\ hpc = "retain"
    /\ retained' = [retained EXCEPT ![Top] = Retains]
    /\ active' = [active EXCEPT ![Top] = Retains]
    /\ refs' = refs + (IF Retains THEN 1 ELSE 0)
    /\ IF connected THEN LoopOf(Retains) ELSE hpc' = "leave" /\ UNCHANGED look
    /\ asked' = IF connected /\ ~done THEN asked \cup {Top} ELSE asked
    /\ UNCHANGED <<memory, callVars, event, stack, nextReq, serving, callbacks, reply, wake,
                   wires, closer, mailbox, closing, mapped, ran>>

\* Mutant of TakenWord: the slot is read, not swapped.
TakenUnswapped == "request"

TakenWord == "serving"

\* take, one slot: a compare and swap claims a published callback.
TakeSlot ==
    /\ hpc = "take"
    /\ IF look \in Slots /\ word[look] = "request"
       THEN /\ word' = [word EXCEPT ![look] = TakenWord]
            /\ serving' = [serving EXCEPT ![Top] = <<"slot", owner[look], look>>]
            /\ ran' = [ran EXCEPT ![owner[look]] = @ + 1]
            /\ hpc' = "body" /\ look' = 0
       ELSE /\ look' = IF look < NumSlots THEN look + 1 ELSE 0
            /\ hpc' = IF look < NumSlots THEN "take" ELSE "poll"
            /\ UNCHANGED <<word, serving, ran>>
    /\ UNCHANGED <<owner, marker, workerParked, hostParked, callVars, event, stack, nextReq,
                   active, retained, chanVars, wires, life>>

\* The cases of the select but the context: a callback, the reply, the process.
Select(ev) ==
    /\ \/ /\ ev = "callback" /\ callbacks[Top] # 0
          /\ serving' = [serving EXCEPT ![Top] = <<"sock", callbacks[Top]>>]
          /\ callbacks' = [callbacks EXCEPT ![Top] = 0]
          /\ ran' = [ran EXCEPT ![callbacks[Top]] = @ + 1]
       \/ /\ \/ ev = "reply" /\ reply[Top]
             \/ ev = "done" /\ done
          /\ UNCHANGED <<serving, callbacks, ran>>
    /\ UNCHANGED <<callVars, stack, nextReq, active, retained, reply, asked, wake, wires, life>>

\* The switch on the event.
Handle(ev) ==
    hpc' = CASE ev = "callback" -> "body" [] ev = "cancel" -> "close" [] OTHER -> "leave"

Poll ==
    /\ hpc = "poll"
    /\ \E ev \in Events : Select(ev) /\ Handle(ev)
    /\ look' = 0
    /\ UNCHANGED <<memory, event>>

\* Nothing is ready: spin, or park.  park counts the request first ...
PollNothing ==
    /\ hpc = "poll" /\ active[Top]
    /\ callbacks[Top] = 0 /\ ~reply[Top] /\ ~done
    /\ look' = 1
    /\ \/ hpc' = "take" /\ UNCHANGED hostParked
       \/ hpc' = "scan" /\ hostParked' = hostParked + 1
    /\ UNCHANGED <<word, owner, marker, workerParked, callVars, stack, nextReq, active, retained,
                   serving, event, chanVars, wires, life, ran>>

\* ... and looks at the slots afterwards.
Seen == word[look] = "request"

Scan ==
    /\ hpc = "scan"
    /\ hpc' = IF Seen THEN "unpark" ELSE IF look < NumSlots THEN "scan" ELSE "parked"
    /\ look' = IF look < NumSlots /\ ~Seen THEN look + 1 ELSE 0
    /\ UNCHANGED <<memory, callVars, event, stack, nextReq, active, retained, serving, chanVars,
                   wires, life, ran>>

ParkedEvent ==
    /\ Host("parked", "unpark")
    /\ \E ev \in Events : Select(ev) /\ event' = ev
    /\ UNCHANGED <<memory, look>>

\* The context of the request is done; it is looked at in both selects.
HostCanceled ==
    /\ \/ Host("poll", "close") /\ UNCHANGED event
       \/ Host("parked", "unpark") /\ event' = "cancel"
    /\ UNCHANGED <<memory, callVars, stack, nextReq, look, active, retained, serving, chanVars,
                   wires, life, ran>>

ParkedWake ==
    /\ Host("parked", "unpark")
    /\ wake /\ wake' = FALSE
    /\ UNCHANGED <<memory, callVars, stack, nextReq, look, active, retained, serving, event,
                   callbacks, reply, asked, wires, life, ran>>

UnparkHost ==
    /\ hpc = "unpark"
    /\ hostParked' = hostParked - 1
    /\ event' = "none"
    /\ IF event = "none" THEN hpc' = "take" /\ look' = 1
       ELSE Handle(event) /\ look' = 0
    /\ UNCHANGED <<word, owner, marker, workerParked, callVars, stack, nextReq, active, retained,
                   serving, chanVars, wires, life, ran>>

\* The callback was answered: the loop, unless its body ended the program.
Continue ==
    /\ LoopOf(active[Top]) \/ (hpc' = "leave" /\ UNCHANGED look)
    /\ serving' = [serving EXCEPT ![Top] = <<"none">>]

\* callbackAnswer returns.  A session closed meanwhile ends the request, or, when
\* answerMailboxCallback finds it, drops the answer.
BodyEnds ==
    /\ hpc = "body"
    /\ IF serving[Top][1] = "slot" /\ ~mailbox THEN Continue
       ELSE /\ hpc' = IF serving[Top][1] = "slot" THEN "answer" ELSE "socket"
            /\ UNCHANGED <<look, serving>>
    /\ UNCHANGED <<memory, callVars, stack, nextReq, active, retained, event,
                   chanVars, wires, life, ran>>

Served == serving[Top][2]
Slot == serving[Top][3]

\* answer: the reply fits ...
Answer ==
    /\ Host("answer", "flag")
    /\ word' = [word EXCEPT ![Slot] = "reply"] /\ owner' = [owner EXCEPT ![Slot] = Served]
    /\ marker' = [marker EXCEPT ![Slot] = "no"]
    /\ UNCHANGED <<workerParked, hostParked, callVars, stack, nextReq, look, active,
                   retained, serving, event, chanVars, wires, life, ran>>

\* workerParked
WakesWorker == workerParked[Slot]

AnswerWakes ==
    /\ hpc = "flag" /\ Continue
    /\ IF WakesWorker THEN ToWorker("wake", Served) ELSE UNCHANGED wait
    /\ UNCHANGED <<memory, cpc, slotOf, early, answeredBy, stack, nextReq, active,
                   retained, event, chanVars, toHost, reader, connected, done, life, ran>>

\* ... or it is sent over the connection and a marker published after it.
Overflow ==
    /\ Host("answer", "marker")
    /\ ToWorker("reply", Served)
    /\ marker' = [marker EXCEPT ![Slot] = IF connected THEN "sent" ELSE "error"]
    /\ UNCHANGED <<word, owner, workerParked, hostParked, cpc, slotOf, early, answeredBy,
                   stack, nextReq, look, active, retained, serving, event, chanVars, toHost, reader,
                   connected, done, life, ran>>

PublishMarker ==
    /\ hpc = "marker" /\ Continue
    /\ word' = [word EXCEPT ![Slot] = "reply"] /\ owner' = [owner EXCEPT ![Slot] = Served]
    /\ UNCHANGED <<marker, workerParked, hostParked, callVars, stack, nextReq, active,
                   retained, event, chanVars, wires, life, ran>>

\* serveCallback sends the answer of a callback that came over the connection.
SocketReply ==
    /\ hpc = "socket" /\ Continue
    /\ ToWorker("reply", Served)
    /\ UNCHANGED <<memory, cpc, slotOf, early, answeredBy, stack, nextReq, active,
                   retained, event, chanVars, toHost, reader, connected, done, life, ran>>

\* A canceled request has closed the session or waited for the one who does.
\* The deferred calls: release, and the channel of the enclosing request.
Leave ==
    /\ hpc = "leave" \/ (hpc = "close" /\ closer = "closed")
    /\ hpc' = IF Len(stack) = 1 THEN "out" ELSE "body"
    /\ stack' = SubSeq(stack, 1, Len(stack) - 1)
    /\ refs' = refs - (IF retained[Top] THEN 1 ELSE 0)
    /\ mapped' = (mapped /\ ~(retained[Top] /\ closing /\ refs' = 0))
    /\ look' = 0
    /\ serving' = [serving EXCEPT ![Top] = <<"none">>]
    /\ active' = [active EXCEPT ![Top] = FALSE] /\ retained' = [retained EXCEPT ![Top] = FALSE]
    /\ reply' = [reply EXCEPT ![Top] = FALSE] /\ asked' = asked \ {Top}
    /\ UNCHANGED <<memory, callVars, nextReq, event, callbacks, wake, wires, closer,
                   mailbox, closing, ran>>

-----------------------------------------------------------------------------
(* closeCanceled, by this request, by another one or at the end of the run. *)

CloseConn ==
    /\ closer = "idle" /\ closer' = "wait"
    /\ connected' = FALSE /\ toHost' = <<>>
    /\ reader' = IF reader = <<"read">> THEN <<"ended">> ELSE reader
    /\ UNCHANGED <<memory, callVars, hostVars, chanVars, done, mailbox, refs,
                   closing, mapped, ran>>

\* The process is gone (after a second it is killed): s.mailbox = nil.
CloseDrop ==
    /\ closer = "wait" /\ closer' = "drop"
    /\ done
    /\ mailbox' = FALSE
    /\ UNCHANGED <<memory, callVars, hostVars, chanVars, wires, refs, closing, mapped,
                   ran>>

\* Mutant of Unused: the references are not counted.
UnusedAlways == TRUE

\* No request holds the mapping.
Unused == refs = 0

\* mailbox.close
CloseMailbox ==
    /\ closer = "drop" /\ closer' = "closed"
    /\ closing' = TRUE
    /\ mapped' = (mapped /\ ~Unused)
    /\ UNCHANGED <<memory, callVars, hostVars, chanVars, wires, mailbox, refs, ran>>

-----------------------------------------------------------------------------
CallStep(c) ==
    \/ CheckHost(c) \/ SpinEnds(c) \/ Recheck(c) \/ Parked(c)
    \/ Abandon(c) \/ Take(c) \/ Await(c) \/ AwaitStopped(c)

HostStep ==
    \/ Send \/ TakeSlot \/ Poll \/ PollNothing \/ Scan \/ ParkedEvent
    \/ ParkedWake \/ UnparkHost \/ BodyEnds \/ Answer
    \/ AnswerWakes \/ Overflow \/ PublishMarker \/ SocketReply \/ Leave

ReaderStep == ReaderReads \/ ReaderPushes \/ ReaderEnds
CloseStep == CloseDrop \/ CloseMailbox

Next ==
    \/ \E c \in Calls : CallStep(c) \/ Fallback(c) \/ (\E s \in Slots : Claim(c, s))
    \/ Enter \/ HostStep \/ ReaderStep
    \/ (\E r \in Requests : DepReplies(r)) \/ WorkerExits
    \/ CloseConn \/ CloseStep \/ HostCanceled

Spec == Init /\ [][Next]_vars

\* Goroutines that can run do run, and the body of a callback ends, so the
\* dependency calls that it makes return.  A closed worker exits or is killed.
\* Callbacks, requests, the reply of the outermost request and cancellation
\* are choices.
FairSpec ==
    /\ Spec
    /\ WF_vars(HostStep) /\ WF_vars(ReaderStep) /\ WF_vars(CloseStep)
    /\ \A c \in Calls : WF_vars(CallStep(c))
    /\ \A r \in Requests : WF_vars(stack # <<>> /\ r # stack[1] /\ DepReplies(r))
    /\ WF_vars(hpc = "close" /\ CloseConn) /\ WF_vars(~connected /\ WorkerExits)

-----------------------------------------------------------------------------
(* Properties.                                                             *)

Message == {<<"wake">>} \cup ({"callback"} \X Calls) \cup ({"reply"} \X Requests)
Work == {<<"none">>} \cup ({"slot"} \X Calls \X Slots) \cup ({"sock"} \X Calls)
Hand == {<<"read">>, <<"ended">>} \cup ({"push"} \X Calls \X Requests)

MemoryType ==
    /\ word \in [Slots -> {"free", "request", "serving", "reply"}]
    /\ owner \in [Slots -> {0} \cup Calls] /\ marker \in [Slots -> {"no", "sent", "error"}]
    /\ workerParked \in [Slots -> BOOLEAN] /\ hostParked \in {0, 1}

CallType ==
    /\ cpc \in [Calls -> {"none", "published", "spin", "recheck", "parked", "take", "await",
                          "overflow", "done", "failed"}]
    /\ slotOf \in [Calls -> {0} \cup Slots]
    /\ wait \in [Calls -> {"empty", "wake", "reply", "error"}] /\ early \in [Calls -> BOOLEAN]
    /\ answeredBy \in [Calls -> {0} \cup Calls] /\ ran \in [Calls -> Nat]

HostType ==
    /\ stack \in Seq(Requests) /\ nextReq \in Nat
    /\ hpc \in {"out", "retain", "take", "poll", "scan", "parked", "unpark", "body", "answer",
                "flag", "marker", "socket", "leave", "close"}
    /\ look \in 0 .. NumSlots /\ event \in Events \cup {"none", "cancel"}
    /\ active \in [Requests -> BOOLEAN] /\ retained \in [Requests -> BOOLEAN]
    /\ serving \in [Requests -> Work]

WireType ==
    /\ callbacks \in [Requests -> {0} \cup Calls] /\ reply \in [Requests -> BOOLEAN]
    /\ asked \in SUBSET Requests /\ wake \in BOOLEAN
    /\ toHost \in Seq(Message)
    /\ reader \in Hand
    /\ connected \in BOOLEAN /\ done \in BOOLEAN

LifeType ==
    /\ closer \in {"idle", "wait", "drop", "closed"} /\ mailbox \in BOOLEAN
    /\ refs \in Nat /\ closing \in BOOLEAN /\ mapped \in BOOLEAN

TypeOK == MemoryType /\ CallType /\ HostType /\ WireType /\ LifeType

\* The mapping is there whenever the interpreter touches it, however the
\* session is closed meanwhile.
MappedWhileUsed ==
    hpc \in {"take", "scan", "unpark", "answer", "flag", "marker"} => mapped

\* A body runs at most once, and until the connection closes a callback
\* returns the answer of its own body, whichever way the answer travelled and
\* whoever used the slot before.
OwnAnswerOnce ==
    \A c \in Calls :
        /\ ran[c] <= 1
        /\ ~Stop /\ answeredBy[c] \in Calls => answeredBy[c] = c /\ ran[c] = 1

\* Nobody sleeps through the other's message: a callback published in a slot
\* returns while some request stays open.  (The control reader may be held up
\* by a callback that came over the connection.)
CallbackReturns ==
    \A c \in Calls :
        slotOf[c] # 0 ~> slotOf[c] = 0 \/ cpc[c] = "failed" \/ stack = <<>> \/ done
                         \/ reader[1] = "push"

-----------------------------------------------------------------------------
(* The inductive invariant of the proofs (CallbackMailboxProofs).          *)

\* The requests nest: an outer one is in the body of a callback.
Nested ==
    /\ hpc = "out" <=> stack = <<>>
    /\ \A i \in 1 .. Len(stack) : stack[i] < nextReq
    /\ \A i, j \in 1 .. Len(stack) : stack[i] = stack[j] => i = j
    /\ \A i \in 1 .. Len(stack) : i < Len(stack) => serving[stack[i]][1] # "none"
    /\ hpc = "body" => serving[Top][1] # "none"
    /\ hpc \in {"answer", "flag", "marker"} => serving[Top][1] = "slot"
    /\ hpc = "socket" => serving[Top][1] = "sock"
    /\ hpc = "unpark" /\ event = "callback" => serving[Top][1] = "sock"
    /\ hpc # "unpark" => event = "none"
    /\ hostParked = IF hpc \in {"scan", "parked", "unpark"} THEN 1 ELSE 0

\* The references are those of the requests that serve the mailbox, and the mapping
\* goes with the last one; only the innermost request may still have to retain.
Referenced ==
    /\ \A r \in Requests : active[r] => r < nextReq
    /\ \A r \in Requests : (hpc = "retain" /\ r = Top) \/ retained[r] = active[r]
    /\ hpc = "retain" => ~active[Top]
    /\ refs = Cardinality({r \in Requests : active[r]})
    /\ mapped \/ (closing /\ refs = 0)
    /\ hpc \in {"take", "scan", "parked", "unpark", "answer", "flag", "marker"} => active[Top]
    /\ \A r \in Requests : serving[r][1] = "slot" => active[r]

\* Where a callback is whose body has not run: in a slot, on the connection, in the
\* channel of a request, or in the hands of the blocked reader.
InSlot(c, s) == word[s] = "request" /\ owner[s] = c
OnWire(c, i) == toHost[i][1] = "callback" /\ toHost[i][2] = c
InHand(c) == reader[1] = "push" /\ reader[2] = c
Unrun(c) == cpc[c] # "none" /\ ran[c] = 0

\* It is at one place at most, and its body has not run.
OnePlace(c) ==
    /\ \A s \in Slots : InSlot(c, s) =>
        /\ Unrun(c) /\ ~InHand(c)
        /\ \A t \in Slots : InSlot(c, t) => s = t
        /\ \A i \in 1 .. Len(toHost) : ~OnWire(c, i)
        /\ \A r \in Requests : callbacks[r] # c
    /\ \A i \in 1 .. Len(toHost) : OnWire(c, i) =>
        /\ Unrun(c) /\ ~InHand(c)
        /\ \A j \in 1 .. Len(toHost) : OnWire(c, j) => i = j
        /\ \A r \in Requests : callbacks[r] # c
    /\ \A r \in Requests : callbacks[r] = c =>
        /\ Unrun(c) /\ ~InHand(c)
        /\ \A q \in Requests : callbacks[q] = c => q = r
    /\ InHand(c) => Unrun(c)

InTransit == \A c \in Calls : OnePlace(c)

\* What says that a body ran is right: an answer in a slot or a wait channel, and a
\* callback being served.
Ran ==
    /\ \A c \in Calls : cpc[c] = "none" => ran[c] = 0
    /\ \A s \in Slots : word[s] = "request" => owner[s] \in Calls
    /\ \A s \in Slots : word[s] = "reply" => owner[s] \in Calls /\ ran[owner[s]] = 1
    /\ \A r \in Requests : serving[r][1] # "none" => ran[serving[r][2]] = 1
    /\ \A c \in Calls : wait[c] = "reply" => ran[c] = 1

\* Request r holds a slot that it has not answered.
Holds(r) == serving[r][1] = "slot" /\ ~(hpc = "flag" /\ r = Top)

\* While both sides live a slot belongs to the callback that claimed it, and to the
\* one request that serves it.
Owned ==
    /\ \A c \in Calls : cpc[c] \in {"published", "spin", "recheck", "parked", "take"}
                            => slotOf[c] # 0
    /\ done => \A c \in Calls : answeredBy[c] = 0 /\ cpc[c] # "none"
    /\ connected /\ ~done =>
        /\ \A c \in Calls :
              slotOf[c] # 0 => word[slotOf[c]] # "free" /\ owner[slotOf[c]] = c
        /\ \A r \in Requests : Holds(r) =>
              word[serving[r][3]] = "serving" /\ owner[serving[r][3]] = serving[r][2]
        /\ \A q, r \in Requests :
              Holds(q) /\ Holds(r) /\ serving[q][3] = serving[r][3] => q = r

IInv ==
    /\ TypeOK /\ Nested /\ Referenced
    /\ InTransit /\ Ran /\ Owned /\ OwnAnswerOnce
=============================================================================
