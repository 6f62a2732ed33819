------------------------------- MODULE LogRing -------------------------------
(***************************************************************************)
(* The log stream: the ring between every task that logs and the browser   *)
(* on the log page (web_log_push, web_log_drain and log_ws_handler in      *)
(* src/main/web/web_server.c; esp_log_ws_redirect and the monitor loop in  *)
(* src/main/main.c).                                                       *)
(*                                                                         *)
(* There is no lock.  Every task that logs runs web_log_push, so several   *)
(* may push at once, and a push that finds the ring more than 60 % full    *)
(* drains it, as the monitor loop does every now and then: several may     *)
(* drain at once.  The ghost overlap remembers that two tasks were in each *)
(* other's way; what the ring guarantees is stated for as long as none     *)
(* were, what it recovers from is stated without it.                       *)
(*                                                                         *)
(* A byte is the number of bytes stored before it.  A browser that closes  *)
(* its socket is not seen by the handler, which is called for frames only. *)
(* The server's handle in the context is left out: it is the same one for  *)
(* ever, and while it is cleared the send fails as it may anyway.          *)
(***************************************************************************)
EXTENDS Integers, Sequences

CONSTANTS
    RingSize,      \* LOG_RING_BUF_SIZE
    Tasks,         \* the tasks that log
    Monitor,       \* the one among them that runs the monitor loop
    Httpd,         \* the one that runs the web server's handlers
    Fds,           \* the socket numbers of the browsers
    NoFd,          \* 0 or -1 in log_ws_ctx_t.fd
    Lengths,       \* the lengths of a line
    MaxLines,      \* bound on the number of lines, greetings included
    MaxOpens       \* bound on the number of connections

ASSUME LogAssumption ==
    /\ RingSize \in Nat /\ RingSize > 1
    /\ Monitor \in Tasks /\ Httpd \in Tasks
    /\ Fds \subseteq Nat /\ NoFd \notin Fds
    /\ Lengths \subseteq Nat \ {0}
    /\ MaxLines \in Nat /\ MaxOpens \in Nat

VARIABLES
    ring, head, tail,   \* s_log_ring, s_log_ring_head, s_log_ring_tail
    connected, fd,      \* g_log_ws_ctx
    pc,                 \* what each task is doing to the ring
    left,               \* the bytes of its line still to be pushed
    next,               \* its local next in web_log_push, 0 when out of scope
    from, upto,         \* its local tail and head in web_log_drain, likewise
                        \* (upto also the head log_ws_handler has loaded)
    open,               \* the sockets browsers hold open
    lines, opens,       \* the number of lines and of connections so far
    (* ghosts *)
    made,               \* the number of bytes stored so far
    queue,              \* the bytes accepted and neither sent nor discarded
    since,              \* the value of made when the socket was opened
    reused,             \* the sockets that got the number still in fd
    overlap             \* two tasks were in each other's way

ringVars == <<ring, head, tail>>
ctxVars == <<connected, fd>>
browserVars == <<open, opens, since, reused>>
vars == <<ringVars, ctxVars, pc, left, next, from, upto, browserVars, lines, made,
          queue, overlap>>

Index == 0..(RingSize - 1)

PushPcs == {"check", "store", "advance"}
DrainPcs == {"head", "first", "second", "release"}

(* The handler has a new browser and has not yet discarded the old bytes. *)
DiscardPcs == {"connect", "load", "discard"}

Pcs == {"idle", "used", "tail", "forget"} \cup PushPcs \cup DrainPcs \cup DiscardPcs

(* Nothing is connected; the ring is a zeroed array. *)
Init ==
    /\ ring = [i \in Index |-> 0] /\ head = 0 /\ tail = 0
    /\ connected = FALSE /\ fd = NoFd
    /\ pc = [t \in Tasks |-> "idle"]
    /\ left = [t \in Tasks |-> 0]
    /\ next = [t \in Tasks |-> 0]
    /\ from = [t \in Tasks |-> 0] /\ upto = [t \in Tasks |-> 0]
    /\ open = {} /\ lines = 0 /\ opens = 0
    /\ made = 0 /\ queue = <<>>
    /\ since = [f \in Fds |-> 0] /\ reused = {}
    /\ overlap = FALSE

-----------------------------------------------------------------------------
(* Mutant of NextSlot: no wrap. *)
NextSlotNoWrap(i) == i + 1

(* (i + 1) % LOG_RING_BUF_SIZE *)
NextSlot(i) == IF i = RingSize - 1 THEN 0 ELSE i + 1

(* The bytes from slot a on and before slot b. *)
Distance(a, b) == IF b >= a THEN b - a ELSE RingSize - a + b

(* The slot n after slot a. *)
SlotAfter(a, n) == IF a + n < RingSize THEN a + n ELSE a + n - RingSize

(* LOG_RING_BUF_SIZE * 3 / 5 *)
DrainThreshold == (RingSize * 3) \div 5

Goto(t, where) == pc' = [pc EXCEPT ![t] = where]

(* Some other task is at one of these places. *)
Another(t, places) == \E u \in Tasks \ {t} : pc[u] \in places

(* Entering a section another task is in. *)
Enters(t, places) == overlap' = (overlap \/ Another(t, places))

-----------------------------------------------------------------------------
(* web_log_push.                                                           *)

(* A task logs a line of n bytes; without a listener that is all. *)
PushLine(t, n) ==
    /\ pc[t] = "idle" /\ lines < MaxLines
    /\ connected
    /\ lines' = lines + 1
    /\ left' = [left EXCEPT ![t] = n]
    /\ Goto(t, "check")
    /\ Enters(t, PushPcs \cup {"discard"})
    /\ UNCHANGED <<ringVars, ctxVars, next, from, upto, browserVars, made, queue>>

(* Mutant of PushCheck: the ring may be filled to the last slot. *)
PushCheckFull(t) ==
    /\ pc[t] = "check"
    /\ IF left[t] = 0
       THEN /\ left' = [left EXCEPT ![t] = 0] /\ UNCHANGED next
            /\ Goto(t, "used")
       ELSE /\ next' = [next EXCEPT ![t] = NextSlot(head)] /\ UNCHANGED left
            /\ Goto(t, "store")
    /\ UNCHANGED <<ringVars, ctxVars, from, upto, browserVars, lines, made, queue, overlap>>

(* The head of the loop: the line is done, or the ring is full and the     *)
(* rest of it is dropped, or there is a slot.                              *)
PushCheck(t) ==
    /\ pc[t] = "check"
    /\ IF left[t] = 0 \/ NextSlot(head) = tail
       THEN /\ left' = [left EXCEPT ![t] = 0] /\ UNCHANGED next
            /\ Goto(t, "used")
       ELSE /\ next' = [next EXCEPT ![t] = NextSlot(head)] /\ UNCHANGED left
            /\ Goto(t, "store")
    /\ UNCHANGED <<ringVars, ctxVars, from, upto, browserVars, lines, made, queue, overlap>>

(* s_log_ring[s_log_ring_head] = data[i]: head is read once more. *)
PushStore(t) ==
    /\ pc[t] = "store"
    /\ ring' = [ring EXCEPT ![head] = made + 1]
    /\ made' = made + 1
    /\ Goto(t, "advance")
    /\ UNCHANGED <<head, tail, ctxVars, left, next, from, upto, browserVars, lines, queue,
                   overlap>>

(* s_log_ring_head = next *)
PushAdvance(t) ==
    /\ pc[t] = "advance"
    /\ head' = next[t]
    /\ queue' = Append(queue, ring[head])
    /\ next' = [next EXCEPT ![t] = 0]
    /\ left' = [left EXCEPT ![t] = left[t] - 1]
    /\ Goto(t, "check")
    /\ UNCHANGED <<ring, tail, ctxVars, from, upto, browserVars, lines, made, overlap>>

(* "Proactively drain at 60%".  (That head and tail are read one after the *)
(* other is left out: the outcome is the same choice.)                     *)
PushUsed(t) ==
    /\ pc[t] = "used"
    /\ Goto(t, IF Distance(tail, head) > DrainThreshold THEN "tail" ELSE "idle")
    /\ UNCHANGED <<ringVars, ctxVars, left, next, from, upto, browserVars, lines, made,
                   queue, overlap>>

-----------------------------------------------------------------------------
(* web_log_drain.                                                          *)

(* The monitor loop calls it too, whenever somebody listens. *)
MonitorDrain ==
    /\ pc[Monitor] = "idle" /\ connected
    /\ Goto(Monitor, "tail")
    /\ UNCHANGED <<ringVars, ctxVars, left, next, from, upto, browserVars, lines, made,
                   queue, overlap>>

(* It returns. *)
DrainEnds(t) ==
    /\ from' = [from EXCEPT ![t] = 0] /\ upto' = [upto EXCEPT ![t] = 0]
    /\ Goto(t, "idle")

(* tail and head are loaded ... *)
DrainTail(t) ==
    /\ pc[t] = "tail"
    /\ from' = [from EXCEPT ![t] = tail]
    /\ Goto(t, "head")
    /\ Enters(t, DrainPcs \cup DiscardPcs)
    /\ UNCHANGED <<ringVars, ctxVars, left, next, upto, browserVars, lines, made, queue>>

(* ... and nothing is done if they are equal. *)
DrainHead(t) ==
    /\ pc[t] = "head"
    /\ IF head = from[t]
       THEN DrainEnds(t)
       ELSE upto' = [upto EXCEPT ![t] = head] /\ Goto(t, "first") /\ UNCHANGED from
    /\ UNCHANGED <<ringVars, ctxVars, left, next, browserVars, lines, made, queue, overlap>>

(* The data wraps around the end of the ring, and goes out in two frames. *)
Wraps(t) == upto[t] < from[t]

FirstLength(t) == IF Wraps(t) THEN RingSize - from[t] ELSE upto[t] - from[t]

(* Mutant of FirstFrame: the frame starts a slot late. *)
FirstFrameLate(t) == [i \in 1..FirstLength(t) |-> ring[SlotAfter(from[t], i)]]

(* What goes out first ... *)
FirstFrame(t) == [i \in 1..FirstLength(t) |-> ring[from[t] + i - 1]]

(* ... and second. *)
SecondFrame(t) == [i \in 1..upto[t] |-> ring[i - 1]]

(* httpd_ws_send_frame_async can succeed. *)
Deliverable == fd \in open

(* The first frame is sent, and if there is a second it is next. *)
DrainFirst(t) ==
    /\ pc[t] = "first" /\ Deliverable
    /\ Goto(t, IF Wraps(t) THEN "second" ELSE "release")
    /\ UNCHANGED <<ringVars, ctxVars, left, next, from, upto, browserVars, lines, made,
                   queue, overlap>>

(* The second is sent. *)
DrainSecond(t) ==
    /\ pc[t] = "second" /\ Deliverable
    /\ Goto(t, "release")
    /\ UNCHANGED <<ringVars, ctxVars, left, next, from, upto, browserVars, lines, made,
                   queue, overlap>>

(* Either cannot be sent: everything stays in the ring, the first frame    *)
(* too if it was the second that failed.                                   *)
DrainFails(t) ==
    /\ pc[t] \in {"first", "second"}
    /\ DrainEnds(t)
    /\ UNCHANGED <<ringVars, ctxVars, left, next, browserVars, lines, made,
                   queue, overlap>>

(* Mutant of DrainRelease: what was sent stays. *)
DrainReleaseNothing(t) ==
    /\ pc[t] = "release"
    /\ DrainEnds(t)
    /\ UNCHANGED <<ringVars, ctxVars, left, next, browserVars, lines, made,
                   queue, overlap>>

(* "Only advance tail if send succeeded" *)
DrainRelease(t) ==
    /\ pc[t] = "release"
    /\ tail' = upto[t]
    /\ queue' = SubSeq(queue, Distance(from[t], upto[t]) + 1, Len(queue))
    /\ DrainEnds(t)
    /\ UNCHANGED <<ring, head, ctxVars, left, next, browserVars, lines, made,
                   overlap>>

-----------------------------------------------------------------------------
(* log_ws_handler and the browsers.                                        *)

(* A frame on a socket that is not the one of the context, which is stored *)
(* there: from now on drains send to it ...                                *)
FrameNew(f) ==
    /\ pc[Httpd] = "idle" /\ f \in open /\ f # fd /\ lines < MaxLines
    /\ lines' = lines + 1
    /\ fd' = f
    /\ reused' = reused \ {f}
    /\ Goto(Httpd, "connect")
    /\ Enters(Httpd, DrainPcs)
    /\ UNCHANGED <<ringVars, connected, left, next, from, upto, open, opens, since, made, queue>>

(* ... and everybody logs to the ring ... *)
FrameConnect ==
    /\ pc[Httpd] = "connect"
    /\ connected' = TRUE
    /\ Goto(Httpd, "load")
    /\ UNCHANGED <<ringVars, fd, left, next, from, upto, browserVars, lines, made, queue,
                   overlap>>

(* ... what is left from before is discarded: head is loaded ... *)
DiscardLoad ==
    /\ pc[Httpd] = "load"
    /\ upto' = [upto EXCEPT ![Httpd] = head]
    /\ Goto(Httpd, "discard")
    /\ Enters(Httpd, PushPcs)
    /\ UNCHANGED <<ringVars, ctxVars, left, next, from, browserVars, lines, made, queue>>

(* A line is pushed to greet the browser. *)
Greet ==
    /\ \E n \in Lengths : left' = [left EXCEPT ![Httpd] = n]
    /\ upto' = [upto EXCEPT ![Httpd] = 0]
    /\ Goto(Httpd, "check")

(* Mutant of Discard: the old bytes stay. *)
DiscardNothing ==
    /\ pc[Httpd] = "discard"
    /\ Greet
    /\ UNCHANGED <<ringVars, ctxVars, next, from, browserVars, lines, made, queue, overlap>>

(* ... and stored as the tail. *)
Discard ==
    /\ pc[Httpd] = "discard"
    /\ tail' = upto[Httpd]
    /\ queue' = <<>>
    /\ Greet
    /\ UNCHANGED <<ring, head, ctxVars, next, from, browserVars, lines, made, overlap>>

(* A frame on the socket of the context that cannot be received.  (One     *)
(* that can changes nothing.)                                              *)
FrameFails ==
    /\ pc[Httpd] = "idle" /\ fd \in open
    /\ connected' = FALSE
    /\ Goto(Httpd, "forget")
    /\ UNCHANGED <<ringVars, fd, left, next, from, upto, browserVars, lines, made, queue,
                   overlap>>

(* The handler clears the socket too, and the server closes it. *)
Forget ==
    /\ pc[Httpd] = "forget"
    /\ fd' = NoFd
    /\ open' = open \ {fd}
    /\ Goto(Httpd, "idle")
    /\ UNCHANGED <<ringVars, connected, left, next, from, upto, opens, since, reused, lines,
                   made, queue, overlap>>

(* A browser connects: the server's task, when it is in no handler,        *)
(* accepts it, and lwIP gives the lowest free number, which may be one     *)
(* used before.                                                            *)
Open(f) ==
    /\ pc[Httpd] = "idle" /\ f \notin open /\ opens < MaxOpens
    /\ \A g \in Fds : g < f => g \in open
    /\ open' = open \cup {f} /\ opens' = opens + 1
    /\ since' = [since EXCEPT ![f] = made]
    /\ reused' = IF f = fd THEN reused \cup {f} ELSE reused
    /\ UNCHANGED <<ringVars, ctxVars, pc, left, next, from, upto, lines, made, queue,
                   overlap>>

(* It goes away. *)
Close(f) ==
    /\ f \in open
    /\ open' = open \ {f}
    /\ UNCHANGED <<ringVars, ctxVars, pc, left, next, from, upto, opens, since, reused,
                   lines, made, queue, overlap>>

Push(t) == PushCheck(t) \/ PushStore(t) \/ PushAdvance(t) \/ PushUsed(t)

Drain(t) ==
    DrainTail(t) \/ DrainHead(t) \/ DrainFirst(t) \/ DrainSecond(t) \/ DrainFails(t)
    \/ DrainRelease(t)

(* What the handler goes on with. *)
Handler == FrameConnect \/ DiscardLoad \/ Discard \/ Forget

Next ==
    \/ \E t \in Tasks : (\E n \in Lengths : PushLine(t, n)) \/ Push(t) \/ Drain(t)
    \/ MonitorDrain
    \/ \E f \in Fds : FrameNew(f) \/ Open(f) \/ Close(f)
    \/ Handler \/ FrameFails

Spec == Init /\ [][Next]_vars

(* Every task goes on with what it has begun; the monitor loop comes round *)
(* again and again; a send to an open socket does not fail for ever.       *)
FairSpec ==
    /\ Spec
    /\ \A t \in Tasks : WF_vars(Push(t)) /\ WF_vars(Drain(t))
    /\ \A t \in Tasks : SF_vars(DrainFirst(t)) /\ SF_vars(DrainSecond(t))
    /\ WF_vars(MonitorDrain) /\ WF_vars(Handler)

-----------------------------------------------------------------------------
(* The properties.                                                         *)

(* Every index stays inside the ring, whatever the tasks do to each other. *)
TypeOK ==
    /\ ring \in [Index -> Nat] /\ head \in Index /\ tail \in Index
    /\ connected \in BOOLEAN /\ fd \in Fds \cup {NoFd}
    /\ pc \in [Tasks -> Pcs]
    /\ left \in [Tasks -> Nat] /\ next \in [Tasks -> Index]
    /\ from \in [Tasks -> Index] /\ upto \in [Tasks -> Index]
    /\ open \subseteq Fds /\ opens \in Nat /\ lines \in Nat
    /\ made \in Nat /\ queue \in Seq(Nat)
    /\ since \in [Fds -> Nat] /\ reused \subseteq Fds
    /\ overlap \in BOOLEAN

(* The ring is a queue: as long as no two tasks pushed at once, drained at *)
(* once or did either while the handler took on a new browser, the slots   *)
(* from tail to head hold the bytes that were accepted and not yet sent,   *)
(* in order, also while one task pushes and another drains (web_log_push,  *)
(* web_log_drain).                                                         *)
QueueHeld ==
    ~overlap =>
        /\ Len(queue) = Distance(tail, head)
        /\ \A i \in 1..Len(queue) : queue[i] = ring[SlotAfter(tail, i - 1)]

(* What a drain is about to send are the oldest bytes of the queue, and    *)
(* the second frame continues the first, whatever was pushed meanwhile.    *)
SendsTheQueue ==
    ~overlap => \A t \in Tasks :
        /\ pc[t] = "first" =>
              FirstFrame(t) = SubSeq(queue, 1, FirstLength(t))
        /\ pc[t] = "second" =>
              SecondFrame(t) = SubSeq(queue, FirstLength(t) + 1, FirstLength(t) + upto[t])

(* "Discard stale ring data - no WS was listening before": a browser is    *)
(* sent nothing that was logged before it connected, unless it got the     *)
(* socket number of the one before, which the handler takes for the same   *)
(* connection.                                                             *)
NothingStale ==
    ~overlap /\ fd \in open \ reused => \A t \in Tasks :
        /\ pc[t] = "first" =>
              \A i \in 1..FirstLength(t) : FirstFrame(t)[i] > since[fd]
        /\ pc[t] = "second" => \A i \in 1..upto[t] : SecondFrame(t)[i] > since[fd]

(* The ring recovers: also after tasks were in each other's way, and with  *)
(* whatever they left in it, it is drained in the end as long as the       *)
(* browser stays.                                                          *)
RingDrains == (head # tail) ~> (head = tail \/ ~Deliverable)
=============================================================================
