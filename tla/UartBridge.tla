------------------------------ MODULE UartBridge ------------------------------
(***************************************************************************)
(* The UART bridge: bytes that arrive at the Grove connector go to the     *)
(* browser whose WebSocket sent the last frame (uart_ws_handler,           *)
(* uart_ws_cleanup, uart_ws_sender_task and uart_ws_queue_send in          *)
(* src/main/web/web_server.c, src/main/grove/grove_uart.c).                *)
(*                                                                         *)
(* The handlers and the queued sends run one at a time on the web server's *)
(* thread; each connection starts a sender task, and the handler stops the *)
(* last one by a flag, which the task looks at every 100 ms and the        *)
(* handler leaves lowered for 50 ms.  A byte is its number in the order of *)
(* arrival.  What goes the other way, from a frame to the UART, changes    *)
(* nothing here and is left out.                                           *)
(***************************************************************************)
EXTENDS Integers, Sequences

CONSTANTS
    Fds,           \* the socket numbers of the browsers
    NoFd,          \* 0 or -1 in uart_ws_ctx_t.fd
    MaxSenders,    \* bound on the number of sender tasks created
    EventDepth,    \* GROVE_EVT_QD
    BufferSize,    \* GROVE_RX_BUF
    MaxBytes,      \* bound on the number of bytes that arrive
    MaxOddities,   \* bound on the number of events other than data
    MaxWork,       \* bound on the length of the web server's work queue
    Faults         \* what may fail, see FaultKinds

(* A task cannot be created; there is no memory, or no room in the work    *)
(* queue, for a send.                                                      *)
FaultKinds == {"task", "memory"}

ASSUME BridgeAssumption ==
    /\ NoFd \notin Fds
    /\ MaxSenders \in Nat
    /\ EventDepth \in Nat \ {0} /\ BufferSize \in Nat \ {0}
    /\ MaxBytes \in Nat /\ MaxOddities \in Nat /\ MaxWork \in Nat
    /\ Faults \subseteq FaultKinds

VARIABLES
    (* g_ws_ctx; of the server's handle only whether it is there *)
    server, fd, running, task,
    (* the web server's thread *)
    httpd,         \* what it is doing
    request,       \* the socket whose frame it handles
    work,          \* httpd_queue_work: the sends that wait for it
    open,          \* the sockets browsers hold open
    (* the sender tasks *)
    pc,
    data,          \* what each has read from the UART
    target,        \* the socket each is about to queue it for
    (* the UART driver *)
    rx,            \* the bytes that have not been read
    events,        \* s_evt_queue
    arrived,       \* the number of bytes that have arrived
    oddities,      \* the number of events other than data
    (* ghosts *)
    delivered,     \* the bytes sent to a browser
    doubled,       \* two sender tasks have been alive at once
    failed         \* the last sender task could not be created

ctxVars == <<server, fd, running, task>>
httpdVars == <<httpd, request, open>>
senderVars == <<pc, data, target>>
uartVars == <<rx, events, arrived, oddities>>
ghostVars == <<delivered, doubled, failed>>
vars == <<ctxVars, httpdVars, work, senderVars, uartVars, ghostVars>>

HttpdPcs == {"idle", "stop", "delay", "forget", "number", "server", "start", "raise",
             "create", "lower", "receive"}
SenderPcs == {"none", "loop", "wait", "read", "send", "address", "queue", "ended"}

(* The sender tasks in the order of their creation; sender_task is NULL. *)
Senders == 1..MaxSenders
NoSender == 0

(* Nobody has connected yet; the driver is installed. *)
Init ==
    /\ server = FALSE /\ fd = NoFd /\ running = FALSE /\ task = NoSender
    /\ httpd = "idle" /\ request = NoFd /\ work = <<>> /\ open = {}
    /\ pc = [s \in Senders |-> "none"] /\ data = [s \in Senders |-> <<>>]
    /\ target = [s \in Senders |-> NoFd]
    /\ rx = <<>> /\ events = <<>> /\ arrived = 0 /\ oddities = 0
    /\ delivered = <<>> /\ doubled = FALSE /\ failed = FALSE

Alive(s) == pc[s] \notin {"none", "ended"}

-----------------------------------------------------------------------------
(* The UART driver.                                                        *)

(* Mutant of Post: the queue grows. *)
PostAlways(event) == events' = Append(events, event)

(* An event is queued if there is room, and forgotten if there is none. *)
Post(event) == events' = IF Len(events) < EventDepth THEN Append(events, event) ELSE events

(* A byte arrives and is announced.  In a full buffer it is lost, and that *)
(* is announced.                                                           *)
Arrive ==
    /\ arrived < MaxBytes
    /\ arrived' = arrived + 1
    /\ IF Len(rx) < BufferSize
       THEN rx' = Append(rx, arrived + 1) /\ Post("data") /\ UNCHANGED oddities
       ELSE oddities' = oddities + 1 /\ Post("other") /\ UNCHANGED rx
    /\ UNCHANGED <<ctxVars, httpdVars, work, senderVars, ghostVars>>

(* A break or an error on the line. *)
Oddity ==
    /\ oddities < MaxOddities
    /\ oddities' = oddities + 1
    /\ Post("other")
    /\ UNCHANGED <<ctxVars, httpdVars, work, senderVars, rx, arrived, ghostVars>>

-----------------------------------------------------------------------------
(* uart_ws_sender_task.                                                    *)

(* Mutant of SenderLoop: while (true) *)
SenderLoopForever(s) ==
    /\ pc[s] = "loop"
    /\ pc' = [pc EXCEPT ![s] = "wait"]
    /\ UNCHANGED <<ctxVars, httpdVars, work, data, target, uartVars, ghostVars>>

(* while (ctx->running) *)
SenderLoop(s) ==
    /\ pc[s] = "loop"
    /\ pc' = [pc EXCEPT ![s] = IF running THEN "wait" ELSE "ended"]
    /\ UNCHANGED <<ctxVars, httpdVars, work, data, target, uartVars, ghostVars>>

(* Mutant of SenderReceive: the queue is emptied after one event.          *)
SenderReceiveAll(s) ==
    /\ pc[s] = "wait" /\ events # <<>>
    /\ pc' = [pc EXCEPT ![s] = IF Head(events) = "data" THEN "read" ELSE "loop"]
    /\ events' = <<>>
    /\ UNCHANGED <<ctxVars, httpdVars, work, data, target, rx, arrived, oddities, ghostVars>>

(* xQueueReceive gets an event, and only data is looked at. *)
SenderReceive(s) ==
    /\ pc[s] = "wait" /\ events # <<>>
    /\ pc' = [pc EXCEPT ![s] = IF Head(events) = "data" THEN "read" ELSE "loop"]
    /\ events' = Tail(events)
    /\ UNCHANGED <<ctxVars, httpdVars, work, data, target, rx, arrived, oddities, ghostVars>>

(* Nothing comes for 100 ms. *)
SenderTimeout(s) ==
    /\ pc[s] = "wait" /\ events = <<>>
    /\ pc' = [pc EXCEPT ![s] = "loop"]
    /\ UNCHANGED <<ctxVars, httpdVars, work, data, target, uartVars, ghostVars>>

(* Mutant of SenderRead: one byte for each event. *)
SenderReadOne(s) ==
    /\ pc[s] = "read"
    /\ data' = [data EXCEPT ![s] = IF rx = <<>> THEN <<>> ELSE <<Head(rx)>>]
    /\ rx' = IF rx = <<>> THEN <<>> ELSE Tail(rx)
    /\ pc' = [pc EXCEPT ![s] = IF rx = <<>> THEN "loop" ELSE "send"]
    /\ UNCHANGED <<ctxVars, httpdVars, work, target, events, arrived, oddities, ghostVars>>

(* Mutant of SenderRead: the bytes stay in the driver. *)
SenderReadPeek(s) ==
    /\ pc[s] = "read"
    /\ data' = [data EXCEPT ![s] = rx]
    /\ pc' = [pc EXCEPT ![s] = IF rx = <<>> THEN "loop" ELSE "send"]
    /\ UNCHANGED <<ctxVars, httpdVars, work, target, uartVars, ghostVars>>

(* grove_uart_read takes all there is: its buffer is as large as the       *)
(* driver's.                                                               *)
SenderRead(s) ==
    /\ pc[s] = "read"
    /\ data' = [data EXCEPT ![s] = rx]
    /\ rx' = <<>>
    /\ pc' = [pc EXCEPT ![s] = IF rx = <<>> THEN "loop" ELSE "send"]
    /\ UNCHANGED <<ctxVars, httpdVars, work, target, events, arrived, oddities, ghostVars>>

(* What it has read is dropped, or has been queued. *)
SenderDone(s) ==
    /\ data' = [data EXCEPT ![s] = <<>>]
    /\ target' = [target EXCEPT ![s] = NoFd]
    /\ pc' = [pc EXCEPT ![s] = "loop"]

(* The arguments of uart_ws_queue_send are loaded one after the other: the *)
(* server, without which the data is dropped ...                           *)
SenderSend(s) ==
    /\ pc[s] = "send"
    /\ IF server
       THEN pc' = [pc EXCEPT ![s] = "address"] /\ UNCHANGED <<data, target>>
       ELSE SenderDone(s)
    /\ UNCHANGED <<ctxVars, httpdVars, work, uartVars, ghostVars>>

(* ... and the socket.  (C leaves their order open; the other one ends in  *)
(* the same ways, or drops the data, as "memory" does.)                    *)
SenderAddress(s) ==
    /\ pc[s] = "address"
    /\ target' = [target EXCEPT ![s] = fd]
    /\ pc' = [pc EXCEPT ![s] = "queue"]
    /\ UNCHANGED <<ctxVars, httpdVars, work, data, uartVars, ghostVars>>

(* A copy of the data is queued for that socket, or there is no room and   *)
(* it is dropped.                                                          *)
SenderQueue(s) ==
    /\ pc[s] = "queue"
    /\ \/ /\ Len(work) < MaxWork
          /\ work' = Append(work, [to |-> target[s], bytes |-> data[s]])
       \/ "memory" \in Faults /\ UNCHANGED work
    /\ SenderDone(s)
    /\ UNCHANGED <<ctxVars, httpdVars, uartVars, ghostVars>>

SenderStep(s) ==
    \/ SenderLoop(s) \/ SenderReceive(s) \/ SenderTimeout(s) \/ SenderRead(s)
    \/ SenderSend(s) \/ SenderAddress(s) \/ SenderQueue(s)

-----------------------------------------------------------------------------
(* The web server's thread.                                                *)

(* uart_ws_async_send: the socket may be closed by now, and the data lost. *)
HttpdWork ==
    /\ httpd = "idle" /\ work # <<>>
    /\ work' = Tail(work)
    /\ delivered' = IF Head(work).to \in open
                    THEN delivered \o Head(work).bytes ELSE delivered
    /\ UNCHANGED <<ctxVars, httpdVars, senderVars, uartVars, doubled, failed>>

(* uart_ws_handler is called for a frame on socket f: a socket that is not *)
(* the context's is a new connection.                                      *)
HttpdFrame(f) ==
    /\ httpd = "idle" /\ f \in open
    /\ f # fd => \E s \in Senders : pc[s] = "none"
    /\ request' = f
    /\ httpd' = IF f # fd THEN "stop" ELSE "receive"
    /\ UNCHANGED <<ctxVars, open, work, senderVars, uartVars, ghostVars>>

(* uart_ws_cleanup: the flag is lowered ...                                *)
CleanupStop ==
    /\ httpd = "stop"
    /\ IF task # NoSender
       THEN running' = FALSE /\ httpd' = "delay"
       ELSE httpd' = "forget" /\ UNCHANGED running
    /\ UNCHANGED <<server, fd, task, request, open, work, senderVars, uartVars, ghostVars>>

(* ... for 50 ms, in which the sender may or may not look at it ...        *)
CleanupDelay ==
    /\ httpd = "delay"
    /\ task' = NoSender
    /\ httpd' = "forget"
    /\ UNCHANGED <<server, fd, running, request, open, work, senderVars, uartVars, ghostVars>>

(* ... the context is cleared: the server ... *)
CleanupForget ==
    /\ httpd = "forget"
    /\ server' = FALSE
    /\ httpd' = "number"
    /\ UNCHANGED <<fd, running, task, request, open, work, senderVars, uartVars, ghostVars>>

(* A new connection takes the context over next; a handler that failed is  *)
(* done, and the server closes its socket.                                 *)
CleanupEnds ==
    IF fd # request
    THEN httpd' = "server" /\ UNCHANGED <<request, open>>
    ELSE httpd' = "idle" /\ request' = NoFd /\ open' = open \ {request}

(* Mutant of CleanupNumber: the number stays in the context. *)
CleanupNumberNot ==
    /\ httpd = "number"
    /\ CleanupEnds
    /\ UNCHANGED <<ctxVars, work, senderVars, uartVars, ghostVars>>

(* ... and the socket. *)
CleanupNumber ==
    /\ httpd = "number"
    /\ fd' = NoFd
    /\ CleanupEnds
    /\ UNCHANGED <<server, running, task, work, senderVars, uartVars, ghostVars>>

(* The new connection: the server ... *)
HttpdServer ==
    /\ httpd = "server"
    /\ server' = TRUE
    /\ httpd' = "start"
    /\ UNCHANGED <<fd, running, task, request, open, work, senderVars, uartVars, ghostVars>>

(* ... the socket ... *)
HttpdStart ==
    /\ httpd = "start"
    /\ fd' = request
    /\ httpd' = "raise"
    /\ UNCHANGED <<server, running, task, request, open, work, senderVars, uartVars, ghostVars>>

(* ... and the flag are stored ... *)
HttpdRaise ==
    /\ httpd = "raise"
    /\ running' = TRUE
    /\ httpd' = "create"
    /\ UNCHANGED <<server, fd, task, request, open, work, senderVars, uartVars, ghostVars>>

(* ... and xTaskCreate(uart_ws_sender_task) succeeds ... *)
HttpdCreate ==
    /\ httpd = "create"
    /\ \E s \in Senders :
          /\ pc[s] = "none" /\ \A u \in Senders : u < s => pc[u] # "none"
          /\ pc' = [pc EXCEPT ![s] = "loop"]
          /\ task' = s
          /\ doubled' = (doubled \/ \E u \in Senders : Alive(u))
    /\ failed' = FALSE
    /\ httpd' = "receive"
    /\ UNCHANGED <<server, fd, running, request, open, work, data, target, uartVars, delivered>>

(* ... or fails. *)
HttpdCreateFails ==
    /\ httpd = "create" /\ "task" \in Faults
    /\ failed' = TRUE
    /\ httpd' = "lower"
    /\ UNCHANGED <<ctxVars, request, open, work, senderVars, uartVars, delivered, doubled>>

(* Then the flag is lowered again and the connection closed, but its       *)
(* number stays in the context.                                            *)
HttpdLower ==
    /\ httpd = "lower"
    /\ running' = FALSE
    /\ httpd' = "idle" /\ request' = NoFd /\ open' = open \ {request}
    /\ UNCHANGED <<server, fd, task, work, senderVars, uartVars, ghostVars>>

(* The frame is received and written to the UART. *)
HttpdReceive ==
    /\ httpd = "receive"
    /\ httpd' = "idle" /\ request' = NoFd
    /\ UNCHANGED <<ctxVars, open, work, senderVars, uartVars, ghostVars>>

(* It cannot be received, or there is no memory for it. *)
HttpdReceiveFails ==
    /\ httpd = "receive"
    /\ httpd' = "stop"
    /\ UNCHANGED <<ctxVars, request, open, work, senderVars, uartVars, ghostVars>>

(* uart_read_handler: the page asks for what has been read so far.         *)
HttpdRead ==
    /\ httpd = "idle"
    /\ rx' = <<>>
    /\ UNCHANGED <<ctxVars, httpdVars, work, senderVars, events, arrived, oddities, ghostVars>>

HttpdStep ==
    \/ HttpdWork \/ CleanupStop \/ CleanupDelay \/ CleanupForget \/ CleanupNumber
    \/ HttpdServer \/ HttpdStart \/ HttpdRaise \/ HttpdCreate \/ HttpdCreateFails
    \/ HttpdLower \/ HttpdReceive \/ HttpdReceiveFails

(* Browsers come and go.  The server's thread accepts them and closes a    *)
(* socket by itself, between two handlers and without calling one.         *)
Open(f) ==
    /\ httpd = "idle" /\ f \notin open
    /\ open' = open \cup {f}
    /\ UNCHANGED <<ctxVars, httpd, request, work, senderVars, uartVars, ghostVars>>

Close(f) ==
    /\ httpd = "idle" /\ f \in open
    /\ open' = open \ {f}
    /\ UNCHANGED <<ctxVars, httpd, request, work, senderVars, uartVars, ghostVars>>

Next ==
    \/ \E s \in Senders : SenderStep(s)
    \/ HttpdStep \/ HttpdRead
    \/ \E f \in Fds : HttpdFrame(f) \/ Open(f) \/ Close(f)
    \/ Arrive \/ Oddity

Spec == Init /\ [][Next]_vars

(* The sender tasks and the web server's thread run whenever they can.     *)
(* None of the browsers and of the UART.                                   *)
FairSpec ==
    /\ Spec
    /\ \A s \in Senders : WF_vars(SenderStep(s))
    /\ WF_vars(HttpdStep)

-----------------------------------------------------------------------------
(* The properties.                                                         *)

Chunks == Seq(Nat)

(* Every variable holds what its C type and its use allow, and the UART's  *)
(* queue and buffer no more than their size.                               *)
TypeOK ==
    /\ server \in BOOLEAN /\ fd \in Fds \cup {NoFd} /\ running \in BOOLEAN
    /\ task \in Senders \cup {NoSender}
    /\ httpd \in HttpdPcs /\ request \in Fds \cup {NoFd}
    /\ open \subseteq Fds
    /\ work \in Seq([to : Fds \cup {NoFd}, bytes : Chunks])
    /\ pc \in [Senders -> SenderPcs] /\ data \in [Senders -> Chunks]
    /\ target \in [Senders -> Fds \cup {NoFd}]
    /\ rx \in Chunks /\ Len(rx) <= BufferSize
    /\ events \in Seq({"data", "other"}) /\ Len(events) <= EventDepth
    /\ arrived \in Nat /\ oddities \in Nat
    /\ delivered \in Chunks /\ doubled \in BOOLEAN /\ failed \in BOOLEAN

Increasing(s) == \A i, j \in 1..Len(s) : i < j => s[i] < s[j]

(* Bytes wait in the driver for a reason: as long as the line was not odd  *)
(* more often than the event queue is deep, there is an event for them or  *)
(* a sender has taken one and is about to read, although events are        *)
(* dropped when the queue is full and each read takes all (GROVE_EVT_QD,   *)
(* uart_ws_sender_task).                                                   *)
NothingStranded ==
    rx # <<>> /\ oddities < EventDepth =>
        \/ \E i \in 1..Len(events) : events[i] = "data"
        \/ \E s \in Senders : pc[s] = "read"

(* Browsers get bytes in the order of their arrival and none twice, across *)
(* all queues and reconnections, unless the stop of a sender came too late *)
(* for it and two were alive at once.                                      *)
DeliveredInOrder == ~doubled => Increasing(delivered)

(* Between two frames, a connection the handler has accepted has a sender  *)
(* that will not end, unless its creation failed: then the handler takes   *)
(* the next connection with that number for one it has served already      *)
(* (uart_ws_handler, uart_ws_cleanup).                                     *)
ConnectionServed ==
    httpd = "idle" /\ fd \in open /\ ~failed =>
        running /\ task # NoSender /\ Alive(task)

(* A lowered flag that stays down ends every sender, also one that was     *)
(* missed by an earlier stop.                                              *)
SendersEnd == <>[](~running) => <>[](\A s \in Senders : ~Alive(s))

(* What has arrived is read as long as somebody is connected, unless the   *)
(* line was odd as often as the event queue is deep: again and again the   *)
(* driver has nothing to be read.                                          *)
BytesAreRead ==
    []<>(rx = <<>> \/ ~running \/ oddities >= EventDepth)
=============================================================================
