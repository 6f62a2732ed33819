--------------------------- MODULE UartBridgeProofs --------------------------
(***************************************************************************)
(* Proofs about UartBridge for any number of sockets, of sender tasks and  *)
(* of bytes, any depth of the event queue and size of the driver's buffer, *)
(* and any set of faults.                                                  *)
(***************************************************************************)
EXTENDS UartBridge, FiniteSets, FiniteSetTheorems, SequenceTheorems, TLAPS

-----------------------------------------------------------------------------
(* Types.                                                                  *)

LEMMA TypeOKInit == Init => TypeOK
<1> SUFFICES ASSUME Init PROVE TypeOK
  OBVIOUS
<1>1. <<>> \in Chunks /\ Len(<<>>) = 0
  BY DEF Chunks
<1>2. <<>> \in Seq([to : Fds \cup {NoFd}, bytes : Chunks]) /\ <<>> \in Seq({"data", "other"})
  OBVIOUS
<1>3. /\ server \in BOOLEAN /\ fd \in Fds \cup {NoFd} /\ running \in BOOLEAN /\ task \in Senders \cup {NoSender}
      /\ httpd \in HttpdPcs /\ request \in Fds \cup {NoFd} /\ open \subseteq Fds
      /\ arrived \in Nat /\ oddities \in Nat /\ doubled \in BOOLEAN /\ failed \in BOOLEAN
  BY DEF Init, HttpdPcs
<1>4. pc \in [Senders -> SenderPcs] /\ data \in [Senders -> Chunks]
      /\ target \in [Senders -> Fds \cup {NoFd}]
  BY <1>1 DEF Init, SenderPcs
<1>5. /\ rx \in Chunks /\ Len(rx) <= BufferSize
      /\ events \in Seq({"data", "other"}) /\ Len(events) <= EventDepth
      /\ delivered \in Chunks /\ work \in Seq([to : Fds \cup {NoFd}, bytes : Chunks])
  BY <1>1, <1>2, BridgeAssumption DEF Init
<1> QED
  BY <1>3, <1>4, <1>5 DEF TypeOK

(* What Post makes of the event queue. *)
LEMMA PostType ==
  ASSUME events \in Seq({"data", "other"}), Len(events) <= EventDepth,
         NEW event \in {"data", "other"}, Post(event)
  PROVE  /\ events' \in Seq({"data", "other"}) /\ Len(events') <= EventDepth
         /\ \/ Len(events) < EventDepth /\ events' = Append(events, event)
            \/ Len(events) = EventDepth /\ events' = events
  BY BridgeAssumption DEF Post

LEMMA TypeOKStep == TypeOK /\ [Next]_vars => TypeOK'
<1> SUFFICES ASSUME TypeOK, [Next]_vars PROVE TypeOK'
  OBVIOUS
<1> USE BridgeAssumption DEF TypeOK, HttpdPcs, SenderPcs, NoSender
<1>1. CASE UNCHANGED vars
  BY <1>1 DEF vars, senderVars, ctxVars, httpdVars, uartVars, ghostVars
<1>2. ASSUME NEW s \in Senders, SenderStep(s) PROVE TypeOK'
  <2>1. CASE SenderLoop(s)
    BY <2>1 DEF SenderLoop, ctxVars, httpdVars, uartVars, ghostVars
  <2>2. CASE SenderReceive(s)
    <3>1. Tail(events) \in Seq({"data", "other"}) /\ Len(Tail(events)) <= EventDepth
      BY <2>2 DEF SenderReceive
    <3> QED
      BY <2>2, <3>1 DEF SenderReceive, ctxVars, httpdVars, ghostVars
  <2>3. CASE SenderTimeout(s)
    BY <2>3 DEF SenderTimeout, ctxVars, httpdVars, uartVars, ghostVars
  <2>4. CASE SenderRead(s)
    <3>1. <<>> \in Chunks /\ Len(<<>>) = 0
      BY DEF Chunks
    <3> QED
      BY <2>4, <3>1 DEF SenderRead, ctxVars, httpdVars, ghostVars
  <2>5. ASSUME SenderDone(s)
        PROVE  /\ pc' \in [Senders -> SenderPcs] /\ data' \in [Senders -> Chunks]
               /\ target' \in [Senders -> Fds \cup {NoFd}]
    <3>1. <<>> \in Chunks
      BY DEF Chunks
    <3> QED
      BY <2>5, <3>1 DEF SenderDone
  <2>6. CASE SenderSend(s)
    <3>1. /\ pc' \in [Senders -> SenderPcs] /\ data' \in [Senders -> Chunks]
          /\ target' \in [Senders -> Fds \cup {NoFd}]
      BY <2>5, <2>6 DEF SenderSend
    <3> QED
      BY <2>6, <3>1 DEF SenderSend, ctxVars, httpdVars, uartVars, ghostVars
  <2>7. CASE SenderAddress(s)
    BY <2>7 DEF SenderAddress, ctxVars, httpdVars, uartVars, ghostVars
  <2>8. CASE SenderQueue(s)
    <3>1. /\ pc' \in [Senders -> SenderPcs] /\ data' \in [Senders -> Chunks]
          /\ target' \in [Senders -> Fds \cup {NoFd}]
      BY <2>5, <2>8 DEF SenderQueue
    <3>2. work' \in Seq([to : Fds \cup {NoFd}, bytes : Chunks])
      <4>1. CASE work' = Append(work, [to |-> target[s], bytes |-> data[s]])
        <5>1. [to |-> target[s], bytes |-> data[s]] \in [to : Fds \cup {NoFd}, bytes : Chunks]
          OBVIOUS
        <5> QED
          BY <4>1, <5>1, AppendProperties
      <4> QED
        BY <2>8, <4>1 DEF SenderQueue
    <3> QED
      BY <2>8, <3>1, <3>2 DEF SenderQueue, ctxVars, httpdVars, uartVars, ghostVars
  <2> QED
    BY <1>2, <2>1, <2>2, <2>3, <2>4, <2>6, <2>7, <2>8 DEF SenderStep
<1>3. CASE HttpdWork
  <2>1. Head(work).bytes \in Chunks /\ Tail(work) \in Seq([to : Fds \cup {NoFd}, bytes : Chunks])
    <3>1. Head(work) \in [to : Fds \cup {NoFd}, bytes : Chunks]
          /\ Tail(work) \in Seq([to : Fds \cup {NoFd}, bytes : Chunks])
      BY <1>3, HeadTailProperties DEF HttpdWork
    <3> QED
      BY <3>1
  <2>2. delivered' \in Chunks
    BY <1>3, <2>1 DEF HttpdWork, Chunks
  <2> QED
    BY <1>3, <2>1, <2>2 DEF HttpdWork, ctxVars, httpdVars, senderVars, uartVars
<1>4. CASE CleanupStop
  BY <1>4 DEF CleanupStop, senderVars, uartVars, ghostVars
<1>5. CASE CleanupDelay
  BY <1>5 DEF CleanupDelay, senderVars, uartVars, ghostVars
<1>6. CASE CleanupForget
  BY <1>6 DEF CleanupForget, senderVars, uartVars, ghostVars
<1>7. CASE CleanupNumber
  BY <1>7 DEF CleanupNumber, CleanupEnds, senderVars, uartVars, ghostVars
<1>8. CASE HttpdServer \/ HttpdStart \/ HttpdRaise
  BY <1>8 DEF HttpdServer, HttpdStart, HttpdRaise, senderVars, uartVars, ghostVars
<1>16. CASE HttpdCreate
  BY <1>16 DEF HttpdCreate, uartVars
<1>17. CASE HttpdCreateFails \/ HttpdLower
  BY <1>17 DEF HttpdCreateFails, HttpdLower, ctxVars, senderVars, uartVars, ghostVars
<1>9. CASE HttpdReceive
  BY <1>9 DEF HttpdReceive, ctxVars, senderVars, uartVars, ghostVars
<1>10. CASE HttpdReceiveFails
  BY <1>10 DEF HttpdReceiveFails, ctxVars, senderVars, uartVars, ghostVars
<1>11. CASE HttpdRead
  <2>1. <<>> \in Chunks /\ Len(<<>>) = 0
    BY DEF Chunks
  <2> QED
    BY <1>11, <2>1 DEF HttpdRead, ctxVars, httpdVars, senderVars, ghostVars
<1>12. ASSUME NEW f \in Fds, HttpdFrame(f) PROVE TypeOK'
  BY <1>12 DEF HttpdFrame, ctxVars, senderVars, uartVars, ghostVars
<1>13. ASSUME NEW f \in Fds, Open(f) \/ Close(f) PROVE TypeOK'
  BY <1>13 DEF Open, Close, ctxVars, senderVars, uartVars, ghostVars
<1>14. CASE Arrive
  <2>1. CASE Len(rx) < BufferSize
    <3>1. rx' \in Chunks /\ Len(rx') <= BufferSize
      <4>1. rx' = Append(rx, arrived + 1) /\ arrived + 1 \in Nat /\ rx \in Seq(Nat)
        BY <1>14, <2>1 DEF Arrive, Chunks
      <4> QED
        BY <4>1, <2>1, AppendProperties DEF Chunks
    <3>2. events' \in Seq({"data", "other"}) /\ Len(events') <= EventDepth
      BY <1>14, <2>1, PostType DEF Arrive
    <3> QED
      BY <1>14, <2>1, <3>1, <3>2 DEF Arrive, ctxVars, httpdVars, senderVars, ghostVars
  <2>2. CASE ~(Len(rx) < BufferSize)
    <3>1. events' \in Seq({"data", "other"}) /\ Len(events') <= EventDepth
      BY <1>14, <2>2, PostType DEF Arrive
    <3> QED
      BY <1>14, <2>2, <3>1 DEF Arrive, ctxVars, httpdVars, senderVars, ghostVars
  <2> QED
    BY <2>1, <2>2
<1>15. CASE Oddity
  <2>1. events' \in Seq({"data", "other"}) /\ Len(events') <= EventDepth
    BY <1>15, PostType DEF Oddity
  <2> QED
    BY <1>15, <2>1 DEF Oddity, ctxVars, httpdVars, senderVars, ghostVars
<1> QED
  BY <1>1, <1>2, <1>3, <1>4, <1>5, <1>6, <1>7, <1>8, <1>9, <1>10, <1>11, <1>12, <1>13, <1>14, <1>15, <1>16, <1>17
  DEF Next, HttpdStep

(* Every variable keeps its type (uart_ws_ctx_t and the sender tasks), and *)
(* the driver's buffer and event queue their bounds.                       *)
THEOREM BridgeTypes == Spec => []TypeOK
<1> QED
  BY TypeOKInit, TypeOKStep, PTL DEF Spec

-----------------------------------------------------------------------------
(* A connection has a sender.                                              *)

(* Not only between two frames, but also while the handler receives one.   *)
Served ==
    httpd \in {"idle", "receive"} /\ fd # NoFd /\ ~failed =>
        running /\ task \in Senders /\ Alive(task)

(* The flag is up when the sender is created. *)
ServedInv ==
    /\ Served
    /\ httpd = "create" => running
    /\ httpd = "lower" => failed

LEMMA ServedInit == Init => ServedInv
  BY DEF Init, Served, ServedInv

LEMMA ServedStep == TypeOK /\ ServedInv /\ [Next]_vars => ServedInv'
<1> SUFFICES ASSUME TypeOK, ServedInv, [Next]_vars PROVE ServedInv'
  OBVIOUS
<1> USE DEF TypeOK, Served, ServedInv, Alive
<1>1. CASE UNCHANGED vars
  BY <1>1 DEF vars, ctxVars, httpdVars, senderVars, uartVars, ghostVars
<1>2. ASSUME NEW s \in Senders, SenderStep(s) PROVE ServedInv'
  <2>1. UNCHANGED <<httpd, fd, running, task, failed>>
    BY <1>2 DEF SenderStep, SenderLoop, SenderReceive, SenderTimeout, SenderRead, SenderSend,
                SenderAddress, SenderQueue, ctxVars, httpdVars, ghostVars
  <2>2. pc' = [pc EXCEPT ![s] = pc'[s]] /\ (running => pc'[s] \notin {"none", "ended"})
    BY <1>2 DEF SenderStep, SenderLoop, SenderReceive, SenderTimeout, SenderRead, SenderSend,
                SenderAddress, SenderQueue, SenderDone
  <2> QED
    BY <2>1, <2>2
<1>3. CASE HttpdWork
  BY <1>3 DEF HttpdWork, ctxVars, httpdVars, senderVars, ghostVars
<1>4. CASE CleanupStop
  BY <1>4 DEF CleanupStop
<1>5. CASE CleanupDelay
  BY <1>5 DEF CleanupDelay
<1>6. CASE CleanupForget
  BY <1>6 DEF CleanupForget
<1>7. CASE CleanupNumber
  BY <1>7 DEF CleanupNumber, CleanupEnds
<1>8. CASE HttpdServer \/ HttpdStart \/ HttpdRaise \/ HttpdCreateFails
  <2>1. /\ httpd' \in {"start", "raise", "create", "lower"}
        /\ httpd' = "create" => running'
        /\ httpd' = "lower" => failed'
    BY <1>8 DEF HttpdServer, HttpdStart, HttpdRaise, HttpdCreateFails
  <2> QED
    BY <2>1
<1>15. CASE HttpdCreate
  <2>1. httpd = "create" /\ httpd' = "receive" /\ running'
    BY <1>15 DEF HttpdCreate
  <2>2. task' \in Senders /\ pc'[task'] = "loop"
    BY <1>15 DEF HttpdCreate
  <2> QED
    BY <2>1, <2>2
<1>16. CASE HttpdLower
  BY <1>16 DEF HttpdLower, ghostVars
<1>9. CASE HttpdReceive
  BY <1>9 DEF HttpdReceive, ctxVars, senderVars, ghostVars
<1>10. CASE HttpdReceiveFails
  BY <1>10 DEF HttpdReceiveFails
<1>11. CASE HttpdRead
  BY <1>11 DEF HttpdRead, ctxVars, httpdVars, senderVars, ghostVars
<1>12. ASSUME NEW f \in Fds, HttpdFrame(f) PROVE ServedInv'
  BY <1>12 DEF HttpdFrame, ctxVars, senderVars, ghostVars
<1>13. ASSUME NEW f \in Fds, Open(f) \/ Close(f) PROVE ServedInv'
  BY <1>13 DEF Open, Close, ctxVars, senderVars, ghostVars
<1>14. CASE Arrive \/ Oddity
  BY <1>14 DEF Arrive, Oddity, ctxVars, httpdVars, senderVars, ghostVars
<1> QED
  BY <1>1, <1>2, <1>3, <1>4, <1>5, <1>6, <1>7, <1>8, <1>9, <1>10, <1>11, <1>12, <1>13, <1>14, <1>15,
     <1>16
  DEF Next, HttpdStep

(* An accepted connection has a running sender, however it came about      *)
(* (uart_ws_handler, uart_ws_cleanup).                                     *)
THEOREM ConnectionsAreServed == Spec => []ConnectionServed
<1>1. TypeOK /\ ServedInv => ConnectionServed
  BY BridgeAssumption DEF TypeOK, Served, ServedInv, ConnectionServed, NoSender, Senders
<1> QED
  BY <1>1, TypeOKInit, TypeOKStep, ServedInit, ServedStep, PTL DEF Spec
-----------------------------------------------------------------------------
(* Nothing is stranded.                                                    *)

(* The events that are not data. *)
Others(s) == {i \in 1..Len(s) : s[i] = "other"}

Kinds == {"data", "other"}

LEMMA OthersFinite ==
  ASSUME NEW s \in Seq(Kinds)
  PROVE  IsFiniteSet(Others(s)) /\ Cardinality(Others(s)) \in Nat
<1>1. Len(s) \in Nat /\ IsFiniteSet(1..Len(s))
  BY FS_Interval, LenProperties
<1>2. Others(s) \in SUBSET (1..Len(s))
  BY DEF Others
<1> QED
  BY <1>1, <1>2, FS_Subset, FS_CardinalityType

LEMMA OthersAppend ==
  ASSUME NEW s \in Seq(Kinds), NEW e \in Kinds
  PROVE  Cardinality(Others(Append(s, e)))
         <= IF e = "other" THEN Cardinality(Others(s)) + 1 ELSE Cardinality(Others(s))
<1>1. Others(Append(s, e)) = IF e = "other" THEN Others(s) \cup {Len(s) + 1} ELSE Others(s)
  BY AppendProperties, LenProperties DEF Others, Kinds
<1>2. IsFiniteSet(Others(s)) /\ Cardinality(Others(s)) \in Nat
  BY OthersFinite
<1>3. Cardinality(Others(s) \cup {Len(s) + 1}) <= Cardinality(Others(s)) + 1
  <2>1. Cardinality(Others(s) \cup {Len(s) + 1})
        = IF Len(s) + 1 \in Others(s) THEN Cardinality(Others(s)) ELSE Cardinality(Others(s)) + 1
    BY <1>2, FS_AddElement, Zenon
  <2> QED
    BY <1>2, <2>1
<1>4. CASE e = "other"
  <2>1. Others(Append(s, e)) = Others(s) \cup {Len(s) + 1}
    BY <1>1, <1>4
  <2> QED
    BY <2>1, <1>3, <1>4
<1>5. CASE e # "other"
  <2>1. Others(Append(s, e)) = Others(s)
    BY <1>1, <1>5
  <2> QED
    BY <2>1, <1>2, <1>5
<1> QED
  BY <1>4, <1>5

LEMMA OthersTail ==
  ASSUME NEW s \in Seq(Kinds), s # <<>>
  PROVE  Cardinality(Others(Tail(s))) <= Cardinality(Others(s))
<1> DEFINE f == [i \in Others(Tail(s)) |-> i + 1]
<1>1. Len(Tail(s)) = Len(s) - 1 /\ Len(s) \in Nat
      /\ \A i \in 1..Len(Tail(s)) : Tail(s)[i] = s[i + 1]
  BY HeadTailProperties, LenProperties
<1>2. \A i \in Others(Tail(s)) : i \in Nat /\ i + 1 \in Others(s)
  BY <1>1 DEF Others
<1>3. f \in Injection(Others(Tail(s)), Others(s))
  <2>1. f \in [Others(Tail(s)) -> Others(s)]
    BY <1>2
  <2>2. \A i, j \in Others(Tail(s)) : f[i] = f[j] => i = j
    BY <1>2
  <2> QED
    BY <2>1, <2>2 DEF Injection, IsInjective
<1> HIDE DEF f
<1> QED
  BY <1>3, OthersFinite, FS_Injection

LEMMA DataThere ==
  ASSUME NEW s \in Seq(Kinds), Cardinality(Others(s)) < Len(s)
  PROVE  \E i \in 1..Len(s) : s[i] = "data"
<1> SUFFICES ASSUME \A i \in 1..Len(s) : s[i] # "data" PROVE FALSE
  OBVIOUS
<1>1. Len(s) \in Nat /\ \A i \in 1..Len(s) : s[i] \in Kinds
  BY ElementOfSeq, LenProperties
<1>2. Others(s) = 1..Len(s)
  BY <1>1 DEF Others, Kinds
<1>3. Cardinality(1..Len(s)) = Len(s)
  BY <1>1, FS_Interval
<1> QED
  BY <1>1, <1>2, <1>3

(* The line was odd for each of them. *)
FewOthers == Cardinality(Others(events)) <= oddities

StrandInv == FewOthers /\ NothingStranded

LEMMA StrandInit == Init => StrandInv
<1> SUFFICES ASSUME Init PROVE StrandInv
  OBVIOUS
<1>1. Others(events) = {}
  BY DEF Init, Others
<1> QED
  BY <1>1, FS_EmptySet DEF Init, StrandInv, FewOthers, NothingStranded

(* An event that is posted leaves one of the data in the queue, if it is   *)
(* of the data itself or there was one before.                             *)
LEMMA PostKeeps ==
  ASSUME TypeOK, FewOthers, NEW event \in Kinds, Post(event),
         oddities' = IF event = "other" THEN oddities + 1 ELSE oddities
  PROVE  /\ FewOthers'
         /\ (\E i \in 1..Len(events) : events[i] = "data")
            => \E i \in 1..Len(events') : events'[i] = "data"
         /\ event = "data" /\ oddities < EventDepth
            => \E i \in 1..Len(events') : events'[i] = "data"
<1>1. events \in Seq(Kinds) /\ Len(events) \in Nat /\ oddities \in Nat
      /\ Cardinality(Others(events)) \in Nat
  BY OthersFinite, LenProperties DEF TypeOK, Kinds
<1>2. CASE Len(events) < EventDepth /\ events' = Append(events, event)
  <2>1. /\ Len(events') = Len(events) + 1 /\ events'[Len(events) + 1] = event
        /\ \A i \in 1..Len(events) : events'[i] = events[i]
    BY <1>1, <1>2, AppendProperties
  <2>2. Cardinality(Others(events')) \in Nat
    BY <1>1, <1>2, OthersFinite, AppendProperties
  <2>3. FewOthers'
    BY <1>1, <1>2, <2>2, OthersAppend DEF FewOthers
  <2> QED
    BY <1>1, <2>1, <2>3
<1>3. CASE Len(events) = EventDepth /\ events' = events
  <2>1. FewOthers'
    BY <1>1, <1>3 DEF FewOthers
  <2>2. oddities < EventDepth => \E i \in 1..Len(events) : events[i] = "data"
    BY <1>1, <1>3, DataThere DEF FewOthers
  <2> QED
    BY <1>3, <2>1, <2>2
<1> QED
  BY <1>1, <1>2, <1>3, PostType DEF TypeOK, Kinds

(* So does one more oddity. *)
LEMMA OddityKeeps ==
  ASSUME TypeOK, StrandInv, Post("other"), oddities' = oddities + 1, UNCHANGED <<rx, pc>>
  PROVE  StrandInv'
<1>1. "other" \in Kinds
  BY DEF Kinds
<1>2. FewOthers /\ oddities' = IF "other" = "other" THEN oddities + 1 ELSE oddities
  BY DEF StrandInv
<1>3. /\ FewOthers'
      /\ (\E i \in 1..Len(events) : events[i] = "data")
         => \E i \in 1..Len(events') : events'[i] = "data"
  BY <1>1, <1>2, PostKeeps
<1>4. oddities \in Nat /\ EventDepth \in Nat
  BY BridgeAssumption DEF TypeOK
<1> QED
  BY <1>3, <1>4 DEF StrandInv, NothingStranded

LEMMA StrandStep == TypeOK /\ StrandInv /\ [Next]_vars => StrandInv'
<1> SUFFICES ASSUME TypeOK, StrandInv, [Next]_vars PROVE StrandInv'
  OBVIOUS
<1> USE DEF StrandInv, NothingStranded
<1>1. ASSUME UNCHANGED <<rx, events, oddities>>, \A s \in Senders : pc[s] = "read" => pc'[s] = "read"
      PROVE  StrandInv'
  BY <1>1 DEF FewOthers
<1>2. ASSUME UNCHANGED <<events, oddities>>, rx' = <<>> PROVE StrandInv'
  BY <1>2 DEF FewOthers
<1>3. CASE UNCHANGED vars
  BY <1>1, <1>3 DEF vars, senderVars, uartVars
<1>4. ASSUME NEW s \in Senders, SenderStep(s) PROVE StrandInv'
  <2> USE DEF TypeOK
  <2>1. CASE SenderLoop(s)
    BY <1>1, <2>1 DEF SenderLoop, uartVars
  <2>2. CASE SenderReceive(s)
    <3>1. events \in Seq(Kinds) /\ events # <<>> /\ oddities' = oddities /\ rx' = rx
          /\ events' = Tail(events) /\ oddities \in Nat /\ Len(events) \in Nat
      BY <2>2, LenProperties DEF SenderReceive, Kinds
    <3>2. Cardinality(Others(events)) \in Nat /\ Cardinality(Others(events')) \in Nat
      BY <3>1, OthersFinite, HeadTailProperties
    <3>3. FewOthers'
      BY <3>1, <3>2, OthersTail DEF FewOthers
    <3>4. \A u \in Senders : pc[u] = "read" => pc'[u] = "read"
      BY <2>2 DEF SenderReceive
    <3>5. events[1] = "data" => pc'[s] = "read"
      BY <2>2, <3>1 DEF SenderReceive
    <3>6. ASSUME NEW i \in 1..Len(events), i > 1, events[i] = "data"
          PROVE  \E k \in 1..Len(events') : events'[k] = "data"
      <4>1. Len(events') = Len(events) - 1
            /\ \A k \in 1..Len(events') : events'[k] = events[k + 1]
        BY <3>1, HeadTailProperties
      <4>2. i - 1 \in 1..Len(events') /\ events'[i - 1] = events[(i - 1) + 1]
        BY <3>1, <3>6, <4>1
      <4>3. (i - 1) + 1 = i
        BY <3>1
      <4> QED
        BY <4>2, <4>3, <3>6
    <3> QED
      BY <3>1, <3>3, <3>4, <3>5, <3>6
  <2>3. CASE SenderTimeout(s)
    BY <1>1, <2>3 DEF SenderTimeout, uartVars
  <2>4. CASE SenderRead(s)
    BY <1>2, <2>4 DEF SenderRead
  <2>5. CASE SenderSend(s) \/ SenderAddress(s) \/ SenderQueue(s)
    BY <1>1, <2>5 DEF SenderSend, SenderAddress, SenderQueue, SenderDone, uartVars
  <2> QED
    BY <1>4, <2>1, <2>2, <2>3, <2>4, <2>5 DEF SenderStep
<1>5. CASE HttpdStep /\ ~HttpdCreate
  BY <1>1, <1>5 DEF HttpdStep, HttpdWork, CleanupStop, CleanupDelay, CleanupForget,
                    CleanupNumber, HttpdServer, HttpdStart, HttpdRaise, HttpdCreateFails,
                    HttpdLower, HttpdReceive, HttpdReceiveFails, senderVars, uartVars
<1>6. CASE HttpdCreate
  BY <1>1, <1>6 DEF HttpdCreate, uartVars, TypeOK
<1>7. CASE HttpdRead
  BY <1>2, <1>7 DEF HttpdRead
<1>8. ASSUME NEW f \in Fds, HttpdFrame(f) \/ Open(f) \/ Close(f) PROVE StrandInv'
  BY <1>1, <1>8 DEF HttpdFrame, Open, Close, senderVars, uartVars
<1>9. CASE Arrive
  <2>1. CASE Len(rx) < BufferSize
    BY <1>9, <2>1, PostKeeps DEF Arrive, senderVars, Kinds
  <2>2. CASE ~(Len(rx) < BufferSize)
    <3>1. Post("other") /\ oddities' = oddities + 1 /\ UNCHANGED <<rx, pc>>
      BY <1>9, <2>2 DEF Arrive, senderVars
    <3> QED
      BY <3>1, OddityKeeps
  <2> QED
    BY <2>1, <2>2
<1>10. CASE Oddity
  <2>1. Post("other") /\ oddities' = oddities + 1 /\ UNCHANGED <<rx, pc>>
    BY <1>10 DEF Oddity, senderVars
  <2> QED
    BY <2>1, OddityKeeps
<1> QED
  BY <1>3, <1>4, <1>5, <1>6, <1>7, <1>8, <1>9, <1>10 DEF Next, HttpdStep

(* Bytes wait in the driver for a reason (uart_ws_sender_task,             *)
(* GROVE_EVT_QD): the queue cannot be full of other events before as many  *)
(* of them have come as it is deep.                                        *)
THEOREM NothingIsStranded == Spec => []NothingStranded
<1>1. StrandInv => NothingStranded
  BY DEF StrandInv
<1> QED
  BY <1>1, TypeOKInit, TypeOKStep, StrandInit, StrandStep, PTL DEF Spec
-----------------------------------------------------------------------------
(* The order of the bytes.                                                 *)

Below(s, t) == \A i \in 1..Len(s), j \in 1..Len(t) : s[i] < t[j]
UpTo(s, n) == \A i \in 1..Len(s) : s[i] <= n

LEMMA EmptyOrdered ==
  ASSUME NEW s \in Seq(Nat), NEW n \in Nat
  PROVE  Increasing(<<>>) /\ UpTo(<<>>, n) /\ Below(<<>>, s) /\ Below(s, <<>>)
  BY DEF Increasing, UpTo, Below

(* One byte more. *)
LEMMA AppendOrdered ==
  ASSUME NEW s \in Seq(Nat), NEW n \in Nat, Increasing(s), UpTo(s, n)
  PROVE  /\ Increasing(Append(s, n + 1)) /\ UpTo(Append(s, n + 1), n + 1)
         /\ \A t \in Seq(Nat) : Below(t, s) /\ UpTo(t, n) => Below(t, Append(s, n + 1))
<1>1. /\ Len(s) \in Nat /\ \A i \in 1..Len(s) : s[i] \in Nat
      /\ Len(Append(s, n + 1)) = Len(s) + 1
      /\ \A i \in 1..Len(s) : Append(s, n + 1)[i] = s[i]
      /\ Append(s, n + 1)[Len(s) + 1] = n + 1
  BY AppendProperties, LenProperties, ElementOfSeq
<1> DEFINE a == Append(s, n + 1)
<1> HIDE DEF a
<1>2. /\ Len(a) = Len(s) + 1 /\ a[Len(s) + 1] = n + 1
      /\ \A i \in 1..Len(s) : a[i] = s[i]
  BY <1>1 DEF a
<1>3. \A i \in 1..Len(a) : i \in 1..Len(s) \/ i = Len(s) + 1
  BY <1>1, <1>2
<1>4. ASSUME NEW i \in 1..Len(s) PROVE a[i] \in Nat /\ a[i] <= n /\ a[i] = s[i]
  BY <1>1, <1>2 DEF UpTo
<1>5. UpTo(a, n + 1)
  <2> SUFFICES ASSUME NEW i \in 1..Len(a) PROVE a[i] <= n + 1
    BY DEF UpTo
  <2> QED
    BY <1>2, <1>3, <1>4
<1>6. Increasing(a)
  <2> SUFFICES ASSUME NEW i \in 1..Len(a), NEW j \in 1..Len(a), i < j PROVE a[i] < a[j]
    BY DEF Increasing
  <2>1. i \in 1..Len(s)
    BY <1>1, <1>3
  <2>2. CASE j \in 1..Len(s)
    BY <1>4, <2>1, <2>2 DEF Increasing
  <2>3. CASE j = Len(s) + 1
    BY <1>2, <1>4, <2>1, <2>3
  <2> QED
    BY <1>3, <2>2, <2>3
<1>7. ASSUME NEW t \in Seq(Nat), Below(t, s), UpTo(t, n) PROVE Below(t, a)
  <2> SUFFICES ASSUME NEW i \in 1..Len(t), NEW j \in 1..Len(a) PROVE t[i] < a[j]
    BY DEF Below
  <2>1. t[i] \in Nat /\ t[i] <= n
    BY <1>7, ElementOfSeq DEF UpTo
  <2>2. CASE j \in 1..Len(s)
    BY <1>4, <1>7, <2>2 DEF Below
  <2>3. CASE j = Len(s) + 1
    BY <1>2, <2>1, <2>3
  <2> QED
    BY <1>3, <2>2, <2>3
<1> QED
  BY <1>5, <1>6, <1>7 DEF a

(* One sequence behind another. *)
LEMMA ConcatOrdered ==
  ASSUME NEW s \in Seq(Nat), NEW t \in Seq(Nat), Increasing(s), Increasing(t), Below(s, t)
  PROVE  /\ Increasing(s \o t)
         /\ \A n \in Nat : UpTo(s, n) /\ UpTo(t, n) => UpTo(s \o t, n)
         /\ \A u \in Seq(Nat) : Below(s, u) /\ Below(t, u) => Below(s \o t, u)
<1>1. /\ Len(s) \in Nat /\ Len(t) \in Nat
      /\ Len(s \o t) = Len(s) + Len(t)
      /\ \A i \in 1..(Len(s) + Len(t)) :
            (s \o t)[i] = IF i <= Len(s) THEN s[i] ELSE t[i - Len(s)]
  BY ConcatProperties, LenProperties
<1> DEFINE c == s \o t
<1> HIDE DEF c
<1>2. /\ Len(c) = Len(s) + Len(t)
      /\ \A i \in 1..Len(c) : i <= Len(s) => i \in 1..Len(s) /\ c[i] = s[i]
      /\ \A i \in 1..Len(c) : i > Len(s) => i - Len(s) \in 1..Len(t) /\ c[i] = t[i - Len(s)]
  BY <1>1 DEF c
<1>3. Increasing(c)
  <2> SUFFICES ASSUME NEW i \in 1..Len(c), NEW j \in 1..Len(c), i < j PROVE c[i] < c[j]
    BY DEF Increasing
  <2>1. CASE j <= Len(s)
    BY <1>1, <1>2, <2>1 DEF Increasing
  <2>2. CASE i <= Len(s) /\ j > Len(s)
    BY <1>1, <1>2, <2>2 DEF Below
  <2>3. CASE i > Len(s)
    <3>1. i - Len(s) \in 1..Len(t) /\ j - Len(s) \in 1..Len(t) /\ i - Len(s) < j - Len(s)
          /\ c[i] = t[i - Len(s)] /\ c[j] = t[j - Len(s)]
      BY <1>1, <1>2, <2>3
    <3> QED
      BY <3>1 DEF Increasing
  <2> QED
    BY <1>1, <1>2, <2>1, <2>2, <2>3
<1>4. ASSUME NEW n \in Nat, UpTo(s, n), UpTo(t, n) PROVE UpTo(c, n)
  <2> SUFFICES ASSUME NEW i \in 1..Len(c) PROVE c[i] <= n
    BY DEF UpTo
  <2>1. i <= Len(s) \/ i > Len(s)
    BY <1>1, <1>2
  <2> QED
    BY <1>2, <1>4, <2>1 DEF UpTo
<1>5. ASSUME NEW u \in Seq(Nat), Below(s, u), Below(t, u) PROVE Below(c, u)
  <2> SUFFICES ASSUME NEW i \in 1..Len(c), NEW j \in 1..Len(u) PROVE c[i] < u[j]
    BY DEF Below
  <2>1. i <= Len(s) \/ i > Len(s)
    BY <1>1, <1>2
  <2> QED
    BY <1>2, <1>5, <2>1 DEF Below
<1> QED
  BY <1>3, <1>4, <1>5 DEF c

(* What there is of the bytes, from the browser to the driver. *)
Sorted ==
    /\ Increasing(delivered) /\ Increasing(rx)
    /\ \A k \in 1..Len(work) : Increasing(work[k].bytes)
    /\ \A s \in Senders : Increasing(data[s])

Staged ==
    /\ \A k \in 1..Len(work) :
          /\ Below(delivered, work[k].bytes) /\ Below(work[k].bytes, rx)
          /\ \A l \in 1..Len(work) : k < l => Below(work[k].bytes, work[l].bytes)
          /\ \A s \in Senders : Below(work[k].bytes, data[s])
    /\ \A s \in Senders : Below(delivered, data[s]) /\ Below(data[s], rx)
    /\ Below(delivered, rx)

Come ==
    /\ UpTo(delivered, arrived) /\ UpTo(rx, arrived)
    /\ \A k \in 1..Len(work) : UpTo(work[k].bytes, arrived)
    /\ \A s \in Senders : UpTo(data[s], arrived)

OneSender == \A s, u \in Senders : Alive(s) /\ Alive(u) => s = u

OrderInv ==
    /\ \A s \in Senders : data[s] # <<>> => pc[s] \in {"send", "address", "queue"}
    /\ ~doubled => OneSender /\ Sorted /\ Staged /\ Come

LEMMA OrderInit == Init => OrderInv
<1> SUFFICES ASSUME Init PROVE OrderInv
  OBVIOUS
<1>1. /\ delivered = <<>> /\ rx = <<>> /\ work = <<>> /\ Len(work) = 0
      /\ \A s \in Senders : data[s] = <<>> /\ pc[s] = "none"
      /\ arrived = 0
  BY DEF Init
<1>2. OneSender
  BY <1>1 DEF OneSender, Alive
<1>3. Sorted /\ Come /\ Staged
  BY <1>1 DEF Sorted, Staged, Come, Increasing, UpTo, Below
<1> QED
  BY <1>1, <1>2, <1>3 DEF OrderInv

(* What is known of the entries of the work queue. *)
LEMMA WorkBytes ==
  ASSUME TypeOK
  PROVE  Len(work) \in Nat /\ \A k \in 1..Len(work) : work[k].bytes \in Seq(Nat)
<1>1. Len(work) \in Nat /\ \A k \in 1..Len(work) : work[k] \in [to : Fds \cup {NoFd}, bytes : Chunks]
  BY ElementOfSeq, LenProperties DEF TypeOK
<1> QED
  BY <1>1 DEF Chunks

(* A step that leaves the bytes where they are. *)
LEMMA OrderKept ==
  ASSUME OrderInv, UNCHANGED <<delivered, work, data, rx, arrived, doubled>>,
         \A s \in Senders : data[s] # <<>> => pc'[s] \in {pc[s], "address", "queue"},
         ~doubled' => OneSender'
  PROVE  OrderInv'
<1>1. Sorted => Sorted'
  BY DEF Sorted
<1>2. Staged => Staged'
  BY DEF Staged
<1>3. Come => Come'
  BY DEF Come
<1> QED
  BY <1>1, <1>2, <1>3 DEF OrderInv

LEMMA OrderRead ==
  ASSUME TypeOK, OrderInv, NEW s \in Senders, SenderRead(s) PROVE OrderInv'
<1>1. /\ data' = [data EXCEPT ![s] = rx] /\ rx' = <<>>
      /\ pc' = [pc EXCEPT ![s] = IF rx = <<>> THEN "loop" ELSE "send"] /\ pc[s] = "read"
      /\ UNCHANGED <<delivered, work, arrived, doubled>>
  BY DEF SenderRead, ghostVars
<1>2. /\ data'[s] = rx /\ \A u \in Senders \ {s} : data'[u] = data[u]
      /\ \A u \in Senders \ {s} : pc'[u] = pc[u]
      /\ pc'[s] = IF rx = <<>> THEN "loop" ELSE "send"
  BY <1>1 DEF TypeOK
<1>3. /\ delivered \in Seq(Nat) /\ rx \in Seq(Nat) /\ rx' \in Seq(Nat) /\ arrived \in Nat
      /\ \A u \in Senders : data[u] \in Seq(Nat) /\ data'[u] \in Seq(Nat)
  BY <1>1, <1>2 DEF TypeOK, Chunks
<1>4. \A u \in Senders : data'[u] # <<>> => pc'[u] \in {"send", "address", "queue"}
  BY <1>2 DEF OrderInv
<1> SUFFICES ASSUME ~doubled PROVE OneSender' /\ Sorted' /\ Staged' /\ Come'
  BY <1>1, <1>4 DEF OrderInv
<1>5. OneSender /\ Sorted /\ Staged /\ Come
  BY DEF OrderInv
<1>6. OneSender'
  BY <1>1, <1>2, <1>5 DEF OneSender, Alive
<1>7. Sorted'
  BY <1>1, <1>2, <1>3, <1>5, EmptyOrdered DEF Sorted
<1>8. Come'
  BY <1>1, <1>2, <1>3, <1>5, EmptyOrdered DEF Come
<1>9. Staged'
  <2>1. \A t \in Seq(Nat) : Below(t, rx')
    BY <1>1, <1>3, EmptyOrdered
  <2>2. \A k \in 1..Len(work) : work'[k].bytes \in Seq(Nat)
    BY <1>1, WorkBytes
  <2> QED
    BY <1>1, <1>2, <1>3, <1>5, <2>1, <2>2 DEF Staged
<1> QED
  BY <1>6, <1>7, <1>8, <1>9

LEMMA OrderSend ==
  ASSUME TypeOK, OrderInv, NEW s \in Senders, SenderQueue(s) \/ (SenderSend(s) /\ ~server) PROVE OrderInv'
<1>1. /\ data' = [data EXCEPT ![s] = <<>>] /\ pc' = [pc EXCEPT ![s] = "loop"]
      /\ pc[s] \in {"send", "queue"}
      /\ UNCHANGED <<delivered, rx, arrived, doubled>>
      /\ \/ work' = Append(work, [to |-> target[s], bytes |-> data[s]])
         \/ work' = work
  BY DEF SenderQueue, SenderSend, SenderDone, uartVars, ghostVars
<1>2. /\ data'[s] = <<>> /\ \A u \in Senders \ {s} : data'[u] = data[u]
      /\ \A u \in Senders \ {s} : pc'[u] = pc[u]
      /\ pc'[s] = "loop"
  BY <1>1 DEF TypeOK
<1>3. /\ delivered \in Seq(Nat) /\ rx \in Seq(Nat) /\ arrived \in Nat
      /\ \A u \in Senders : data[u] \in Seq(Nat) /\ data'[u] \in Seq(Nat)
  BY <1>1, <1>2 DEF TypeOK, Chunks
<1>4. \A u \in Senders : data'[u] # <<>> => pc'[u] \in {"send", "address", "queue"}
  BY <1>2 DEF OrderInv
<1> SUFFICES ASSUME ~doubled PROVE OneSender' /\ Sorted' /\ Staged' /\ Come'
  BY <1>1, <1>4 DEF OrderInv
<1>5. OneSender /\ Sorted /\ Staged /\ Come
  BY DEF OrderInv
<1>6. OneSender'
  BY <1>1, <1>2, <1>5 DEF OneSender, Alive
<1>7. \A u \in Senders : data'[u] = <<>>
  <2>1. \A u \in Senders \ {s} : pc[u] \notin {"send", "address", "queue"}
    BY <1>1, <1>5 DEF OneSender, Alive
  <2> QED
    BY <1>2, <2>1 DEF OrderInv
<1>8. \A t \in Seq(Nat), u \in Senders :
          /\ Below(t, data'[u]) /\ Below(data'[u], t) /\ Increasing(data'[u])
          /\ UpTo(data'[u], arrived)
  BY <1>3, <1>7, EmptyOrdered
<1>9. CASE work' = work
  <2>1. \A k \in 1..Len(work) : work'[k].bytes \in Seq(Nat)
    BY <1>9, WorkBytes
  <2> QED
    BY <1>1, <1>3, <1>5, <1>6, <1>8, <1>9, <2>1 DEF Sorted, Staged, Come
<1>10. CASE work' = Append(work, [to |-> target[s], bytes |-> data[s]])
  <2>1. /\ Len(work) \in Nat /\ Len(work') = Len(work) + 1
        /\ \A k \in 1..Len(work) : work'[k] = work[k]
        /\ work'[Len(work) + 1].bytes = data[s]
    <3>1. [to |-> target[s], bytes |-> data[s]] \in [to : Fds \cup {NoFd}, bytes : Chunks]
      BY <1>10 DEF TypeOK
    <3>2. work \in Seq([to : Fds \cup {NoFd}, bytes : Chunks])
      BY DEF TypeOK
    <3>3. /\ Len(work') = Len(work) + 1
          /\ \A k \in 1..Len(work) : work'[k] = work[k]
          /\ work'[Len(work) + 1] = [to |-> target[s], bytes |-> data[s]]
      BY <1>10, <3>1, <3>2, AppendProperties
    <3> QED
      BY <3>2, <3>3, LenProperties
  <2>2. \A k \in 1..Len(work) : work[k].bytes \in Seq(Nat)
    BY WorkBytes
  <2> DEFINE new == Len(work) + 1
  <2>3. \A k \in 1..Len(work') : k \in 1..Len(work) \/ k = new
    BY <2>1
  <2>4. /\ work'[new].bytes = data[s] /\ data[s] \in Seq(Nat)
        /\ Increasing(data[s]) /\ UpTo(data[s], arrived)
        /\ Below(delivered, data[s]) /\ Below(data[s], rx)
        /\ \A k \in 1..Len(work) : Below(work[k].bytes, data[s])
    BY <1>3, <1>5, <2>1 DEF Sorted, Staged, Come
  <2>5. \A k, l \in 1..Len(work') : k < l => k \in 1..Len(work)
    BY <2>1
  <2> HIDE DEF new
  <2>6. Sorted' /\ Come'
    BY <1>1, <1>3, <1>5, <1>8, <2>1, <2>3, <2>4 DEF Sorted, Come
  <2>7. ASSUME NEW k \in 1..Len(work')
        PROVE  /\ Below(delivered, work'[k].bytes) /\ Below(work'[k].bytes, rx)
               /\ \A u \in Senders : Below(work'[k].bytes, data'[u])
    BY <1>5, <1>8, <2>1, <2>2, <2>3, <2>4 DEF Staged
  <2>8. ASSUME NEW k \in 1..Len(work'), NEW l \in 1..Len(work'), k < l
         PROVE  Below(work'[k].bytes, work'[l].bytes)
    <3>1. k \in 1..Len(work) /\ work'[k] = work[k]
      BY <2>1, <2>5, <2>8
    <3>2. CASE l \in 1..Len(work)
      BY <1>5, <2>1, <2>8, <3>1, <3>2 DEF Staged
    <3>3. CASE l = new
      BY <2>4, <3>1, <3>3
    <3> QED
      BY <2>3, <3>2, <3>3
  <2>9. Staged'
    BY <1>1, <1>3, <1>5, <1>8, <2>7, <2>8 DEF Staged
  <2> QED
    BY <1>6, <2>6, <2>9
<1> QED
  BY <1>1, <1>9, <1>10

LEMMA OrderWork == TypeOK /\ OrderInv /\ HttpdWork => OrderInv'
<1> SUFFICES ASSUME TypeOK, OrderInv, HttpdWork PROVE OrderInv'
  OBVIOUS
<1>1. /\ UNCHANGED <<data, pc, rx, arrived, doubled>> /\ work' = Tail(work) /\ work # <<>>
      /\ \/ delivered' = delivered \o Head(work).bytes
         \/ delivered' = delivered
  BY DEF HttpdWork, senderVars, uartVars
<1>2. /\ delivered \in Seq(Nat) /\ rx \in Seq(Nat) /\ arrived \in Nat
      /\ \A u \in Senders : data[u] \in Seq(Nat)
  BY DEF TypeOK, Chunks
<1>3. /\ Len(work) \in Nat \ {0} /\ Len(work') = Len(work) - 1
      /\ \A k \in 1..Len(work') : work'[k] = work[k + 1]
      /\ Head(work) = work[1]
  <2>1. work \in Seq([to : Fds \cup {NoFd}, bytes : Chunks])
    BY DEF TypeOK
  <2> QED
    BY <1>1, <2>1, HeadTailProperties, LenProperties, EmptySeq
<1>4. \A k \in 1..Len(work) : work[k].bytes \in Seq(Nat)
  BY WorkBytes
<1>5. \A k \in 1..Len(work') : k + 1 \in 1..Len(work) /\ 1 < k + 1
  BY <1>3
<1> SUFFICES ASSUME ~doubled PROVE OneSender' /\ Sorted' /\ Staged' /\ Come'
  BY <1>1 DEF OrderInv
<1>6. OneSender /\ Sorted /\ Staged /\ Come
  BY DEF OrderInv
<1>7. OneSender'
  BY <1>1, <1>6 DEF OneSender, Alive
<1> DEFINE first == work[1].bytes
<1>8. /\ first \in Seq(Nat) /\ Increasing(first) /\ UpTo(first, arrived)
      /\ Below(delivered, first) /\ Below(first, rx)
      /\ \A s \in Senders : Below(first, data[s])
      /\ \A k \in 1..Len(work') : Below(first, work[k + 1].bytes)
  <2>1. 1 \in 1..Len(work)
    BY <1>3
  <2>2. first \in Seq(Nat) /\ Increasing(first) /\ UpTo(first, arrived)
    BY <1>4, <1>6, <2>1 DEF Sorted, Come
  <2>3. /\ Below(delivered, first) /\ Below(first, rx)
        /\ \A s \in Senders : Below(first, data[s])
    BY <1>6, <2>1 DEF Staged
  <2>4. \A k \in 1..Len(work') : Below(first, work[k + 1].bytes)
    BY <1>5, <1>6, <2>1 DEF Staged
  <2> QED
    BY <2>2, <2>3, <2>4
<1> HIDE DEF first
<1>9. /\ Increasing(delivered') /\ UpTo(delivered', arrived) /\ Below(delivered', rx)
      /\ \A s \in Senders : Below(delivered', data[s])
      /\ \A k \in 1..Len(work') : Below(delivered', work[k + 1].bytes)
  <2>1. /\ Increasing(delivered) /\ UpTo(delivered, arrived) /\ Below(delivered, rx)
        /\ \A s \in Senders : Below(delivered, data[s])
        /\ \A k \in 1..Len(work') : Below(delivered, work[k + 1].bytes)
    BY <1>5, <1>6 DEF Sorted, Staged, Come
  <2>2. CASE delivered' = delivered
    BY <2>1, <2>2
  <2>3. CASE delivered' = delivered \o Head(work).bytes
    <3>1. delivered' = delivered \o first
      BY <1>3, <2>3 DEF first
    <3>2. /\ Increasing(delivered \o first) /\ UpTo(delivered \o first, arrived)
          /\ \A u \in Seq(Nat) : Below(delivered, u) /\ Below(first, u)
                                  => Below(delivered \o first, u)
      BY <1>2, <1>8, <2>1, ConcatOrdered
    <3> QED
      BY <1>2, <1>4, <1>5, <1>8, <2>1, <3>1, <3>2
  <2> QED
    BY <1>1, <2>2, <2>3
<1>10. Sorted' /\ Come'
  BY <1>1, <1>3, <1>5, <1>6, <1>9 DEF Sorted, Come
<1>11. Staged'
  <2>1. ASSUME NEW k \in 1..Len(work'), NEW l \in 1..Len(work'), k < l
        PROVE  Below(work'[k].bytes, work'[l].bytes)
    <3>1. k + 1 < l + 1 /\ k + 1 \in 1..Len(work) /\ l + 1 \in 1..Len(work)
      BY <1>3, <1>5, <2>1
    <3> QED
      BY <1>3, <1>6, <3>1 DEF Staged
  <2> QED
    BY <1>1, <1>3, <1>5, <1>6, <1>9, <2>1 DEF Staged
<1> QED
  BY <1>7, <1>10, <1>11

LEMMA OrderArrive == TypeOK /\ OrderInv /\ Arrive => OrderInv'
<1> SUFFICES ASSUME TypeOK, OrderInv, Arrive PROVE OrderInv'
  OBVIOUS
<1>1. /\ UNCHANGED <<data, pc, work, delivered, doubled>> /\ arrived' = arrived + 1
      /\ rx' = rx \/ rx' = Append(rx, arrived + 1)
  BY DEF Arrive, senderVars, ghostVars
<1>2. /\ delivered \in Seq(Nat) /\ rx \in Seq(Nat) /\ arrived \in Nat
      /\ \A u \in Senders : data[u] \in Seq(Nat)
      /\ \A k \in 1..Len(work) : work[k].bytes \in Seq(Nat)
  BY WorkBytes DEF TypeOK, Chunks
<1> SUFFICES ASSUME ~doubled PROVE OneSender' /\ Sorted' /\ Staged' /\ Come'
  BY <1>1 DEF OrderInv
<1>3. OneSender /\ Sorted /\ Staged /\ Come
  BY DEF OrderInv
<1>4. OneSender'
  BY <1>1, <1>3 DEF OneSender, Alive
<1>5. \A t \in Seq(Nat) : UpTo(t, arrived) => UpTo(t, arrived + 1)
  <2> SUFFICES ASSUME NEW t \in Seq(Nat), UpTo(t, arrived), NEW i \in 1..Len(t)
               PROVE  t[i] <= arrived + 1
    BY DEF UpTo
  <2>1. t[i] \in Nat /\ t[i] <= arrived
    BY ElementOfSeq DEF UpTo
  <2> QED
    BY <1>2, <2>1
<1>6. /\ Increasing(rx') /\ UpTo(rx', arrived + 1)
      /\ \A t \in Seq(Nat) : Below(t, rx) /\ UpTo(t, arrived) => Below(t, rx')
  <2>1. Increasing(rx) /\ UpTo(rx, arrived)
    BY <1>3 DEF Sorted, Come
  <2> QED
    BY <1>1, <1>2, <1>5, <2>1, AppendOrdered
<1>7. Sorted' /\ Come'
  BY <1>1, <1>2, <1>3, <1>5, <1>6 DEF Sorted, Come
<1>8. Staged'
  BY <1>1, <1>2, <1>3, <1>6 DEF Staged, Come
<1> QED
  BY <1>4, <1>7, <1>8

LEMMA OrderStep == TypeOK /\ OrderInv /\ [Next]_vars => OrderInv'
<1> SUFFICES ASSUME TypeOK, OrderInv, [Next]_vars PROVE OrderInv'
  OBVIOUS
<1>1. ASSUME UNCHANGED <<delivered, work, data, rx, arrived, doubled, pc>> PROVE OrderInv'
  BY <1>1, OrderKept DEF OrderInv, OneSender, Alive
<1>2. CASE UNCHANGED vars
  BY <1>1, <1>2 DEF vars, senderVars, uartVars, ghostVars
<1>3. ASSUME NEW s \in Senders, SenderStep(s) PROVE OrderInv'
  <2>1. CASE SenderLoop(s) \/ SenderReceive(s) \/ SenderTimeout(s)
    <3>1. /\ UNCHANGED <<delivered, work, data, rx, arrived, doubled>>
          /\ pc' = [pc EXCEPT ![s] = pc'[s]] /\ Alive(s)
          /\ pc[s] \notin {"send", "address", "queue"}
      BY <2>1 DEF SenderLoop, SenderReceive, SenderTimeout, uartVars, ghostVars, Alive, TypeOK
    <3>2. \A u \in Senders : data[u] # <<>> => pc'[u] = pc[u]
      BY <3>1 DEF OrderInv, TypeOK
    <3>3. OneSender => OneSender'
      BY <3>1 DEF OneSender, Alive, TypeOK
    <3> QED
      BY <3>1, <3>2, <3>3, OrderKept DEF OrderInv
  <2>2. CASE SenderAddress(s) \/ (SenderSend(s) /\ server)
    <3>1. /\ UNCHANGED <<delivered, work, data, rx, arrived, doubled>>
          /\ pc' = [pc EXCEPT ![s] = pc'[s]] /\ Alive(s) /\ pc'[s] \in {"address", "queue"}
      BY <2>2 DEF SenderAddress, SenderSend, uartVars, ghostVars, Alive, TypeOK
    <3>2. \A u \in Senders : data[u] # <<>> => pc'[u] \in {pc[u], "address", "queue"}
      BY <3>1 DEF OrderInv, TypeOK
    <3>3. OneSender => OneSender'
      BY <3>1 DEF OneSender, Alive, TypeOK
    <3> QED
      BY <3>1, <3>2, <3>3, OrderKept DEF OrderInv
  <2>3. CASE SenderRead(s)
    BY <2>3, OrderRead
  <2>4. CASE SenderQueue(s) \/ (SenderSend(s) /\ ~server)
    BY <2>4, OrderSend
  <2> QED
    BY <1>3, <2>1, <2>2, <2>3, <2>4 DEF SenderStep
<1>4. CASE HttpdWork
  BY <1>4, OrderWork
<1>5. CASE HttpdStep /\ ~HttpdWork /\ ~HttpdCreate
  BY <1>1, <1>5 DEF HttpdStep, CleanupStop, CleanupDelay, CleanupForget, CleanupNumber,
                    HttpdServer, HttpdStart, HttpdRaise, HttpdCreateFails, HttpdLower,
                    HttpdReceive, HttpdReceiveFails, senderVars, uartVars, ghostVars
<1>6. CASE HttpdCreate
  <2>1. UNCHANGED <<delivered, work, data, rx, arrived>>
    BY <1>6 DEF HttpdCreate, uartVars
  <2>2. PICK s \in Senders : /\ pc[s] = "none" /\ pc' = [pc EXCEPT ![s] = "loop"]
                             /\ doubled' = (doubled \/ \E u \in Senders : Alive(u))
    BY <1>6 DEF HttpdCreate
  <2>3. \A u \in Senders : data[u] # <<>> => pc'[u] = pc[u]
    BY <2>2 DEF OrderInv, TypeOK
  <2>4. ~doubled' => OneSender'
    BY <2>2 DEF OneSender, Alive, TypeOK
  <2>5. Sorted => Sorted'
    BY <2>1 DEF Sorted
  <2>6. Staged => Staged'
    BY <2>1 DEF Staged
  <2>7. Come => Come'
    BY <2>1 DEF Come
  <2> QED
    BY <2>1, <2>2, <2>3, <2>4, <2>5, <2>6, <2>7 DEF OrderInv
<1>7. CASE HttpdRead
  <2>1. UNCHANGED <<delivered, work, data, arrived, doubled, pc>> /\ rx' = <<>>
    BY <1>7 DEF HttpdRead, senderVars, ghostVars
  <2>2. /\ delivered \in Seq(Nat) /\ arrived \in Nat
        /\ \A u \in Senders : data[u] \in Seq(Nat)
        /\ \A k \in 1..Len(work) : work[k].bytes \in Seq(Nat)
    BY WorkBytes DEF TypeOK, Chunks
  <2>3. OneSender => OneSender'
    BY <2>1 DEF OneSender, Alive
  <2>4. Sorted => Sorted'
    BY <2>1, <2>2, EmptyOrdered DEF Sorted
  <2>5. Staged => Staged'
    BY <2>1, <2>2, EmptyOrdered DEF Staged
  <2>6. Come => Come'
    BY <2>1, <2>2, EmptyOrdered DEF Come
  <2> QED
    BY <2>1, <2>3, <2>4, <2>5, <2>6 DEF OrderInv
<1>8. ASSUME NEW f \in Fds, HttpdFrame(f) \/ Open(f) \/ Close(f) PROVE OrderInv'
  BY <1>1, <1>8 DEF HttpdFrame, Open, Close, senderVars, uartVars, ghostVars
<1>9. CASE Arrive
  BY <1>9, OrderArrive
<1>10. CASE Oddity
  BY <1>1, <1>10 DEF Oddity, senderVars, ghostVars
<1> QED
  BY <1>2, <1>3, <1>4, <1>5, <1>6, <1>7, <1>8, <1>9, <1>10 DEF Next, HttpdStep

(* Browsers get the bytes in the order in which they came and none twice,  *)
(* through the driver, the sender's buffer and the web server's work queue *)
(* (uart_ws_sender_task, uart_ws_queue_send, uart_ws_async_send).          *)
THEOREM BytesInOrder == Spec => []DeliveredInOrder
<1>1. OrderInv => DeliveredInOrder
  BY DEF OrderInv, DeliveredInOrder, Sorted
<1> QED
  BY <1>1, TypeOKInit, TypeOKStep, OrderInit, OrderStep, PTL DEF Spec
=============================================================================
