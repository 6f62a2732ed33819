---------------------------- MODULE LogRingProofs ----------------------------
(***************************************************************************)
(* Proofs about LogRing for any size of the ring, any number of tasks,     *)
(* lines and browsers.                                                     *)
(***************************************************************************)
EXTENDS LogRing, SequenceTheorems, TLAPS

-----------------------------------------------------------------------------
(* The arithmetic of the ring.                                             *)

LEMMA SlotTypes ==
  ASSUME NEW a \in Index, NEW b \in Index
  PROVE  /\ Distance(a, b) \in 0..(RingSize - 1)
         /\ Distance(a, b) = 0 <=> a = b
         /\ \A n \in 0..(RingSize - 1) : SlotAfter(a, n) \in Index
         /\ SlotAfter(a, Distance(a, b)) = b
  BY LogAssumption DEF Index, Distance, SlotAfter

LEMMA NextSlotType == ASSUME NEW a \in Index PROVE NextSlot(a) \in Index
  BY LogAssumption DEF Index, NextSlot

(* Different offsets are different slots. *)
LEMMA SlotsDiffer ==
  ASSUME NEW a \in Index, NEW n \in 0..(RingSize - 1), NEW m \in 0..(RingSize - 1),
         SlotAfter(a, n) = SlotAfter(a, m)
  PROVE  n = m
  BY LogAssumption DEF Index, SlotAfter

(* The ring grows by a slot at its head ... *)
LEMMA HeadAdvances ==
  ASSUME NEW a \in Index, NEW b \in Index
  PROVE  /\ Distance(a, b) < RingSize - 1 => Distance(a, NextSlot(b)) = Distance(a, b) + 1
         /\ NextSlot(b) # a => Distance(a, b) < RingSize - 1
  BY LogAssumption DEF Index, NextSlot, Distance

(* ... and shrinks by any number of them at its tail. *)
LEMMA TailAdvances ==
  ASSUME NEW a \in Index, NEW b \in Index, NEW c \in Index, Distance(a, c) <= Distance(a, b)
  PROVE  /\ Distance(c, b) = Distance(a, b) - Distance(a, c)
         /\ \A n \in 0..(Distance(c, b)) : SlotAfter(c, n) = SlotAfter(a, Distance(a, c) + n)
  BY LogAssumption DEF Index, Distance, SlotAfter

-----------------------------------------------------------------------------
(* Types.                                                                  *)

(* A task that stores a byte has one left; only the server's runs handlers. *)
TypeInv ==
    /\ TypeOK
    /\ \A t \in Tasks : /\ pc[t] \in {"store", "advance"} => left[t] # 0
                        /\ pc[t] \in DiscardPcs \cup {"forget"} => t = Httpd

LEMMA TypeInvInit == Init => TypeInv
<1> SUFFICES ASSUME Init PROVE TypeInv
  OBVIOUS
<1>1. 0 \in Index
  BY LogAssumption DEF Index
<1>2. <<>> \in Seq(Nat)
  OBVIOUS
<1> QED
  BY <1>1, <1>2 DEF Init, TypeInv, TypeOK, Pcs, DiscardPcs

LEMMA EntersType ==
  ASSUME overlap \in BOOLEAN, NEW t, NEW places, Enters(t, places)
  PROVE  overlap' \in BOOLEAN /\ (overlap => overlap') /\ (Another(t, places) => overlap')
<1>1. Another(t, places) \in BOOLEAN
  BY DEF Another
<1> QED
  BY <1>1 DEF Enters

(* What is typed besides the places of the tasks. *)
OtherTypes ==
    /\ ring \in [Index -> Nat] /\ head \in Index /\ tail \in Index
    /\ connected \in BOOLEAN /\ fd \in Fds \cup {NoFd}
    /\ left \in [Tasks -> Nat] /\ next \in [Tasks -> Index]
    /\ from \in [Tasks -> Index] /\ upto \in [Tasks -> Index]
    /\ open \subseteq Fds /\ opens \in Nat /\ lines \in Nat
    /\ made \in Nat /\ queue \in Seq(Nat)
    /\ since \in [Fds -> Nat] /\ reused \subseteq Fds
    /\ overlap \in BOOLEAN

LEMMA TypeInvParts == TypeInv => OtherTypes /\ pc \in [Tasks -> Pcs]
  BY DEF TypeInv, TypeOK, OtherTypes

(* What a step that moves one task has to show. *)
LEMMA TypeInvMoves ==
  ASSUME TypeInv, OtherTypes', NEW t \in Tasks, NEW p \in Pcs,
         pc' = [pc EXCEPT ![t] = p],
         \A u \in Tasks \ {t} : left'[u] = left[u],
         p \in {"store", "advance"} => left'[t] # 0,
         p \in DiscardPcs \cup {"forget"} => t = Httpd
  PROVE  TypeInv'
<1>1. pc \in [Tasks -> Pcs]
  BY DEF TypeInv, TypeOK
<1>2. pc' \in [Tasks -> Pcs] /\ pc'[t] = p /\ \A u \in Tasks \ {t} : pc'[u] = pc[u]
  BY <1>1
<1>3. TypeOK'
  BY <1>2 DEF OtherTypes, TypeOK
<1> QED
  BY <1>2, <1>3 DEF TypeInv

(* What one that moves none has to. *)
LEMMA TypeInvStays ==
  ASSUME TypeInv, OtherTypes', pc' = pc, left' = left PROVE TypeInv'
  BY DEF TypeInv, TypeOK, OtherTypes

LEMMA Zeroes ==
  0 \in Index /\ Lengths \subseteq Nat \ {0} /\ Monitor \in Tasks /\ Httpd \in Tasks
  BY LogAssumption DEF Index

LEMMA TypeInvPush ==
  ASSUME TypeInv, NEW t \in Tasks, Push(t) PROVE TypeInv'
<1> USE DEF Goto
<1>1. OtherTypes /\ pc \in [Tasks -> Pcs]
  BY TypeInvParts
<1>2. {"check", "store", "advance", "used", "tail", "idle"} \subseteq Pcs
  BY DEF Pcs, PushPcs, DrainPcs
<1>3. "check" \notin DiscardPcs /\ "store" \notin DiscardPcs /\ "advance" \notin DiscardPcs
      /\ "used" \notin DiscardPcs /\ "tail" \notin DiscardPcs /\ "idle" \notin DiscardPcs
  BY DEF DiscardPcs
<1>4. CASE PushCheck(t)
  <2>1. NextSlot(head) \in Index
    BY <1>1, NextSlotType DEF OtherTypes
  <2>2. CASE left[t] = 0 \/ NextSlot(head) = tail
    <3>1. /\ pc' = [pc EXCEPT ![t] = "used"] /\ left' = [left EXCEPT ![t] = 0] /\ next' = next
          /\ UNCHANGED <<ringVars, ctxVars, from, upto, browserVars, lines, made, queue, overlap>>
      BY <1>4, <2>2 DEF PushCheck
    <3>2. left' \in [Tasks -> Nat] /\ \A u \in Tasks \ {t} : left'[u] = left[u]
      BY <1>1, <3>1 DEF OtherTypes
    <3>3. OtherTypes'
      BY <1>1, <3>1, <3>2 DEF OtherTypes, ringVars, ctxVars, browserVars
    <3> QED
      BY <1>2, <1>3, <3>1, <3>2, <3>3, TypeInvMoves
  <2>3. CASE ~(left[t] = 0 \/ NextSlot(head) = tail)
    <3>1. /\ pc' = [pc EXCEPT ![t] = "store"] /\ left[t] # 0 /\ left' = left
          /\ next' = [next EXCEPT ![t] = NextSlot(head)]
          /\ UNCHANGED <<ringVars, ctxVars, from, upto, browserVars, lines, made, queue, overlap>>
      BY <1>4, <2>3 DEF PushCheck
    <3>2. next' \in [Tasks -> Index]
      BY <1>1, <2>1, <3>1 DEF OtherTypes
    <3>3. OtherTypes'
      BY <1>1, <3>1, <3>2 DEF OtherTypes, ringVars, ctxVars, browserVars
    <3> QED
      BY <1>2, <1>3, <3>1, <3>3, TypeInvMoves
  <2> QED
    BY <2>2, <2>3
<1>5. CASE PushStore(t)
  <2>1. ring' \in [Index -> Nat] /\ made' \in Nat
    BY <1>1, <1>5 DEF PushStore, OtherTypes
  <2>2. OtherTypes'
    BY <1>1, <1>5, <2>1 DEF PushStore, OtherTypes, ctxVars, browserVars
  <2>3. pc[t] = "store" /\ pc' = [pc EXCEPT ![t] = "advance"] /\ left' = left
    BY <1>5 DEF PushStore
  <2>4. left[t] # 0
    BY <2>3 DEF TypeInv
  <2> QED
    BY <1>2, <1>3, <2>2, <2>3, <2>4, TypeInvMoves
<1>6. CASE PushAdvance(t)
  <2>1. /\ pc[t] = "advance" /\ pc' = [pc EXCEPT ![t] = "check"]
        /\ left' = [left EXCEPT ![t] = left[t] - 1] /\ next' = [next EXCEPT ![t] = 0]
        /\ head' = next[t] /\ queue' = Append(queue, ring[head])
        /\ UNCHANGED <<ring, tail, ctxVars, from, upto, browserVars, lines, made, overlap>>
    BY <1>6 DEF PushAdvance
  <2>2. queue' \in Seq(Nat)
    BY <1>1, <2>1, AppendProperties DEF OtherTypes
  <2>3. head' \in Index /\ next' \in [Tasks -> Index]
    BY <1>1, <2>1, Zeroes DEF OtherTypes
  <2>4. left[t] # 0
    BY <2>1 DEF TypeInv
  <2>5. left' \in [Tasks -> Nat] /\ \A u \in Tasks \ {t} : left'[u] = left[u]
    BY <1>1, <2>1, <2>4 DEF OtherTypes
  <2>6. OtherTypes'
    BY <1>1, <2>1, <2>2, <2>3, <2>5 DEF OtherTypes, ctxVars, browserVars
  <2> QED
    BY <1>2, <1>3, <2>1, <2>5, <2>6, TypeInvMoves
<1>7. CASE PushUsed(t)
  <2>1. OtherTypes' /\ left' = left
    BY <1>1, <1>7 DEF PushUsed, OtherTypes, ringVars, ctxVars, browserVars
  <2>2. pc' = [pc EXCEPT ![t] = "tail"] \/ pc' = [pc EXCEPT ![t] = "idle"]
    BY <1>7 DEF PushUsed
  <2>3. \A p \in {"tail", "idle"} : p \in Pcs /\ p \notin DiscardPcs
    BY <1>2, <1>3
  <2>4. CASE pc' = [pc EXCEPT ![t] = "tail"]
    BY <2>1, <2>3, <2>4, TypeInvMoves
  <2>5. CASE pc' = [pc EXCEPT ![t] = "idle"]
    BY <2>1, <2>3, <2>5, TypeInvMoves
  <2> QED
    BY <2>2, <2>4, <2>5
<1> QED
  BY <1>4, <1>5, <1>6, <1>7 DEF Push

(* web_log_drain returns, having left its locals behind. *)
LEMMA TypeInvDrainEnds ==
  ASSUME TypeInv, NEW t \in Tasks, DrainEnds(t), left' = left,
         \/ OtherTypes'
         \/ UNCHANGED <<ringVars, ctxVars, next, browserVars, lines, made, queue, overlap>>
  PROVE  TypeInv'
<1>1. OtherTypes
  BY TypeInvParts
<1>2. /\ pc' = [pc EXCEPT ![t] = "idle"]
      /\ from' = [from EXCEPT ![t] = 0] /\ upto' = [upto EXCEPT ![t] = 0]
  BY DEF DrainEnds, Goto
<1>3. from' \in [Tasks -> Index] /\ upto' \in [Tasks -> Index]
  BY <1>1, <1>2, Zeroes DEF OtherTypes
<1>4. OtherTypes'
  BY <1>1, <1>3 DEF OtherTypes, ringVars, ctxVars, browserVars
<1>5. "idle" \in Pcs /\ "idle" \notin DiscardPcs
  BY DEF Pcs, DiscardPcs
<1> QED
  BY <1>2, <1>4, <1>5, TypeInvMoves

LEMMA TypeInvDrain ==
  ASSUME TypeInv, NEW t \in Tasks, Drain(t) PROVE TypeInv'
<1> USE DEF Goto
<1>1. OtherTypes /\ pc \in [Tasks -> Pcs]
  BY TypeInvParts
<1>2. {"head", "first", "second", "release"} \subseteq Pcs
  BY DEF Pcs, DrainPcs
<1>3. "head" \notin DiscardPcs /\ "first" \notin DiscardPcs /\ "second" \notin DiscardPcs
      /\ "release" \notin DiscardPcs
  BY DEF DiscardPcs
<1>4. CASE DrainTail(t)
  <2>1. overlap' \in BOOLEAN
    BY <1>1, <1>4, EntersType DEF DrainTail, OtherTypes
  <2>2. /\ pc' = [pc EXCEPT ![t] = "head"] /\ from' = [from EXCEPT ![t] = tail]
        /\ UNCHANGED <<ringVars, ctxVars, left, next, upto, browserVars, lines, made, queue>>
    BY <1>4 DEF DrainTail
  <2>3. from' \in [Tasks -> Index]
    BY <1>1, <2>2 DEF OtherTypes
  <2>4. OtherTypes'
    BY <1>1, <2>1, <2>2, <2>3 DEF OtherTypes, ringVars, ctxVars, browserVars
  <2> QED
    BY <1>2, <1>3, <2>2, <2>4, TypeInvMoves
<1>5. CASE DrainHead(t)
  <2>1. UNCHANGED <<ringVars, ctxVars, left, next, browserVars, lines, made, queue, overlap>>
    BY <1>5 DEF DrainHead
  <2>2. CASE head = from[t]
    <3>1. DrainEnds(t)
      BY <1>5, <2>2 DEF DrainHead
    <3> QED
      BY <2>1, <3>1, TypeInvDrainEnds
  <2>3. CASE head # from[t]
    <3>1. /\ pc' = [pc EXCEPT ![t] = "first"] /\ from' = from
          /\ upto' = [upto EXCEPT ![t] = head]
      BY <1>5, <2>3 DEF DrainHead
    <3>2. upto' \in [Tasks -> Index]
      BY <1>1, <3>1 DEF OtherTypes
    <3>3. OtherTypes'
      BY <1>1, <2>1, <3>1, <3>2 DEF OtherTypes, ringVars, ctxVars, browserVars
    <3> QED
      BY <1>2, <1>3, <2>1, <3>1, <3>3, TypeInvMoves
  <2> QED
    BY <2>2, <2>3
<1>6. CASE DrainFirst(t)
  <2>1. OtherTypes' /\ left' = left
    BY <1>1, <1>6 DEF DrainFirst, OtherTypes, ringVars, ctxVars, browserVars
  <2>2. pc' = [pc EXCEPT ![t] = IF Wraps(t) THEN "second" ELSE "release"]
    BY <1>6 DEF DrainFirst
  <2> QED
    BY <1>2, <1>3, <2>1, <2>2, TypeInvMoves
<1>7. CASE DrainSecond(t)
  <2>1. OtherTypes' /\ left' = left /\ pc' = [pc EXCEPT ![t] = "release"]
    BY <1>1, <1>7 DEF DrainSecond, OtherTypes, ringVars, ctxVars, browserVars
  <2> QED
    BY <1>2, <1>3, <2>1, TypeInvMoves
<1>8. CASE DrainFails(t)
  BY <1>8, TypeInvDrainEnds DEF DrainFails
<1>9. CASE DrainRelease(t)
  <2>1. /\ DrainEnds(t) /\ tail' = upto[t]
        /\ queue' = SubSeq(queue, Distance(from[t], upto[t]) + 1, Len(queue))
        /\ UNCHANGED <<ring, head, ctxVars, left, next, browserVars, lines, made, overlap>>
    BY <1>9 DEF DrainRelease
  <2>2. from[t] \in Index /\ upto[t] \in Index /\ queue \in Seq(Nat)
    BY <1>1 DEF OtherTypes
  <2>3. Distance(from[t], upto[t]) \in Nat
    <3>1. Distance(from[t], upto[t]) \in 0..(RingSize - 1)
      BY <2>2, SlotTypes
    <3> QED
      BY <3>1, LogAssumption
  <2>4. \A i \in (Distance(from[t], upto[t]) + 1)..Len(queue) : queue[i] \in Nat
    BY <2>2, <2>3, ElementOfSeq, LenProperties
  <2>5. queue' \in Seq(Nat)
    BY <2>1, <2>2, <2>3, <2>4, LenProperties, SubSeqProperties
  <2>6. from' \in [Tasks -> Index] /\ upto' \in [Tasks -> Index]
    BY <1>1, <2>1, Zeroes DEF OtherTypes, DrainEnds
  <2>7. OtherTypes'
    BY <1>1, <2>1, <2>2, <2>5, <2>6 DEF OtherTypes, ctxVars, browserVars
  <2> QED
    BY <2>1, <2>7, TypeInvDrainEnds
<1> QED
  BY <1>4, <1>5, <1>6, <1>7, <1>8, <1>9 DEF Drain

LEMMA TypeInvBrowser ==
  ASSUME TypeInv, NEW f \in Fds, FrameNew(f) \/ Open(f) \/ Close(f) PROVE TypeInv'
<1>1. OtherTypes /\ pc \in [Tasks -> Pcs]
  BY TypeInvParts
<1>2. CASE FrameNew(f)
  <2>1. overlap' \in BOOLEAN
    BY <1>1, <1>2, EntersType DEF FrameNew, OtherTypes
  <2>2. /\ pc' = [pc EXCEPT ![Httpd] = "connect"] /\ fd' = f
        /\ lines' = lines + 1 /\ reused' = reused \ {f}
        /\ UNCHANGED <<ringVars, connected, left, next, from, upto, open, opens, since, made, queue>>
    BY <1>2 DEF FrameNew, Goto
  <2>3. OtherTypes'
    BY <1>1, <2>1, <2>2 DEF OtherTypes, ringVars
  <2>4. "connect" \in Pcs
    BY DEF Pcs, DiscardPcs
  <2> QED
    BY <2>2, <2>3, <2>4, Zeroes, TypeInvMoves
<1>3. CASE Open(f)
  <2>1. open' \subseteq Fds /\ opens' \in Nat /\ since' \in [Fds -> Nat] /\ reused' \subseteq Fds
    BY <1>1, <1>3 DEF OtherTypes, Open
  <2>2. OtherTypes' /\ pc' = pc /\ left' = left
    BY <1>1, <1>3, <2>1 DEF OtherTypes, Open, ringVars, ctxVars
  <2> QED
    BY <2>2, TypeInvStays
<1>4. CASE Close(f)
  <2>1. OtherTypes' /\ pc' = pc /\ left' = left
    BY <1>1, <1>4 DEF OtherTypes, Close, ringVars, ctxVars
  <2> QED
    BY <2>1, TypeInvStays
<1> QED
  BY <1>2, <1>3, <1>4

LEMMA TypeInvHandler == ASSUME TypeInv, Handler \/ FrameFails PROVE TypeInv'
<1> USE DEF Goto
<1>1. OtherTypes /\ pc \in [Tasks -> Pcs]
  BY TypeInvParts
<1>2. {"load", "discard", "check", "forget", "idle"} \subseteq Pcs
  BY DEF Pcs, PushPcs, DiscardPcs
<1>3. CASE FrameConnect
  <2>1. OtherTypes' /\ left' = left /\ pc' = [pc EXCEPT ![Httpd] = "load"]
    BY <1>1, <1>3 DEF FrameConnect, OtherTypes, ringVars, browserVars
  <2> QED
    BY <1>2, <2>1, Zeroes, TypeInvMoves
<1>4. CASE DiscardLoad
  <2>1. overlap' \in BOOLEAN
    BY <1>1, <1>4, EntersType DEF DiscardLoad, OtherTypes
  <2>2. /\ pc' = [pc EXCEPT ![Httpd] = "discard"] /\ upto' = [upto EXCEPT ![Httpd] = head]
        /\ UNCHANGED <<ringVars, ctxVars, left, next, from, browserVars, lines, made, queue>>
    BY <1>4 DEF DiscardLoad
  <2>3. upto' \in [Tasks -> Index]
    BY <1>1, <2>2 DEF OtherTypes
  <2>4. OtherTypes'
    BY <1>1, <2>1, <2>2, <2>3 DEF OtherTypes, ringVars, ctxVars, browserVars
  <2> QED
    BY <1>2, <2>2, <2>4, Zeroes, TypeInvMoves
<1>5. CASE Discard
  <2>1. PICK n \in Lengths : left' = [left EXCEPT ![Httpd] = n]
    BY <1>5 DEF Discard, Greet
  <2>2. /\ pc' = [pc EXCEPT ![Httpd] = "check"] /\ upto' = [upto EXCEPT ![Httpd] = 0]
        /\ tail' = upto[Httpd] /\ queue' = <<>>
        /\ UNCHANGED <<ring, head, ctxVars, next, from, browserVars, lines, made, overlap>>
    BY <1>5 DEF Discard, Greet
  <2>3. left' \in [Tasks -> Nat] /\ \A u \in Tasks \ {Httpd} : left'[u] = left[u]
    BY <1>1, <2>1, Zeroes DEF OtherTypes
  <2>4. upto' \in [Tasks -> Index] /\ tail' \in Index /\ queue' \in Seq(Nat)
    BY <1>1, <2>2, Zeroes DEF OtherTypes
  <2>5. OtherTypes'
    BY <1>1, <2>2, <2>3, <2>4 DEF OtherTypes, ctxVars, browserVars
  <2> QED
    BY <1>2, <2>2, <2>3, <2>5, Zeroes, TypeInvMoves
<1>6. CASE Forget
  <2>1. OtherTypes' /\ left' = left /\ pc' = [pc EXCEPT ![Httpd] = "idle"]
    BY <1>1, <1>6 DEF Forget, OtherTypes, ringVars
  <2> QED
    BY <1>2, <2>1, Zeroes, TypeInvMoves
<1>7. CASE FrameFails
  <2>1. OtherTypes' /\ left' = left /\ pc' = [pc EXCEPT ![Httpd] = "forget"]
    BY <1>1, <1>7 DEF FrameFails, OtherTypes, ringVars, browserVars
  <2> QED
    BY <1>2, <2>1, Zeroes, TypeInvMoves
<1> QED
  BY <1>3, <1>4, <1>5, <1>6, <1>7 DEF Handler

LEMMA TypeInvStep == TypeInv /\ [Next]_vars => TypeInv'
<1> SUFFICES ASSUME TypeInv, [Next]_vars PROVE TypeInv'
  OBVIOUS
<1>1. OtherTypes /\ pc \in [Tasks -> Pcs]
  BY TypeInvParts
<1>2. CASE UNCHANGED vars
  <2>1. OtherTypes' /\ pc' = pc /\ left' = left
    BY <1>1, <1>2 DEF OtherTypes, vars, ringVars, ctxVars, browserVars
  <2> QED
    BY <2>1, TypeInvStays
<1>3. ASSUME NEW t \in Tasks, NEW n \in Lengths, PushLine(t, n) PROVE TypeInv'
  <2>1. overlap' \in BOOLEAN
    BY <1>1, <1>3, EntersType DEF PushLine, OtherTypes
  <2>2. /\ lines' = lines + 1 /\ left' = [left EXCEPT ![t] = n]
        /\ pc' = [pc EXCEPT ![t] = "check"]
        /\ UNCHANGED <<ringVars, ctxVars, next, from, upto, browserVars, made, queue>>
    BY <1>3 DEF PushLine, Goto
  <2>3. left' \in [Tasks -> Nat] /\ \A u \in Tasks \ {t} : left'[u] = left[u]
    BY <1>1, <2>2, Zeroes DEF OtherTypes
  <2>4. OtherTypes'
    BY <1>1, <2>1, <2>2, <2>3 DEF OtherTypes, ringVars, ctxVars, browserVars
  <2>5. "check" \in Pcs /\ "check" \notin DiscardPcs
    BY DEF Pcs, PushPcs, DiscardPcs
  <2> QED
    BY <2>2, <2>3, <2>4, <2>5, TypeInvMoves
<1>4. CASE MonitorDrain
  <2>1. OtherTypes' /\ left' = left /\ pc' = [pc EXCEPT ![Monitor] = "tail"]
    BY <1>1, <1>4 DEF MonitorDrain, Goto, OtherTypes, ringVars, ctxVars, browserVars
  <2>2. "tail" \in Pcs /\ "tail" \notin DiscardPcs
    BY DEF Pcs, DrainPcs, DiscardPcs
  <2> QED
    BY <2>1, <2>2, Zeroes, TypeInvMoves
<1> QED
  BY <1>2, <1>3, <1>4, TypeInvPush, TypeInvDrain, TypeInvBrowser, TypeInvHandler DEF Next

(* The indices stay inside the ring (s_log_ring_head, s_log_ring_tail and  *)
(* the locals of web_log_push and web_log_drain), however many tasks push  *)
(* and drain at once without a lock.                                       *)
THEOREM RingTypes == Spec => []TypeOK
<1>1. TypeInv => TypeOK
  BY DEF TypeInv
<1> QED
  BY <1>1, TypeInvInit, TypeInvStep, PTL DEF Spec
-----------------------------------------------------------------------------
(* The ring as a queue.                                                    *)

(* No two tasks push, none drain, none drains while the handler takes on a *)
(* new browser and none pushes while it discards the old bytes.            *)
Apart ==
    \A t, u \in Tasks : t # u =>
        /\ pc[t] \in PushPcs => pc[u] \notin PushPcs \cup {"discard"}
        /\ pc[t] \in DrainPcs => pc[u] \notin DrainPcs \cup DiscardPcs

Held ==
    /\ Len(queue) = Distance(tail, head)
    /\ \A i \in 1..Len(queue) : queue[i] = ring[SlotAfter(tail, i - 1)]

(* A task that has found a slot still has it. *)
Room ==
    \A t \in Tasks : pc[t] \in {"store", "advance"} =>
        Distance(tail, head) < RingSize - 1 /\ next[t] = NextSlot(head)

(* What a drain has loaded is still a part of the queue. *)
Draining ==
    \A t \in Tasks :
        /\ pc[t] \in DrainPcs => from[t] = tail
        /\ pc[t] \in {"first", "second", "release"} =>
              Distance(tail, upto[t]) <= Distance(tail, head)
        /\ pc[t] = "second" => Wraps(t)

(* The head the handler is about to store as the tail is still the head. *)
Loaded == pc[Httpd] = "discard" => upto[Httpd] = head

RingInv == ~overlap => Apart /\ Held /\ Room /\ Draining /\ Loaded

LEMMA RingInvInit == Init => RingInv
<1> SUFFICES ASSUME Init PROVE RingInv
  OBVIOUS
<1>1. /\ \A t \in Tasks : pc[t] = "idle"
      /\ head = 0 /\ tail = 0 /\ queue = <<>>
  BY DEF Init
<1>2. Distance(0, 0) = 0
  BY DEF Distance
<1> QED
  BY <1>1, <1>2, LogAssumption
     DEF RingInv, Apart, Held, Room, Draining, Loaded, PushPcs, DrainPcs

(* What a step that leaves the ring alone has to show. *)
LEMMA RingKept ==
  ASSUME RingInv, UNCHANGED <<ring, head, tail, queue>>, overlap => overlap',
         ~overlap => Apart' /\ Room' /\ Draining' /\ Loaded'
  PROVE  RingInv'
<1>1. Held => Held'
  BY DEF Held
<1> QED
  BY <1>1 DEF RingInv

(* A task that moves on within pushing or draining stays alone in it. *)
LEMMA ApartMoves ==
  ASSUME Apart, pc \in [Tasks -> Pcs], NEW t \in Tasks, NEW where,
         pc' = [pc EXCEPT ![t] = where],
         where \in DiscardPcs => pc[t] \in DiscardPcs,
         where = "discard" => pc[t] = "discard",
         where \in PushPcs => pc[t] \in PushPcs,
         where \in DrainPcs => pc[t] \in DrainPcs
  PROVE  Apart'
  BY DEF Apart

(* One that enters it does, if nobody was in its way. *)
LEMMA ApartEnters ==
  ASSUME Apart, pc \in [Tasks -> Pcs], NEW t \in Tasks, NEW where, NEW places,
         pc' = [pc EXCEPT ![t] = where], ~Another(t, places),
         \/ where \in PushPcs /\ where \notin DrainPcs /\ PushPcs \cup {"discard"} \subseteq places
         \/ where \in DrainPcs /\ where \notin PushPcs /\ DrainPcs \cup DiscardPcs \subseteq places
         \/ where = "connect" /\ DrainPcs \subseteq places
         \/ where = "discard" /\ pc[t] \in DiscardPcs /\ PushPcs \subseteq places
  PROVE  Apart'
<1>1. \A u \in Tasks \ {t} : pc'[u] = pc[u] /\ pc[u] \notin places
  BY DEF Another
<1>2. pc'[t] = where
  OBVIOUS
<1>3. /\ "discard" \in DiscardPcs /\ "connect" \in DiscardPcs /\ "connect" # "discard"
      /\ DiscardPcs \cap PushPcs = {} /\ DiscardPcs \cap DrainPcs = {}
  BY DEF PushPcs, DrainPcs, DiscardPcs
<1> QED
  BY <1>1, <1>2, <1>3 DEF Apart

LEMMA RingPush ==
  ASSUME TypeInv, RingInv, NEW t \in Tasks, Push(t) PROVE RingInv'
<1>1. overlap' = overlap
  BY DEF Push, PushCheck, PushStore, PushAdvance, PushUsed
<1> SUFFICES ASSUME ~overlap PROVE Apart' /\ Held' /\ Room' /\ Draining' /\ Loaded'
  BY <1>1 DEF RingInv
<1>2. Apart /\ Held /\ Room /\ Draining /\ Loaded
  BY DEF RingInv
<1>3. pc \in [Tasks -> Pcs] /\ head \in Index /\ tail \in Index /\ queue \in Seq(Nat)
      /\ ring \in [Index -> Nat] /\ next \in [Tasks -> Index] /\ upto \in [Tasks -> Index]
  BY DEF TypeInv, TypeOK
<1>4. CASE PushCheck(t)
  <2>1. UNCHANGED <<ring, head, tail, queue, from, upto>> /\ pc[t] = "check"
    BY <1>4 DEF PushCheck, ringVars
  <2>2. CASE left[t] = 0 \/ NextSlot(head) = tail
    <3>1. pc' = [pc EXCEPT ![t] = "used"] /\ UNCHANGED next
      BY <1>4, <2>2 DEF PushCheck, Goto
    <3>2. Apart'
      BY <1>2, <1>3, <3>1, ApartMoves DEF PushPcs, DrainPcs, DiscardPcs
    <3> QED
      BY <1>2, <1>3, <2>1, <3>1, <3>2 DEF Held, Room, Draining, Loaded, DrainPcs, Wraps
  <2>3. CASE ~(left[t] = 0 \/ NextSlot(head) = tail)
    <3>1. pc' = [pc EXCEPT ![t] = "store"] /\ next' = [next EXCEPT ![t] = NextSlot(head)]
      BY <1>4, <2>3 DEF PushCheck, Goto
    <3>2. Apart'
      BY <1>2, <1>3, <2>1, <3>1, ApartMoves DEF PushPcs, DrainPcs, DiscardPcs
    <3>3. Distance(tail, head) < RingSize - 1
      BY <1>3, <2>3, HeadAdvances
    <3> QED
      BY <1>2, <1>3, <2>1, <3>1, <3>2, <3>3 DEF Held, Room, Draining, Loaded, DrainPcs, Wraps
  <2> QED
    BY <2>2, <2>3
<1>5. CASE PushStore(t)
  <2>1. /\ ring' = [ring EXCEPT ![head] = made + 1] /\ pc' = [pc EXCEPT ![t] = "advance"]
        /\ UNCHANGED <<head, tail, queue, from, upto, next>> /\ pc[t] = "store"
    BY <1>5 DEF PushStore, Goto
  <2>2. Apart'
    BY <1>2, <1>3, <2>1, ApartMoves DEF PushPcs, DrainPcs, DiscardPcs
  <2>3. Room' /\ Draining'
    BY <1>2, <1>3, <2>1 DEF Room, Draining, DrainPcs, Wraps
  <2>7. Loaded'
    BY <1>2, <1>3, <2>1, LogAssumption DEF Loaded
  <2>4. Distance(tail, head) \in 0..(RingSize - 1) /\ SlotAfter(tail, Distance(tail, head)) = head
    BY <1>3, SlotTypes
  <2>5. ASSUME NEW i \in 1..Len(queue) PROVE queue[i] = ring'[SlotAfter(tail, i - 1)]
    <3>1. i - 1 \in 0..(RingSize - 1) /\ i - 1 # Distance(tail, head)
      <4>1. Len(queue) = Distance(tail, head)
        BY <1>2 DEF Held
      <4> QED
        BY <2>4, <4>1, LogAssumption
    <3>2. SlotAfter(tail, i - 1) # head /\ SlotAfter(tail, i - 1) \in Index
      <4>1. SlotAfter(tail, i - 1) \in Index
        BY <1>3, <3>1, SlotTypes
      <4>2. SlotAfter(tail, i - 1) # SlotAfter(tail, Distance(tail, head))
        BY <1>3, <2>4, <3>1, SlotsDiffer
      <4> QED
        BY <2>4, <4>1, <4>2
    <3> QED
      BY <1>2, <1>3, <2>1, <3>2 DEF Held
  <2>6. Held'
    BY <1>2, <2>1, <2>5 DEF Held
  <2> QED
    BY <2>2, <2>3, <2>6, <2>7
<1>6. CASE PushAdvance(t)
  <2>1. /\ head' = next[t] /\ queue' = Append(queue, ring[head]) /\ pc[t] = "advance"
        /\ pc' = [pc EXCEPT ![t] = "check"] /\ next' = [next EXCEPT ![t] = 0]
        /\ UNCHANGED <<ring, tail, from, upto>>
    BY <1>6 DEF PushAdvance, Goto
  <2>2. Apart'
    BY <1>2, <1>3, <2>1, ApartMoves DEF PushPcs, DrainPcs, DiscardPcs
  <2>3. head' = NextSlot(head) /\ Distance(tail, head) < RingSize - 1
    BY <1>2, <2>1 DEF Room
  <2>4. /\ Distance(tail, head') = Distance(tail, head) + 1
        /\ Distance(tail, head) \in 0..(RingSize - 1) /\ SlotAfter(tail, Distance(tail, head)) = head
    BY <1>3, <2>3, HeadAdvances, SlotTypes
  <2>5. /\ Len(queue') = Len(queue) + 1 /\ queue'[Len(queue) + 1] = ring[head]
        /\ \A i \in 1..Len(queue) : queue'[i] = queue[i]
    <3>1. ring[head] \in Nat
      BY <1>3
    <3> QED
      BY <1>3, <2>1, <3>1, AppendProperties
  <2>6. Held'
    <3>1. Len(queue) = Distance(tail, head)
      BY <1>2 DEF Held
    <3>2. ASSUME NEW i \in 1..Len(queue') PROVE queue'[i] = ring[SlotAfter(tail, i - 1)]
      <4>1. CASE i = Len(queue) + 1
        <5>1. i - 1 = Distance(tail, head)
          BY <2>4, <3>1, <4>1
        <5> QED
          BY <2>4, <2>5, <4>1, <5>1
      <4>2. CASE i # Len(queue) + 1
        <5>1. i \in 1..Len(queue)
          BY <2>4, <2>5, <3>1, <4>2
        <5> QED
          BY <1>2, <2>5, <5>1 DEF Held
      <4> QED
        BY <4>1, <4>2
    <3> QED
      BY <2>1, <2>4, <2>5, <3>1, <3>2 DEF Held
  <2>7. Room'
    <3>1. \A u \in Tasks \ {t} : pc'[u] \notin {"store", "advance"}
      BY <1>2, <1>3, <2>1 DEF Apart, PushPcs
    <3> QED
      BY <1>3, <2>1, <3>1 DEF Room
  <2>8. Draining'
    <3>1. \A u \in Tasks : Distance(tail, upto[u]) <= Distance(tail, head)
                           => Distance(tail, upto[u]) <= Distance(tail, head')
      <4>1. \A u \in Tasks : Distance(tail, upto[u]) \in 0..(RingSize - 1)
        BY <1>3, SlotTypes
      <4> QED
        BY <2>4, <4>1, LogAssumption
    <3> QED
      BY <1>2, <1>3, <2>1, <3>1 DEF Draining, DrainPcs, Wraps
  <2>9. Loaded'
    <3>1. pc'[Httpd] # "discard"
      BY <1>2, <1>3, <2>1, LogAssumption DEF Apart, PushPcs
    <3> QED
      BY <3>1 DEF Loaded
  <2> QED
    BY <2>2, <2>6, <2>7, <2>8, <2>9
<1>7. CASE PushUsed(t)
  <2>1. UNCHANGED <<ring, head, tail, queue, from, upto, next>> /\ pc[t] = "used"
    BY <1>7 DEF PushUsed, ringVars
  <2>2. PICK where \in {"tail", "idle"} : pc' = [pc EXCEPT ![t] = where]
    BY <1>7 DEF PushUsed, Goto
  <2>3. Apart'
    BY <1>2, <1>3, <2>2, ApartMoves DEF PushPcs, DrainPcs, DiscardPcs
  <2> QED
    BY <1>2, <1>3, <2>1, <2>2, <2>3 DEF Held, Room, Draining, Loaded, DrainPcs, Wraps
<1> QED
  BY <1>4, <1>5, <1>6, <1>7 DEF Push

LEMMA RingDrain ==
  ASSUME TypeInv, RingInv, NEW t \in Tasks, Drain(t) PROVE RingInv'
<1>1. pc \in [Tasks -> Pcs] /\ head \in Index /\ tail \in Index /\ queue \in Seq(Nat)
      /\ from \in [Tasks -> Index] /\ upto \in [Tasks -> Index] /\ overlap \in BOOLEAN
      /\ Httpd \in Tasks
  BY LogAssumption DEF TypeInv, TypeOK
<1>2. CASE DrainTail(t)
  <2> DEFINE places == DrainPcs \cup DiscardPcs
  <2>1. /\ UNCHANGED <<ring, head, tail, queue, upto, next>> /\ pc[t] = "tail"
        /\ from' = [from EXCEPT ![t] = tail] /\ pc' = [pc EXCEPT ![t] = "head"]
        /\ Enters(t, places)
    BY <1>2 DEF DrainTail, ringVars, Goto
  <2> HIDE DEF places
  <2>2. overlap => overlap'
    BY <1>1, <2>1, EntersType
  <2> SUFFICES ASSUME ~overlap' PROVE Apart' /\ Held' /\ Room' /\ Draining' /\ Loaded'
    BY DEF RingInv
  <2>3. Apart /\ Held /\ Room /\ Draining /\ Loaded /\ ~Another(t, places)
    BY <1>1, <2>1, <2>2, EntersType DEF RingInv
  <2>4. Apart'
    BY <1>1, <2>1, <2>3, ApartEnters DEF places, PushPcs, DrainPcs, DiscardPcs
  <2> QED
    BY <1>1, <2>1, <2>3, <2>4 DEF Held, Room, Draining, Loaded, DrainPcs, Wraps
<1> SUFFICES ASSUME ~overlap, ~DrainTail(t), overlap' = overlap
             PROVE  Apart' /\ Held' /\ Room' /\ Draining' /\ Loaded'
  BY <1>2 DEF RingInv, Drain, DrainHead, DrainFirst, DrainSecond, DrainFails, DrainRelease
<1>3. Apart /\ Held /\ Room /\ Draining /\ Loaded
  BY DEF RingInv
<1>4. CASE DrainHead(t) \/ DrainFails(t)
  <2>1. /\ UNCHANGED <<ring, head, tail, queue, next>> /\ pc[t] \in DrainPcs
        /\ \/ pc' = [pc EXCEPT ![t] = "idle"] /\ from' = [from EXCEPT ![t] = 0]
              /\ upto' = [upto EXCEPT ![t] = 0]
           \/ pc' = [pc EXCEPT ![t] = "first"] /\ upto' = [upto EXCEPT ![t] = head]
              /\ UNCHANGED from
    BY <1>4 DEF DrainHead, DrainFails, DrainEnds, ringVars, Goto, DrainPcs
  <2>2. Distance(tail, head) <= Distance(tail, head)
    BY <1>1, SlotTypes, LogAssumption
  <2>3. Apart'
    BY <1>1, <1>3, <2>1, ApartMoves DEF PushPcs, DrainPcs, DiscardPcs
  <2> QED
    BY <1>1, <1>3, <2>1, <2>2, <2>3 DEF Held, Room, Draining, Loaded, DrainPcs, Wraps
<1>5. CASE DrainFirst(t) \/ DrainSecond(t)
  <2>1. /\ UNCHANGED <<ring, head, tail, queue, next, from, upto>>
        /\ pc[t] \in {"first", "second"}
        /\ \/ pc' = [pc EXCEPT ![t] = "second"] /\ Wraps(t)
           \/ pc' = [pc EXCEPT ![t] = "release"]
    BY <1>5 DEF DrainFirst, DrainSecond, ringVars, Goto
  <2>2. Apart'
    BY <1>1, <1>3, <2>1, ApartMoves DEF PushPcs, DrainPcs, DiscardPcs
  <2> QED
    BY <1>1, <1>3, <2>1, <2>2 DEF Held, Room, Draining, Loaded, DrainPcs, Wraps
<1>6. CASE DrainRelease(t)
  <2>1. /\ UNCHANGED <<ring, head, next>> /\ pc[t] = "release"
        /\ tail' = upto[t]
        /\ queue' = SubSeq(queue, Distance(from[t], upto[t]) + 1, Len(queue))
        /\ pc' = [pc EXCEPT ![t] = "idle"] /\ from' = [from EXCEPT ![t] = 0]
        /\ upto' = [upto EXCEPT ![t] = 0]
    BY <1>6 DEF DrainRelease, DrainEnds, Goto
  <2>2. /\ from[t] = tail /\ upto[t] \in Index
        /\ Distance(tail, upto[t]) <= Distance(tail, head)
    BY <1>1, <1>3, <2>1 DEF Draining, DrainPcs
  <2> DEFINE sent == Distance(tail, upto[t])
  <2> DEFINE kept == Distance(upto[t], head)
  <2>3. /\ kept = Distance(tail, head) - sent
        /\ \A n \in 0..kept : SlotAfter(upto[t], n) = SlotAfter(tail, sent + n)
    BY <1>1, <2>2, TailAdvances
  <2>4. /\ sent \in 0..(RingSize - 1) /\ kept \in 0..(RingSize - 1)
        /\ Distance(tail, head) \in 0..(RingSize - 1)
    BY <1>1, <2>2, SlotTypes
  <2> HIDE DEF sent, kept
  <2>5. Len(queue) = sent + kept /\ Len(queue) \in Nat
    BY <1>1, <1>3, <2>3, <2>4, LogAssumption DEF Held
  <2>6. /\ Len(queue') = kept
        /\ \A i \in 1..kept : queue'[i] = queue[sent + i]
    <3>1. queue' = SubSeq(queue, sent + 1, Len(queue))
      BY <2>1, <2>2 DEF sent
    <3>2. \A i \in (sent + 1)..Len(queue) : queue[i] \in Nat
      BY <1>1, <2>4, ElementOfSeq
    <3>3. /\ Len(queue') = IF sent + 1 <= Len(queue) THEN Len(queue) - (sent + 1) + 1 ELSE 0
          /\ \A i \in 1..(Len(queue) - (sent + 1) + 1) : queue'[i] = queue[sent + 1 + i - 1]
      <4>1. sent + 1 \in Int /\ Len(queue) \in Int /\ sent + 1 >= 1
        BY <2>4, <2>5
      <4> QED
        BY <3>1, <3>2, <4>1, SubSeqProperties
    <3>4. /\ Len(queue) - (sent + 1) + 1 = kept
          /\ IF sent + 1 <= Len(queue) THEN kept > 0 ELSE kept = 0
      BY <2>4, <2>5
    <3>5. \A i \in 1..kept : sent + 1 + i - 1 = sent + i
      BY <2>4
    <3>6. Len(queue') = kept
      BY <3>3, <3>4
    <3>7. \A i \in 1..kept : queue'[i] = queue[sent + 1 + i - 1]
      BY <3>3, <3>4
    <3> QED
      BY <3>5, <3>6, <3>7
  <2>7. Held'
    <3>1. ASSUME NEW i \in 1..kept PROVE queue'[i] = ring[SlotAfter(upto[t], i - 1)]
      <4>1. sent + i \in 1..Len(queue) /\ i - 1 \in 0..kept /\ sent + (i - 1) = (sent + i) - 1
        BY <2>4, <2>5
      <4>2. queue[sent + i] = ring[SlotAfter(tail, (sent + i) - 1)]
        BY <1>3, <4>1 DEF Held
      <4> QED
        BY <2>3, <2>6, <4>1, <4>2
    <3> QED
      BY <2>1, <2>6, <3>1 DEF Held, kept
  <2>8. Apart'
    BY <1>1, <1>3, <2>1, ApartMoves DEF PushPcs, DrainPcs, DiscardPcs
  <2>9. Room'
    <3>1. kept <= Distance(tail, head)
      BY <2>3, <2>4
    <3>2. kept < RingSize - 1 \/ ~(Distance(tail, head) < RingSize - 1)
      BY <2>4, <3>1, LogAssumption
    <3> QED
      BY <1>1, <1>3, <2>1, <3>2 DEF Room, kept
  <2>10. Draining'
    <3>1. \A u \in Tasks : pc'[u] \notin DrainPcs
      BY <1>1, <1>3, <2>1 DEF Apart, DrainPcs
    <3> QED
      BY <3>1 DEF Draining, DrainPcs
  <2>11. Loaded'
    BY <1>1, <1>3, <2>1, LogAssumption DEF Loaded
  <2> QED
    BY <2>7, <2>8, <2>9, <2>10, <2>11
<1> QED
  BY <1>4, <1>5, <1>6 DEF Drain

LEMMA RingInvStep == TypeInv /\ RingInv /\ [Next]_vars => RingInv'
<1> SUFFICES ASSUME TypeInv, RingInv, [Next]_vars PROVE RingInv'
  OBVIOUS
<1>1. pc \in [Tasks -> Pcs] /\ overlap \in BOOLEAN /\ Monitor \in Tasks /\ Httpd \in Tasks
      /\ head \in Index
  BY LogAssumption DEF TypeInv, TypeOK
<1>2. ASSUME UNCHANGED <<ringVars, queue, pc, next, from, upto, overlap>> PROVE RingInv'
  BY <1>2, RingKept DEF RingInv, ringVars, Apart, Room, Draining, Loaded, Wraps
<1>3. CASE UNCHANGED vars
  BY <1>2, <1>3 DEF vars
<1>4. ASSUME NEW t \in Tasks, NEW n \in Lengths, PushLine(t, n) PROVE RingInv'
  <2> DEFINE places == PushPcs \cup {"discard"}
  <2>1. /\ UNCHANGED <<ring, head, tail, queue, from, upto, next>>
        /\ pc' = [pc EXCEPT ![t] = "check"] /\ Enters(t, places)
    BY <1>4 DEF PushLine, ringVars, Goto
  <2> HIDE DEF places
  <2>2. (overlap => overlap') /\ (Another(t, places) => overlap')
    BY <1>1, <2>1, EntersType
  <2> SUFFICES ASSUME ~overlap' PROVE Apart' /\ Held' /\ Room' /\ Draining' /\ Loaded'
    BY DEF RingInv
  <2>3. Apart /\ Held /\ Room /\ Draining /\ Loaded
    BY <2>2 DEF RingInv
  <2>4. Apart'
    BY <1>1, <2>1, <2>2, <2>3, ApartEnters DEF places, PushPcs, DrainPcs, DiscardPcs
  <2> QED
    BY <1>1, <2>1, <2>3, <2>4 DEF Held, Room, Draining, Loaded, DrainPcs, Wraps
<1>5. ASSUME NEW t \in Tasks, Push(t) \/ Drain(t) PROVE RingInv'
  BY <1>5, RingPush, RingDrain
<1>6. CASE MonitorDrain
  <2>1. /\ UNCHANGED <<ring, head, tail, queue, from, upto, next, overlap>>
        /\ pc' = [pc EXCEPT ![Monitor] = "tail"]
    BY <1>6 DEF MonitorDrain, ringVars, Goto
  <2>2. Apart => Apart'
    BY <1>1, <2>1, ApartMoves DEF PushPcs, DrainPcs, DiscardPcs
  <2> QED
    BY <1>1, <2>1, <2>2, RingKept DEF RingInv, Room, Draining, Loaded, DrainPcs, Wraps
<1>7. ASSUME NEW f \in Fds, FrameNew(f) PROVE RingInv'
  <2>1. /\ UNCHANGED <<ring, head, tail, queue, from, upto, next>>
        /\ pc' = [pc EXCEPT ![Httpd] = "connect"] /\ Enters(Httpd, DrainPcs)
    BY <1>7 DEF FrameNew, ringVars, Goto
  <2>2. (overlap => overlap') /\ (Another(Httpd, DrainPcs) => overlap')
    BY <1>1, <2>1, EntersType
  <2> SUFFICES ASSUME ~overlap' PROVE Apart' /\ Held' /\ Room' /\ Draining' /\ Loaded'
    BY DEF RingInv
  <2>3. Apart /\ Held /\ Room /\ Draining /\ Loaded
    BY <2>2 DEF RingInv
  <2>4. Apart'
    BY <1>1, <2>1, <2>2, <2>3, ApartEnters
  <2> QED
    BY <1>1, <2>1, <2>3, <2>4 DEF Held, Room, Draining, Loaded, DrainPcs, Wraps
<1>8. CASE Handler
  <2>1. CASE FrameConnect \/ Forget
    <3>1. /\ UNCHANGED <<ring, head, tail, queue, from, upto, next, overlap>>
          /\ \/ pc[Httpd] = "connect" /\ pc' = [pc EXCEPT ![Httpd] = "load"]
             \/ pc[Httpd] = "forget" /\ pc' = [pc EXCEPT ![Httpd] = "idle"]
      BY <2>1 DEF FrameConnect, Forget, ringVars, Goto
    <3>2. Apart => Apart'
      BY <1>1, <3>1, ApartMoves DEF PushPcs, DrainPcs, DiscardPcs
    <3> QED
      BY <1>1, <3>1, <3>2, RingKept DEF RingInv, Room, Draining, Loaded, DrainPcs, Wraps
  <2>2. CASE DiscardLoad
    <3>1. /\ UNCHANGED <<ring, head, tail, queue, from, next>> /\ pc[Httpd] = "load"
          /\ upto \in [Tasks -> Index] /\ upto' = [upto EXCEPT ![Httpd] = head]
          /\ pc' = [pc EXCEPT ![Httpd] = "discard"] /\ Enters(Httpd, PushPcs)
      BY <2>2 DEF DiscardLoad, ringVars, Goto, TypeInv, TypeOK
    <3>2. (overlap => overlap') /\ (Another(Httpd, PushPcs) => overlap')
      BY <1>1, <3>1, EntersType
    <3> SUFFICES ASSUME ~overlap' PROVE Apart' /\ Held' /\ Room' /\ Draining' /\ Loaded'
      BY DEF RingInv
    <3>3. Apart /\ Held /\ Room /\ Draining
      BY <3>2 DEF RingInv
    <3>4. Apart'
      BY <1>1, <3>1, <3>2, <3>3, ApartEnters DEF DiscardPcs
    <3>5. Held' /\ Loaded'
      BY <1>1, <3>1, <3>3 DEF Held, Loaded
    <3>6. Room' /\ Draining'
      BY <1>1, <3>1, <3>3 DEF Room, Draining, DrainPcs, Wraps
    <3> QED
      BY <3>4, <3>5, <3>6
  <2>3. CASE Discard
    <3>1. /\ UNCHANGED <<ring, head, from, next, overlap>> /\ pc[Httpd] = "discard"
          /\ tail' = upto[Httpd] /\ queue' = <<>> /\ pc' = [pc EXCEPT ![Httpd] = "check"]
      BY <2>3 DEF Discard, Greet, Goto
    <3> SUFFICES ASSUME ~overlap PROVE Apart' /\ Held' /\ Room' /\ Draining' /\ Loaded'
      BY <3>1 DEF RingInv
    <3>2. Apart /\ tail' = head
      BY <3>1 DEF RingInv, Loaded
    <3>3. \A u \in Tasks \ {Httpd} : pc'[u] \notin PushPcs \cup DrainPcs
      BY <1>1, <3>1, <3>2 DEF Apart, DiscardPcs
    <3>4. pc'[Httpd] = "check"
      BY <1>1, <3>1
    <3>5. \A u \in Tasks \ {Httpd} : pc'[u] # "discard"
      BY <1>1, <3>1 DEF TypeInv, DiscardPcs
    <3>6. Apart'
      BY <3>3, <3>4, <3>5 DEF Apart, PushPcs, DrainPcs
    <3>7. Held' /\ Loaded'
      <4>1. Distance(head, head) = 0
        BY <1>1, SlotTypes
      <4> QED
        BY <3>1, <3>2, <3>4, <4>1 DEF Held, Loaded
    <3>8. Room' /\ Draining'
      BY <3>3, <3>4 DEF Room, Draining, PushPcs, DrainPcs
    <3> QED
      BY <3>6, <3>7, <3>8
  <2> QED
    BY <1>8, <2>1, <2>2, <2>3 DEF Handler
<1>9. ASSUME NEW f \in Fds, Open(f) \/ Close(f) PROVE RingInv'
  BY <1>2, <1>9 DEF Open, Close
<1>10. CASE FrameFails
  <2>1. /\ UNCHANGED <<ring, head, tail, queue, from, upto, next, overlap>>
        /\ pc' = [pc EXCEPT ![Httpd] = "forget"]
    BY <1>10 DEF FrameFails, ringVars, Goto
  <2>2. Apart => Apart'
    BY <1>1, <2>1, ApartMoves DEF PushPcs, DrainPcs, DiscardPcs
  <2> QED
    BY <1>1, <2>1, <2>2, RingKept DEF RingInv, Room, Draining, Loaded, DrainPcs, Wraps
<1> QED
  BY <1>3, <1>4, <1>5, <1>6, <1>7, <1>8, <1>9, <1>10 DEF Next

(* The ring is a queue (QueueHeld), whatever its size and however many     *)
(* tasks there are: one that pushes and one that drains need no lock       *)
(* between them, as each writes an index of its own.                       *)
THEOREM RingIsAQueue == Spec => []QueueHeld
<1>1. RingInv => QueueHeld
  BY DEF RingInv, QueueHeld, Held
<1> QED
  BY <1>1, TypeInvInit, TypeInvStep, RingInvInit, RingInvStep, PTL DEF Spec

(* The frames of a drain are parts of the queue. *)
LEMMA FramesAreQueued ==
  ASSUME TypeInv, RingInv, ~overlap, NEW t \in Tasks
  PROVE  /\ FirstLength(t) \in Nat /\ upto[t] \in Nat
         /\ pc[t] = "first" =>
               /\ FirstLength(t) <= Len(queue)
               /\ FirstFrame(t) = SubSeq(queue, 1, FirstLength(t))
         /\ pc[t] = "second" =>
               /\ FirstLength(t) + upto[t] <= Len(queue)
               /\ SecondFrame(t) = SubSeq(queue, FirstLength(t) + 1, FirstLength(t) + upto[t])
<1>1. Held /\ Draining
  BY DEF RingInv
<1>2. /\ from[t] \in Index /\ upto[t] \in Index /\ tail \in Index /\ head \in Index
      /\ queue \in Seq(Nat) /\ RingSize \in Nat /\ RingSize > 1
  BY LogAssumption DEF TypeInv, TypeOK
<1> DEFINE n == FirstLength(t)
<1>0. n \in Nat /\ upto[t] \in Nat
  BY <1>2 DEF FirstLength, Wraps, Index
<1>3. CASE pc[t] = "first"
  <2>1. from[t] = tail /\ Distance(tail, upto[t]) <= Distance(tail, head)
    BY <1>1, <1>3 DEF Draining, DrainPcs
  <2>2. /\ n \in Nat /\ n <= Distance(tail, head) /\ n <= RingSize
        /\ \A i \in 1..n : SlotAfter(tail, i - 1) = from[t] + i - 1
    BY <1>2, <2>1 DEF FirstLength, Wraps, Index, Distance, SlotAfter
  <2>3. n <= Len(queue)
    BY <1>1, <2>2 DEF Held
  <2> HIDE DEF n
  <2>4. \A i \in 1..n : i \in 1..Len(queue) /\ queue[i] = ring[from[t] + i - 1]
    BY <1>1, <1>2, <2>2, <2>3 DEF Held
  <2>5. SubSeq(queue, 1, n) = [i \in 1..n |-> queue[i]]
    BY <1>2, <2>2
  <2>6. FirstFrame(t) = [i \in 1..n |-> ring[from[t] + i - 1]]
    BY DEF FirstFrame, n
  <2>7. FirstFrame(t) = SubSeq(queue, 1, n)
    BY <2>4, <2>5, <2>6
  <2> QED
    BY <1>0, <1>3, <2>3, <2>7 DEF n
<1>4. CASE pc[t] = "second"
  <2> DEFINE m == upto[t]
  <2>1. from[t] = tail /\ Distance(tail, upto[t]) <= Distance(tail, head) /\ Wraps(t)
    BY <1>1, <1>4 DEF Draining, DrainPcs
  <2>2. /\ n \in Nat /\ m \in Nat /\ n + m <= Distance(tail, head)
        /\ \A i \in 1..m : SlotAfter(tail, n + i - 1) = i - 1
    BY <1>2, <2>1 DEF FirstLength, Wraps, Index, Distance, SlotAfter
  <2>3. n + m <= Len(queue)
    BY <1>1, <2>2 DEF Held
  <2> HIDE DEF n, m
  <2>4. \A i \in 1..m : n + i \in 1..Len(queue) /\ queue[n + i] = ring[i - 1]
    <3>1. \A i \in 1..m : n + i \in 1..Len(queue)
      BY <1>2, <2>2, <2>3
    <3>2. ASSUME NEW i \in 1..m PROVE queue[n + i] = ring[i - 1]
      <4>1. queue[n + i] = ring[SlotAfter(tail, n + i - 1)]
        <5>1. \A k \in 1..Len(queue) : queue[k] = ring[SlotAfter(tail, k - 1)]
          BY <1>1 DEF Held
        <5>2. n + i \in 1..Len(queue)
          BY <3>1
        <5>3. n \in Nat /\ m \in Nat
          BY <2>2
        <5> QED
          BY <5>1, <5>2, <5>3
      <4>2. SlotAfter(tail, n + i - 1) = i - 1
        BY <2>2
      <4> QED
        BY <4>1, <4>2
    <3> QED
      BY <3>1, <3>2
  <2>5. SubSeq(queue, n + 1, n + m) = [i \in 1..m |-> queue[n + i]]
    <3>1. SubSeq(queue, n + 1, n + m) = [i \in 1..((n + m) - (n + 1) + 1) |-> queue[(n + 1) + i - 1]]
      BY <1>2, <2>2
    <3>2. (n + m) - (n + 1) + 1 = m /\ \A i \in 1..m : (n + 1) + i - 1 = n + i
      BY <2>2
    <3> QED
      BY <3>1, <3>2
  <2>6. SecondFrame(t) = [i \in 1..m |-> ring[i - 1]]
    BY DEF SecondFrame, m
  <2>7. SecondFrame(t) = SubSeq(queue, n + 1, n + m)
    BY <2>4, <2>5, <2>6
  <2> QED
    BY <1>0, <1>4, <2>3, <2>7 DEF n, m
<1> QED
  BY <1>0, <1>3, <1>4

(* What a drain sends are the oldest bytes of the queue, each once and in  *)
(* order, also when they wrap around the end of the ring (SendsTheQueue).  *)
THEOREM DrainsSendTheQueue == Spec => []SendsTheQueue
<1>1. TypeInv /\ RingInv => SendsTheQueue
  BY FramesAreQueued DEF SendsTheQueue
<1> QED
  BY <1>1, TypeInvInit, TypeInvStep, RingInvInit, RingInvStep, PTL DEF Spec

-----------------------------------------------------------------------------
(* A browser gets nothing stale.                                           *)

(* Somebody reads the log, and what was left from before is discarded. *)
Watched == fd \in open \ reused /\ pc[Httpd] \notin DiscardPcs

Fresh ==
    /\ \A i \in 1..Len(queue) : queue[i] > since[fd]
    /\ \A t \in Tasks : pc[t] = "advance" => ring[head] > since[fd]

FreshInv ==
    /\ \A f \in Fds : since[f] <= made
    /\ ~overlap /\ Watched => Fresh

LEMMA FreshInvInit == Init => FreshInv
<1> SUFFICES ASSUME Init PROVE FreshInv
  OBVIOUS
<1>1. /\ since = [f \in Fds |-> 0] /\ made = 0 /\ open = {}
  BY DEF Init
<1> QED
  BY <1>1 DEF FreshInv, Watched

(* A step that neither stores, accepts nor sends. *)
LEMMA FreshKept ==
  ASSUME FreshInv, UNCHANGED <<ring, head, queue, fd, browserVars, made>>,
         overlap => overlap',
         \A t \in Tasks : pc'[t] = "advance" => pc[t] = "advance",
         pc[Httpd] \in DiscardPcs => pc'[Httpd] \in DiscardPcs
  PROVE  FreshInv'
<1>1. Fresh => Fresh'
  BY DEF Fresh, browserVars
<1>2. Watched' => Watched
  BY DEF Watched, browserVars
<1> QED
  BY <1>1, <1>2 DEF FreshInv, browserVars

LEMMA FreshPush ==
  ASSUME TypeInv, RingInv, FreshInv, NEW t \in Tasks, Push(t) PROVE FreshInv'
<1>1. /\ pc \in [Tasks -> Pcs] /\ Httpd \in Tasks /\ head \in Index /\ made \in Nat
      /\ ring \in [Index -> Nat] /\ queue \in Seq(Nat) /\ since \in [Fds -> Nat]
      /\ open \subseteq Fds
  BY LogAssumption DEF TypeInv, TypeOK
<1>2. CASE PushCheck(t) \/ PushUsed(t)
  <2>1. /\ UNCHANGED <<ring, head, queue, ctxVars, browserVars, made, overlap>>
        /\ pc[t] \in {"check", "used"}
        /\ \E where \in {"used", "store", "tail", "idle"} : pc' = [pc EXCEPT ![t] = where]
    BY <1>2 DEF PushCheck, PushUsed, ringVars, Goto
  <2>2. /\ \A u \in Tasks : pc'[u] = "advance" => pc[u] = "advance"
        /\ pc[Httpd] \in DiscardPcs => pc'[Httpd] \in DiscardPcs
    BY <1>1, <2>1 DEF DiscardPcs
  <2> QED
    BY <2>1, <2>2, FreshKept DEF ctxVars
<1>3. CASE PushStore(t)
  <2>1. /\ ring' = [ring EXCEPT ![head] = made + 1] /\ made' = made + 1
        /\ pc' = [pc EXCEPT ![t] = "advance"] /\ pc[t] = "store"
        /\ UNCHANGED <<head, queue, fd, open, since, reused, overlap>>
    BY <1>3 DEF PushStore, Goto, ctxVars, browserVars
  <2>2. ring'[head'] = made + 1
    BY <1>1, <2>1
  <2>3. \A f \in Fds : since'[f] <= made' /\ since[f] < made + 1
    BY <1>1, <2>1 DEF FreshInv
  <2>4. ASSUME ~overlap, Watched' PROVE Fresh'
    <3>1. Watched /\ fd \in Fds
      BY <1>1, <2>1, <2>4 DEF Watched, DiscardPcs
    <3>2. Fresh /\ since[fd] < made + 1
      BY <2>3, <2>4, <3>1 DEF FreshInv
    <3>3. ring'[head'] > since[fd]
      BY <1>1, <2>2, <3>1, <3>2
    <3> QED
      BY <2>1, <3>2, <3>3 DEF Fresh
  <2> QED
    BY <2>1, <2>3, <2>4 DEF FreshInv
<1>4. CASE PushAdvance(t)
  <2>1. /\ queue' = Append(queue, ring[head]) /\ pc[t] = "advance"
        /\ pc' = [pc EXCEPT ![t] = "check"]
        /\ UNCHANGED <<fd, open, since, reused, made, overlap>>
    BY <1>4 DEF PushAdvance, Goto, ctxVars, browserVars
  <2>2. ASSUME ~overlap, Watched' PROVE Fresh'
    <3>1. Watched /\ Apart
      BY <1>1, <2>1, <2>2 DEF Watched, RingInv, DiscardPcs
    <3>2. Fresh
      BY <2>2, <3>1 DEF FreshInv
    <3>3. \A u \in Tasks : pc'[u] # "advance"
      BY <1>1, <2>1, <3>1 DEF Apart, PushPcs
    <3>4. ring[head] \in Nat /\ ring[head] > since[fd]
      BY <1>1, <2>1, <3>2 DEF Fresh
    <3>5. /\ Len(queue') = Len(queue) + 1 /\ queue'[Len(queue) + 1] = ring[head]
          /\ \A i \in 1..Len(queue) : queue'[i] = queue[i]
      BY <1>1, <2>1, <3>4, AppendProperties
    <3>6. ASSUME NEW i \in 1..Len(queue') PROVE queue'[i] > since[fd]
      <4>1. i \in 1..Len(queue) \/ i = Len(queue) + 1
        BY <1>1, <3>5
      <4>2. CASE i \in 1..Len(queue)
        BY <3>2, <3>5, <4>2 DEF Fresh
      <4>3. CASE i = Len(queue) + 1
        BY <3>4, <3>5, <4>3
      <4> QED
        BY <4>1, <4>2, <4>3
    <3> QED
      BY <2>1, <3>3, <3>6 DEF Fresh
  <2> QED
    BY <2>1, <2>2 DEF FreshInv
<1> QED
  BY <1>2, <1>3, <1>4 DEF Push

LEMMA FreshDrain ==
  ASSUME TypeInv, RingInv, FreshInv, NEW t \in Tasks, Drain(t) PROVE FreshInv'
<1>1. /\ pc \in [Tasks -> Pcs] /\ Httpd \in Tasks /\ overlap \in BOOLEAN
      /\ queue \in Seq(Nat) /\ from[t] \in Index /\ upto[t] \in Index
  BY LogAssumption DEF TypeInv, TypeOK
<1>2. overlap => overlap'
  BY <1>1, EntersType
     DEF Drain, DrainTail, DrainHead, DrainFirst, DrainSecond, DrainFails, DrainRelease
<1>3. /\ UNCHANGED <<ring, head, ctxVars, browserVars, made>>
      /\ pc[t] \in DrainPcs \cup {"tail"}
      /\ \E where \in DrainPcs \cup {"idle"} : pc' = [pc EXCEPT ![t] = where]
  BY DEF Drain, DrainTail, DrainHead, DrainFirst, DrainSecond, DrainFails, DrainRelease,
         DrainEnds, DrainPcs, Goto, ringVars
<1>4. /\ \A u \in Tasks : pc'[u] = "advance" => pc[u] = "advance"
      /\ pc[Httpd] \in DiscardPcs => pc'[Httpd] \in DiscardPcs
  BY <1>1, <1>3 DEF DrainPcs, DiscardPcs
<1>5. CASE ~DrainRelease(t)
  <2>1. UNCHANGED queue
    BY <1>5 DEF Drain, DrainTail, DrainHead, DrainFirst, DrainSecond, DrainFails
  <2> QED
    BY <1>2, <1>3, <1>4, <2>1, FreshKept DEF ctxVars
<1>6. CASE DrainRelease(t)
  <2> DEFINE n == Distance(from[t], upto[t])
  <2>1. queue' = SubSeq(queue, n + 1, Len(queue)) /\ overlap' = overlap
    BY <1>6 DEF DrainRelease
  <2>2. n \in Nat
    <3>1. n \in 0..(RingSize - 1)
      BY <1>1, SlotTypes
    <3> QED
      BY <3>1, LogAssumption
  <2> HIDE DEF n
  <2>3. ASSUME ~overlap, Watched' PROVE Fresh'
    <3>1. Watched
      BY <1>3, <1>4, <2>3 DEF Watched, ctxVars, browserVars
    <3>2. Fresh
      BY <2>3, <3>1 DEF FreshInv
    <3>3. \A i \in (n + 1)..Len(queue) : queue[i] \in Nat
      BY <1>1, <2>2, ElementOfSeq
    <3>4. ASSUME NEW i \in 1..Len(queue') PROVE queue'[i] > since[fd]
      <4>1. Len(queue') = IF n + 1 <= Len(queue) THEN Len(queue) - (n + 1) + 1 ELSE 0
        BY <1>1, <2>1, <2>2, <3>3, SubSeqProperties
      <4>2. \A j \in 1..(Len(queue) - (n + 1) + 1) : queue'[j] = queue[n + 1 + j - 1]
        BY <1>1, <2>1, <2>2, <3>3, SubSeqProperties
      <4>3. i \in 1..(Len(queue) - (n + 1) + 1) /\ n + 1 + i - 1 \in 1..Len(queue)
        BY <1>1, <2>2, <4>1
      <4> QED
        BY <3>2, <4>2, <4>3 DEF Fresh
    <3> QED
      BY <1>3, <1>4, <3>2, <3>4 DEF Fresh, ctxVars, browserVars
  <2> QED
    BY <1>3, <2>1, <2>3 DEF FreshInv, browserVars
<1> QED
  BY <1>5, <1>6

LEMMA FreshInvStep == TypeInv /\ RingInv /\ FreshInv /\ [Next]_vars => FreshInv'
<1> SUFFICES ASSUME TypeInv, RingInv, FreshInv, [Next]_vars PROVE FreshInv'
  OBVIOUS
<1>1. /\ pc \in [Tasks -> Pcs] /\ Httpd \in Tasks /\ Monitor \in Tasks /\ overlap \in BOOLEAN
      /\ since \in [Fds -> Nat] /\ made \in Nat /\ open \subseteq Fds /\ NoFd \notin Fds
  BY LogAssumption DEF TypeInv, TypeOK
<1>2. CASE UNCHANGED vars
  BY <1>2, FreshKept DEF vars, ringVars, ctxVars
<1>3. ASSUME NEW t \in Tasks, NEW n \in Lengths, PushLine(t, n) PROVE FreshInv'
  <2>1. /\ UNCHANGED <<ring, head, queue, ctxVars, browserVars, made>>
        /\ pc[t] = "idle" /\ pc' = [pc EXCEPT ![t] = "check"]
        /\ Enters(t, PushPcs \cup {"discard"})
    BY <1>3 DEF PushLine, ringVars, Goto
  <2>2. overlap => overlap'
    BY <1>1, <2>1, EntersType
  <2>3. /\ \A u \in Tasks : pc'[u] = "advance" => pc[u] = "advance"
        /\ pc[Httpd] \in DiscardPcs => pc'[Httpd] \in DiscardPcs
    BY <1>1, <2>1 DEF DiscardPcs
  <2> QED
    BY <2>1, <2>2, <2>3, FreshKept DEF ctxVars
<1>4. ASSUME NEW t \in Tasks, Push(t) \/ Drain(t) PROVE FreshInv'
  BY <1>4, FreshPush, FreshDrain
<1>5. CASE MonitorDrain
  <2>1. /\ UNCHANGED <<ring, head, queue, ctxVars, browserVars, made, overlap>>
        /\ pc[Monitor] = "idle" /\ pc' = [pc EXCEPT ![Monitor] = "tail"]
    BY <1>5 DEF MonitorDrain, ringVars, Goto
  <2>2. /\ \A u \in Tasks : pc'[u] = "advance" => pc[u] = "advance"
        /\ pc[Httpd] \in DiscardPcs => pc'[Httpd] \in DiscardPcs
    BY <1>1, <2>1 DEF DiscardPcs
  <2> QED
    BY <2>1, <2>2, FreshKept DEF ctxVars
<1>6. ASSUME NEW f \in Fds, FrameNew(f) PROVE FreshInv'
  <2>1. pc' = [pc EXCEPT ![Httpd] = "connect"] /\ UNCHANGED <<since, made>>
    BY <1>6 DEF FrameNew, Goto
  <2>2. ~Watched'
    BY <1>1, <2>1 DEF Watched, DiscardPcs
  <2> QED
    BY <2>1, <2>2 DEF FreshInv
<1>7. CASE Handler
  <2>1. CASE FrameConnect \/ DiscardLoad
    <3>1. UNCHANGED <<since, made>> /\ \E where \in {"load", "discard"} :
              pc' = [pc EXCEPT ![Httpd] = where]
      BY <2>1 DEF FrameConnect, DiscardLoad, Goto, browserVars
    <3>2. ~Watched'
      BY <1>1, <3>1 DEF Watched, DiscardPcs
    <3> QED
      BY <3>1, <3>2 DEF FreshInv
  <2>2. CASE Discard
    <3>1. /\ queue' = <<>> /\ pc[Httpd] = "discard" /\ pc' = [pc EXCEPT ![Httpd] = "check"]
          /\ UNCHANGED <<since, made, overlap>>
      BY <2>2 DEF Discard, Greet, Goto, browserVars
    <3>2. ASSUME ~overlap PROVE Fresh'
      <4>1. \A u \in Tasks : pc'[u] # "advance"
        BY <1>1, <3>1, <3>2 DEF RingInv, Apart, PushPcs
      <4> QED
        BY <3>1, <4>1 DEF Fresh
    <3> QED
      BY <3>1, <3>2 DEF FreshInv
  <2>3. CASE Forget
    <3>1. UNCHANGED <<made, since>> /\ fd' = NoFd /\ open' \subseteq open
      BY <2>3 DEF Forget
    <3>2. ~Watched'
      BY <1>1, <3>1 DEF Watched
    <3> QED
      BY <3>1, <3>2 DEF FreshInv
  <2> QED
    BY <1>7, <2>1, <2>2, <2>3 DEF Handler
<1>8. ASSUME NEW f \in Fds, Open(f) PROVE FreshInv'
  <2>1. /\ UNCHANGED <<ring, head, queue, fd, pc, made, overlap>> /\ open' = open \cup {f}
        /\ since' = [since EXCEPT ![f] = made]
        /\ reused' = IF f = fd THEN reused \cup {f} ELSE reused
    BY <1>8 DEF Open, ringVars, ctxVars
  <2>2. \A g \in Fds : since'[g] <= made'
    BY <1>1, <2>1 DEF FreshInv
  <2>3. ASSUME ~overlap, Watched' PROVE Fresh'
    <3>1. f # fd /\ Watched /\ fd \in Fds
      BY <1>1, <2>1, <2>3 DEF Watched
    <3>2. Fresh /\ since'[fd] = since[fd]
      BY <1>1, <2>1, <2>3, <3>1 DEF FreshInv
    <3> QED
      BY <2>1, <3>2 DEF Fresh
  <2> QED
    BY <2>1, <2>2, <2>3 DEF FreshInv
<1>9. ASSUME NEW f \in Fds, Close(f) PROVE FreshInv'
  <2>1. /\ UNCHANGED <<ring, head, queue, pc, made, since, reused, overlap>>
        /\ open' = open \ {f} /\ UNCHANGED fd
    BY <1>9 DEF Close, ringVars, ctxVars
  <2>2. Watched' => Watched /\ fd' = fd
    BY <1>1, <2>1 DEF Watched
  <2>3. ASSUME ~overlap, Watched' PROVE Fresh'
    BY <2>1, <2>2, <2>3 DEF FreshInv, Fresh
  <2> QED
    BY <2>1, <2>3 DEF FreshInv
<1>10. CASE FrameFails
  <2>1. /\ UNCHANGED <<ring, head, queue, fd, browserVars, made, overlap>>
        /\ pc[Httpd] = "idle" /\ pc' = [pc EXCEPT ![Httpd] = "forget"]
    BY <1>10 DEF FrameFails, ringVars, Goto
  <2>2. /\ \A u \in Tasks : pc'[u] = "advance" => pc[u] = "advance"
        /\ pc[Httpd] \in DiscardPcs => pc'[Httpd] \in DiscardPcs
    BY <1>1, <2>1 DEF DiscardPcs
  <2> QED
    BY <2>1, <2>2, FreshKept
<1> QED
  BY <1>2, <1>3, <1>4, <1>5, <1>6, <1>7, <1>8, <1>9, <1>10 DEF Next

(* No browser is sent what was logged before it connected (NothingStale),  *)
(* however often browsers come and go, unless it got the socket number of  *)
(* the one before: the handler discards only for a new number.             *)
THEOREM NoStaleFrames == Spec => []NothingStale
<1>1. ASSUME TypeInv, RingInv, FreshInv PROVE NothingStale
  <2> SUFFICES ASSUME ~overlap, fd \in open \ reused, NEW t \in Tasks
               PROVE  /\ pc[t] = "first" =>
                            \A i \in 1..FirstLength(t) : FirstFrame(t)[i] > since[fd]
                      /\ pc[t] = "second" =>
                            \A i \in 1..upto[t] : SecondFrame(t)[i] > since[fd]
    BY DEF NothingStale
  <2>1. Apart /\ queue \in Seq(Nat)
    BY <1>1 DEF RingInv, TypeInv, TypeOK
  <2>2. ASSUME pc[t] \in {"first", "second"} PROVE Fresh
    <3>1. pc[Httpd] \notin DiscardPcs
      BY <2>1, <2>2, LogAssumption DEF Apart, DrainPcs, DiscardPcs
    <3> QED
      BY <1>1, <3>1 DEF FreshInv, Watched
  <2> DEFINE n == FirstLength(t)
  <2>3. n \in Nat /\ upto[t] \in Nat
    BY <1>1, FramesAreQueued
  <2>4. ASSUME pc[t] = "first", NEW i \in 1..n PROVE FirstFrame(t)[i] > since[fd]
    <3>1. n <= Len(queue) /\ FirstFrame(t) = SubSeq(queue, 1, n)
      BY <1>1, <2>4, FramesAreQueued
    <3> HIDE DEF n
    <3>2. i \in 1..Len(queue) /\ FirstFrame(t)[i] = queue[i]
      BY <2>1, <2>3, <3>1
    <3> QED
      BY <2>2, <2>4, <3>2 DEF Fresh
  <2>5. ASSUME pc[t] = "second", NEW i \in 1..upto[t] PROVE SecondFrame(t)[i] > since[fd]
    <3>1. /\ n + upto[t] <= Len(queue)
          /\ SecondFrame(t) = SubSeq(queue, n + 1, n + upto[t])
      BY <1>1, <2>5, FramesAreQueued
    <3> HIDE DEF n
    <3>2. n + i \in 1..Len(queue) /\ SecondFrame(t)[i] = queue[n + i]
      BY <2>1, <2>3, <3>1
    <3> QED
      BY <2>2, <2>5, <3>2 DEF Fresh
  <2> QED
    BY <2>4, <2>5
<1> QED
  BY <1>1, TypeInvInit, TypeInvStep, RingInvInit, RingInvStep, FreshInvInit, FreshInvStep,
     PTL DEF Spec
=============================================================================
