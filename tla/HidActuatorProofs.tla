-------------------------- MODULE HidActuatorProofs --------------------------
(***************************************************************************)
(* Proofs about HidActuator, for every set of keys, commands, movements    *)
(* and faults, every queue depth and every number of calls.                *)
(***************************************************************************)
EXTENDS HidActuator, TLAPS

-----------------------------------------------------------------------------
(* The key tracker.                                                        *)

(* The cleared tracker is consistent and shows the host nothing. *)
LEMMA ClearedWellFormed == WellFormed(Cleared) /\ Reported(Cleared) = {}
  BY KeySlotsAssumption DEF WellFormed, Cleared, KeyTracker, Used, Slot, Reported

(* A press keeps the tracker consistent, whatever is in it already. *)
LEMMA PressWellFormed ==
  ASSUME NEW t, WellFormed(t), NEW k \in Keys
  PROVE  WellFormed(Press(t, k))
  <1>1. CASE t.count < MaxKeys /\ ~Holds(t, k)
    <2> DEFINE n == t.count + 1
               u == [count |-> n, slot |-> [t.slot EXCEPT ![n] = k]]
    <2>1. /\ t.count \in 0..MaxKeys /\ t.slot \in [Slot -> Keys \cup {NoKey}]
          /\ n \in Slot /\ n \in 1..MaxKeys
      BY <1>1, KeySlotsAssumption DEF WellFormed, KeyTracker, Slot
    <2>2. u.count = n /\ u.slot = [t.slot EXCEPT ![n] = k] /\ Press(t, k) = u
      BY <1>1 DEF Press
    <2>3. u \in KeyTracker
      BY <2>1, KeySlotsAssumption DEF KeyTracker, Slot
    <2>4. Used(u) = Used(t) \cup {n} /\ n \notin Used(t) /\ Used(t) \subseteq Slot
      BY <2>1, <2>2, KeySlotsAssumption DEF Used, Slot
    <2>5. /\ u.slot[n] = k
          /\ \A i \in Slot \ {n} : u.slot[i] = t.slot[i]
      BY <2>1, <2>2
    <2>6. \A i \in Used(t) : t.slot[i] # k
      BY <1>1 DEF Holds
    <2> QED
      BY <2>2, <2>3, <2>4, <2>5, <2>6 DEF WellFormed
  <1>2. CASE ~(t.count < MaxKeys /\ ~Holds(t, k))
    BY <1>2 DEF Press
  <1> QED
    BY <1>1, <1>2

(* In a consistent tracker the search for a key finds its slot. *)
LEMMA FirstSlotFound ==
  ASSUME NEW t, WellFormed(t), NEW k, Holds(t, k)
  PROVE  FirstSlotOf(t, k) \in Used(t) /\ t.slot[FirstSlotOf(t, k)] = k
  <1>1. PICK i \in Used(t) : t.slot[i] = k
    BY DEF Holds
  <1>2. \A j \in Used(t) : t.slot[j] = k => i <= j
    <2> SUFFICES ASSUME NEW j \in Used(t), t.slot[j] = k PROVE i <= j
      OBVIOUS
    <2>1. i = j
      BY <1>1 DEF WellFormed
    <2>2. i \in Int
      BY DEF Used, WellFormed, KeyTracker
    <2> QED
      BY <2>1, <2>2
  <1> QED
    BY <1>1, <1>2 DEF FirstSlotOf

(* A release keeps the tracker consistent: moving the last entry into the  *)
(* hole and zeroing its old slot leaves neither a gap nor a double.        *)
LEMMA ReleaseWellFormed ==
  ASSUME NEW t, WellFormed(t), NEW k
  PROVE  WellFormed(Release(t, k))
  <1>1. CASE Holds(t, k)
    <2> DEFINE i == FirstSlotOf(t, k)
               n == t.count
               u == RemoveAt(t, i)
    <2>1. i \in Used(t)
      BY <1>1, FirstSlotFound
    <2>2. /\ n \in 1..MaxKeys /\ i \in 1..n /\ i \in Slot /\ n \in Slot /\ n \in Used(t)
          /\ t.slot \in [Slot -> Keys \cup {NoKey}]
      BY <2>1, KeySlotsAssumption DEF WellFormed, KeyTracker, Used, Slot
    <2>3. /\ u.count = n - 1
          /\ u.slot = [[t.slot EXCEPT ![i] = t.slot[n]] EXCEPT ![n] = NoKey]
          /\ Release(t, k) = u
      BY <1>1 DEF Release, RemoveAt
    <2>4. u \in KeyTracker
      BY <2>2, KeySlotsAssumption DEF KeyTracker, RemoveAt, Slot
    <2>5. /\ Used(u) = Used(t) \ {n}
          /\ Used(t) \subseteq Slot
          /\ Slot \ Used(u) = (Slot \ Used(t)) \cup {n}
      BY <2>2, <2>3, KeySlotsAssumption DEF Used, Slot
    <2>6. /\ u.slot[n] = NoKey
          /\ i # n => u.slot[i] = t.slot[n]
          /\ \A j \in Slot \ {i, n} : u.slot[j] = t.slot[j]
      BY <2>2, <2>3
    <2>7. \A j \in Used(u) : u.slot[j] \in Keys
      BY <2>2, <2>5, <2>6 DEF WellFormed
    <2>8. \A j \in Slot \ Used(u) : u.slot[j] = NoKey
      BY <2>1, <2>2, <2>5, <2>6 DEF WellFormed
    <2>9. ASSUME NEW j \in Used(u), NEW l \in Used(u), u.slot[j] = u.slot[l]
          PROVE  j = l
      BY <2>2, <2>5, <2>6, <2>9 DEF WellFormed
    <2> QED
      BY <2>3, <2>4, <2>7, <2>8, <2>9 DEF WellFormed
  <1>2. CASE ~Holds(t, k)
    BY <1>2, ClearedWellFormed DEF Release
  <1> QED
    BY <1>1, <1>2

-----------------------------------------------------------------------------
(* Who may write what: the frame of the three kinds of steps.              *)

USE DEF vars, netVars, sharedVars, hidVars, aimVars, usbVars, powerVars, usbButEndpoint,
        usbButPending

(* The TinyUSB task and the host touch nothing of the two other tasks. *)
LEMMA UsbFrame ==
  ASSUME UsbTaskStep
  PROVE  UNCHANGED <<netVars, sharedVars, hidVars>>
  BY DEF UsbTaskStep

(* The network task touches nothing of the HID task and nothing of the bus *)
(* but the notification, which it never takes back.                        *)
LEMMA NetFrame ==
  ASSUME NetStep
  PROVE  /\ UNCHANGED <<hidVars, mounted, endpoint, usbPc, powerVars, pendingSend, host>>
         /\ notified => notified'
  <1>1. ASSUME NEW c \in Commands, NetQueue(c) \/ NetDropRepeat(c)
        PROVE  UNCHANGED <<hidVars, usbVars>>
    BY <1>1 DEF NetQueue, NetDropRepeat
  <1>2. ASSUME NEW m \in Moves, NetMoveX(m)
        PROVE  UNCHANGED <<hidVars, usbVars>>
    BY <1>2 DEF NetMoveX
  <1>3. CASE NetUnblock \/ NetTimeout \/ NetDump \/ NetDisconnect \/ NetFlush
             \/ NetMoveY \/ NetMoveCas
    <2>1. UNCHANGED <<hidVars, usbVars>>
      BY <1>3 DEF NetUnblock, NetTimeout, NetDump, NetDisconnect, NetFlush, NetMoveY, NetMoveCas
    <2> QED
      BY <2>1
  <1>4. CASE NetGive
    BY <1>4 DEF NetGive
  <1> QED
    BY <1>1, <1>2, <1>3, <1>4 DEF NetStep

(* The HID task writes nothing of the network task's, the queue only when  *)
(* it receives, and of the bus nothing but what goes through the endpoint. *)
LEMMA HidFrame ==
  ASSUME HidStep
  PROVE  /\ UNCHANGED <<netVars, mounted, usbPc, suspended, hostEn, gSuspended, wakeupEn, host>>
         /\ HidReceive \/ UNCHANGED queue
  BY DEF HidStep, HidClaimMove, HidMove, HidReceive, HidWake, HidDrop, HidKey, HidMouse, HidEnter, HidLeave,
         HidLeaveMouse, HidJiggle, HidJiggleAside, HidSession, HidStoreX, HidStoreY,
         HidLoadX, HidLoadY, HidSendMove, HidSendEnter, HidSendLeave, HidSendJiggle,
         HidWakeHost, HidSendAccepted, HidSendRefused, HidRetry

-----------------------------------------------------------------------------
(* Types.  The helpers first.                                              *)

(* Arithmetic modulo the word stays in the word. *)
LEMMA WordIsPositive == Word \in Nat \ {0} /\ AbsPtrMax \in Int
  BY DEF Word, AbsPtrMax

LEMMA Int16IsInt == ASSUME NEW v \in Int16 PROVE v \in Int
<1>1. MaxInt16 \in Int
  BY DEF MaxInt16
<1> QED
  BY <1>1 DEF Int16

LEMMA WordMod == ASSUME NEW v \in Int PROVE v % Word \in UInt16
  BY WordIsPositive DEF UInt16

LEMMA DenomType == ASSUME NEW size \in UInt16 PROVE Denom(size) \in UInt16
  <1>1. size - 1 \in Int
    BY WordIsPositive DEF UInt16
  <1> QED
    BY <1>1, WordMod DEF Denom

(* The conversions stay within 16 bits whatever the position and the       *)
(* screen are.                                                             *)
LEMMA HidPointType ==
  ASSUME NEW p \in Point, screen \in Size
  PROVE  HidPoint(p) \in Point
  <1>1. ASSUME NEW v \in UInt16, NEW size \in UInt16
        PROVE  ToHid(v, size) \in UInt16
    <2>1. CASE Denom(size) = 0
      BY <2>1, WordIsPositive DEF ToHid, UInt16
    <2>2. CASE Denom(size) # 0
      <3> DEFINE q == (v * AbsPtrMax) \div Denom(size)
      <3>1. v \in Int /\ Denom(size) \in Nat \ {0}
        BY <2>2, DenomType, WordIsPositive DEF UInt16
      <3>2. v * AbsPtrMax \in Int
        BY <3>1, WordIsPositive
      <3>3. q \in Int
        BY <3>1, <3>2
      <3> HIDE DEF q
      <3>4. q % Word \in UInt16
        BY <3>3, WordMod
      <3> QED
        BY <2>2, <3>4 DEF ToHid, q
    <2> QED
      BY <2>1, <2>2
  <1> QED
    BY <1>1 DEF HidPoint, Point, Size

LEMMA MouseReportType ==
  ASSUME TypeOK, NEW p \in Point
  PROVE  MouseReport(p) \in Report
  BY HidPointType DEF TypeOK, MouseReport, Report, MouseReports

LEMMA KbReportType ==
  ASSUME NEW t \in KeyTracker, NEW mask \in Masks
  PROVE  KbReport(t, mask) \in Report
  <1>1. Reported(t) \subseteq Keys
    BY DEF Reported, KeyTracker
  <1> QED
    BY <1>1 DEF KbReport, Report, KeyReports, Masks

(* A movement ends inside 16 bits: absolute ones are read as such, and     *)
(* clamp_u16 cuts the relative ones.                                       *)
LEMMA DestinationType ==
  ASSUME target \in Point, screen \in Size, NEW m \in Moves
  PROVE  Destination(m) \in Point
  <1>1. ASSUME NEW v \in Int, NEW max \in UInt16
        PROVE  Clamp(v, max) \in UInt16
    BY <1>1, WordIsPositive DEF Clamp, UInt16
  <1>2. m \in Move
    BY ActuatorAssumption
  <1>3. CASE m.kind = "abs"
    BY <1>2, <1>3 DEF Destination, Move, Point
  <1>4. CASE m.kind # "abs"
    <2>1. m.x \in Int /\ m.y \in Int
      <3>1. m.x \in Int16 /\ m.y \in Int16
        BY <1>2, <1>4 DEF Move
      <3> QED
        BY <3>1, Int16IsInt
    <2>2. target.x + m.x \in Int /\ target.y + m.y \in Int
      BY <2>1, WordIsPositive DEF Point, UInt16
    <2>3. Denom(screen.w) \in UInt16 /\ Denom(screen.h) \in UInt16
      BY DenomType DEF Size
    <2> QED
      BY <1>1, <1>4, <2>2, <2>3 DEF Destination, Point
  <1> QED
    BY <1>3, <1>4

(* One try at a mouse report changes only what it may, within its types. *)
LEMMA SendOnceType ==
  ASSUME TypeOK, SendAbsMouseOnce
  PROVE  /\ endpoint' \in Report \cup {NoReport}
         /\ lastSent' \in [pos : Point, buttons : SUBSET HidButtons]
         /\ wheel' \in WheelSteps
         /\ leaveLost' \in BOOLEAN
  <1>1. screen \in Size /\ seen \in Point /\ buttons \in SUBSET HidButtons
    BY DEF TypeOK
  <1>2. MouseReport(seen) \in Report /\ HidPoint(seen) \in Point
    BY <1>1, MouseReportType, HidPointType
  <1>3. 0 \in WheelSteps
    BY DEF WheelSteps
  <1>4. CASE ~Redundant /\ Accepts
    <2>1. /\ endpoint' = MouseReport(seen) /\ wheel' = 0 /\ leaveLost' = FALSE
          /\ lastSent' = [pos |-> HidPoint(seen), buttons |-> buttons]
      BY <1>4 DEF SendAbsMouseOnce
    <2> QED
      BY <1>1, <1>2, <1>3, <2>1
  <1>5. CASE ~(~Redundant /\ Accepts)
    <2>1. /\ UNCHANGED <<endpoint, lastSent, wheel>>
          /\ leaveLost' = (leaveLost \/ (Doing = "LEAVE" /\ lastSent.buttons # {}))
      BY <1>5 DEF SendAbsMouseOnce
    <2>2. leaveLost' \in BOOLEAN
      BY <2>1
    <2> QED
      BY <2>1, <2>2 DEF TypeOK
  <1> QED
    BY <1>4, <1>5

LEMMA DampedType ==
  ASSUME NEW dy \in Int
  PROVE  Damped(dy) \in WheelSteps /\ Damped(dy) \in Int
  BY DEF Damped, WheelSteps

(* What a command carries, by its type. *)
LEMMA CommandFields ==
  ASSUME NEW c \in Command
  PROVE  /\ c.type \in {"KEY_DOWN", "KEY_UP"} => c.key \in Keys /\ c.mask \in Masks
         /\ c.type \in {"MOUSE_DOWN", "MOUSE_UP"} => c.id \in Buttons
         /\ c.type = "MOUSE_WHEEL" => c.dy \in Int
         /\ c.type = "ENTER" => c.x \in UInt16 /\ c.y \in UInt16 /\ c.mask \in Masks
         /\ c.type = "SET_SCREEN_SIZE" => c.w \in UInt16 /\ c.h \in UInt16
  <1>1. c.type = "MOUSE_WHEEL" => c.dy \in Int16
    BY DEF Command
  <1> QED
    BY <1>1, Int16IsInt DEF Command

(* The ghost server stays a record of sets of keys and buttons. *)
LEMMA ServerAfterType ==
  ASSUME TypeOK, NEW c \in Command
  PROVE  ServerAfter(c) \in [online : BOOLEAN, entered : BOOLEAN, keys : SUBSET Keys,
                             buttons : SUBSET Buttons, wheel : Int, exact : BOOLEAN]
  <1>0. server \in [online : BOOLEAN, entered : BOOLEAN, keys : SUBSET Keys,
                    buttons : SUBSET Buttons, wheel : Int, exact : BOOLEAN]
    BY DEF TypeOK
  <1>1. CASE c.type = "KEY_DOWN"
    BY <1>0, <1>1, CommandFields DEF ServerAfter
  <1>2. CASE c.type = "KEY_UP"
    BY <1>0, <1>2, CommandFields DEF ServerAfter
  <1>3. CASE c.type = "MOUSE_DOWN"
    BY <1>0, <1>3, CommandFields DEF ServerAfter
  <1>4. CASE c.type = "MOUSE_UP"
    BY <1>0, <1>4, CommandFields DEF ServerAfter
  <1>5. CASE c.type = "MOUSE_WHEEL"
    <2>1. server.wheel \in Int /\ Damped(c.dy) \in Int
      BY <1>0, <1>5, CommandFields, DampedType
    <2>2. server.wheel + Damped(c.dy) \in Int
      BY <2>1
    <2> QED
      BY <1>0, <1>5, <2>2 DEF ServerAfter
  <1>6. CASE c.type \in {"ENTER", "LEAVE", "CONNECTED"}
    BY <1>0, <1>6 DEF ServerAfter
  <1>7. CASE c.type \notin {"KEY_DOWN", "KEY_UP", "MOUSE_DOWN", "MOUSE_UP", "MOUSE_WHEEL",
                            "ENTER", "LEAVE", "CONNECTED"}
    BY <1>0, <1>7 DEF ServerAfter
  <1> QED
    BY <1>1, <1>2, <1>3, <1>4, <1>5, <1>6, <1>7

LEMMA SessionOverType ==
  ASSUME TypeOK
  PROVE  SessionOver \in [online : BOOLEAN, entered : BOOLEAN, keys : SUBSET Keys,
                          buttons : SUBSET Buttons, wheel : Int, exact : BOOLEAN]
  BY DEF TypeOK, SessionOver, Offline

(* Queueing keeps the bound of the queue and the place of the caller. *)
LEMMA EnqueueType ==
  ASSUME TypeOK, netPc \in {"idle", "flush"}, NEW c \in Command, Enqueue(c)
  PROVE  /\ queue' \in Seq(Command) /\ Len(queue') <= QueueDepth
         /\ netPc' \in {"give", "full"}
         /\ netCmd' \in Command \cup {NoCmd}
         /\ netPc' \in {"full", "dump"} => netCmd' \in Command
  <1>1. queue \in Seq(Command) /\ Len(queue) \in Nat /\ Len(queue) <= QueueDepth
    BY DEF TypeOK
  <1>2. Append(queue, c) \in Seq(Command) /\ Len(Append(queue, c)) = Len(queue) + 1
    BY <1>1
  <1>3. QueueDepth \in Nat
    BY ActuatorAssumption
  <1>4. CASE Len(queue) < QueueDepth
    <2>1. queue' = Append(queue, c) /\ netPc' = "give" /\ netCmd' = netCmd
      BY <1>4 DEF Enqueue
    <2>2. Len(queue) + 1 <= QueueDepth
      BY <1>1, <1>3, <1>4
    <2> QED
      BY <1>2, <2>1, <2>2 DEF TypeOK
  <1>5. CASE ~(Len(queue) < QueueDepth)
    BY <1>1, <1>5 DEF Enqueue
  <1> QED
    BY <1>4, <1>5

(* Taking the head shortens the queue. *)
LEMMA TailType ==
  ASSUME TypeOK, queue # <<>>
  PROVE  /\ Head(queue) \in Command
         /\ Tail(queue) \in Seq(Command) /\ Len(Tail(queue)) <= QueueDepth
  <1>1. queue \in Seq(Command) /\ Len(queue) \in Nat /\ Len(queue) <= QueueDepth
    BY DEF TypeOK
  <1>2. Len(Tail(queue)) = Len(queue) - 1 /\ Tail(queue) \in Seq(Command)
    BY <1>1
  <1>3. Head(queue) \in Command
    BY <1>1
  <1> QED
    BY <1>1, <1>2, <1>3, ActuatorAssumption

(* What the host takes from the endpoint is a state of the host. *)
LEMMA HostTakesType ==
  ASSUME TypeOK, endpoint # NoReport
  PROVE  HostTakes(host, endpoint) \in
           [keys : SUBSET Keys, mods : Masks, buttons : SUBSET HidButtons,
            wheel : Int, pos : Point \cup {NoPos}]
  <1>1. CASE endpoint \in KeyReports
    BY <1>1 DEF TypeOK, HostTakes, KeyReports
  <1>2. CASE endpoint \in MouseReports
    <2>1. host.wheel + endpoint.wheel \in Int
      BY <1>2 DEF TypeOK, MouseReports, WheelSteps
    <2>2. endpoint.kind = "mouse" /\ endpoint.buttons \in SUBSET HidButtons /\ endpoint.pos \in Point
      BY <1>2 DEF MouseReports
    <2>3. HostTakes(host, endpoint) =
            [host EXCEPT !.buttons = endpoint.buttons, !.pos = endpoint.pos,
                         !.wheel = host.wheel + endpoint.wheel]
      BY <2>2 DEF HostTakes
    <2> QED
      BY <2>1, <2>2, <2>3 DEF TypeOK
  <1> QED
    BY <1>1, <1>2 DEF TypeOK, Report

(* The invariant: the types, and the tracker, without which a release      *)
(* would not know which slot its search stops at.                          *)
TypeInv == TypeOK /\ TrackerWellFormed

LEMMA TypeInit == Init => TypeInv
  <1> SUFFICES ASSUME Init PROVE TypeInv
    OBVIOUS
  <1>1. [x |-> 0, y |-> 0] \in Point /\ 0 \in 0..MaxCalls
    BY WordIsPositive, ActuatorAssumption DEF Point, UInt16
  <1>2. WellFormed(keys) /\ keys \in KeyTracker
    BY ClearedWellFormed DEF Init, WellFormed
  <1>3. server \in [online : BOOLEAN, entered : BOOLEAN, keys : SUBSET Keys,
                    buttons : SUBSET Buttons, wheel : Int, exact : BOOLEAN]
    BY DEF Init, Offline
  <1>4. mounted \in BOOLEAN
    BY DEF Init, UsbInit
  <1>5. host \in [keys : SUBSET Keys, mods : Masks, buttons : SUBSET HidButtons,
                  wheel : Int, pos : Point \cup {NoPos}]
    BY DEF Init, UsbInit, HostReleased, Masks
  <1>6. queue \in Seq(Command) /\ Len(queue) <= QueueDepth
    <2>1. queue = <<>> /\ QueueDepth \in Nat
      BY ActuatorAssumption DEF Init
    <2> QED
      BY <2>1
  <1>7. screen \in Size /\ dedup \in [DedupKinds -> Command \cup {NoCmd}]
    BY ActuatorAssumption DEF Init
  <1>8. /\ netPc \in NetPcs /\ netPc \notin {"full", "dump"}
        /\ hidPc \in HidPcs /\ hidPc \notin {"exec", "wakeup", "send", "wait"}
        /\ usbPc \in UsbPcs
    BY DEF Init, UsbInit, NetPcs, HidPcs, UsbPcs
  <1>9. /\ netMove \in Point /\ target \in Point /\ orig \in Point /\ goal \in Point
        /\ seen \in Point /\ leaveLost \in BOOLEAN
        /\ lastSent \in [pos : Point, buttons : SUBSET HidButtons]
    BY <1>1 DEF Init
  <1>10. /\ netCmd \in Command \cup {NoCmd} /\ cmd \in Command \cup {NoCmd}
         /\ report \in Report \cup {NoReport} /\ endpoint \in Report \cup {NoReport}
         /\ calls \in 0..MaxCalls /\ buttons \in SUBSET HidButtons /\ wheel \in WheelSteps
    BY <1>1 DEF Init, UsbInit, WheelSteps
  <1>11. /\ movePending \in BOOLEAN
         /\ suspended \in BOOLEAN /\ hostEn \in BOOLEAN /\ gSuspended \in BOOLEAN
         /\ wakeupEn \in BOOLEAN /\ waking \in BOOLEAN
         /\ pendingSend \in BOOLEAN /\ notified \in BOOLEAN
    BY DEF Init, UsbInit
  <1> QED
    BY <1>2, <1>3, <1>4, <1>5, <1>6, <1>7, <1>8, <1>9, <1>10, <1>11
    DEF TypeInv, TypeOK, TrackerWellFormed

LEMMA TypeNetStep ==
  ASSUME TypeInv, NetStep
  PROVE  TypeInv'
  <1> USE DEF TypeInv
  <1>1. /\ TypeOK /\ TrackerWellFormed /\ Commands \subseteq Command
        /\ MaxCalls \in Nat
    BY ActuatorAssumption
  <1>2. ASSUME NEW c \in Commands, NetQueue(c) PROVE TypeInv'
    <2>1. c \in Command /\ calls + 1 \in 0..MaxCalls
      BY <1>1, <1>2 DEF NetQueue, TypeOK
    <2>2. dedup' \in [DedupKinds -> Command \cup {NoCmd}]
      BY <1>1, <1>2, <2>1 DEF NetQueue, TypeOK
    <2>3. /\ queue' \in Seq(Command) /\ Len(queue') <= QueueDepth
          /\ netPc' \in {"give", "full"}
          /\ netCmd' \in Command \cup {NoCmd}
          /\ netPc' \in {"full", "dump"} => netCmd' \in Command
      BY <1>1, <1>2, <2>1, EnqueueType DEF NetQueue
    <2> QED
      BY <1>1, <1>2, <2>1, <2>2, <2>3, ServerAfterType
      DEF NetQueue, TypeOK, NetPcs, TrackerWellFormed
  <1>3. ASSUME NEW c \in Commands, NetDropRepeat(c) PROVE TypeInv'
    <2>1. c \in Command /\ calls + 1 \in 0..MaxCalls
      BY <1>1, <1>3 DEF NetDropRepeat, TypeOK
    <2>2. server' \in [online : BOOLEAN, entered : BOOLEAN, keys : SUBSET Keys,
                       buttons : SUBSET Buttons, wheel : Int, exact : BOOLEAN]
      <3>1. ServerAfter(c) \in [online : BOOLEAN, entered : BOOLEAN, keys : SUBSET Keys,
                       buttons : SUBSET Buttons, wheel : Int, exact : BOOLEAN]
        BY <1>1, <2>1, ServerAfterType
      <3> QED
        BY <1>1, <1>3, <3>1 DEF NetDropRepeat, TypeOK
    <2>3. /\ UNCHANGED <<netPc, netCmd, netMove, dedup, sharedVars, hidVars, usbVars>>
          /\ calls' \in 0..MaxCalls
      BY <1>3, <2>1 DEF NetDropRepeat
    <2> QED
      BY <1>1, <2>2, <2>3 DEF TypeOK, TrackerWellFormed
  <1>4. CASE NetGive
    BY <1>1, <1>4 DEF NetGive, TypeOK, NetPcs, TrackerWellFormed
  <1>5. CASE NetUnblock
    <2>1. queue \in Seq(Command) /\ Len(queue) \in Nat /\ Len(queue) < QueueDepth
          /\ netCmd \in Command /\ QueueDepth \in Nat
      BY <1>1, <1>5, ActuatorAssumption DEF NetUnblock, TypeOK
    <2>2. Append(queue, netCmd) \in Seq(Command) /\ Len(Append(queue, netCmd)) <= QueueDepth
      BY <2>1
    <2>3. /\ netPc' \in NetPcs /\ netPc' \notin {"full", "dump"}
          /\ netCmd' = NoCmd /\ queue' = Append(queue, netCmd)
          /\ UNCHANGED <<netMove, dedup, calls, server, target, movePending, hidVars, usbVars>>
      BY <1>5 DEF NetUnblock, NetPcs
    <2> QED
      BY <1>1, <2>2, <2>3 DEF TypeOK, TrackerWellFormed
  <1>6. CASE NetTimeout
    BY <1>1, <1>6 DEF NetTimeout, TypeOK, NetPcs, TrackerWellFormed
  <1>7. CASE NetDump
    <2>1. CASE queue # <<>>
      <3>1. /\ queue' = Tail(queue)
            /\ UNCHANGED <<netPc, netCmd, netMove, dedup, calls, server, target, movePending,
                           hidVars, usbVars>>
        BY <1>7, <2>1 DEF NetDump
      <3> QED
        BY <1>1, <2>1, <3>1, TailType DEF TypeOK, TrackerWellFormed
    <2>2. CASE queue = <<>>
      <3>1. /\ netPc' \in {"idle", "flush"} /\ netCmd' = NoCmd
            /\ server' = server \/ server' = SessionOver
        BY <1>7, <2>2 DEF NetDump
      <3>2. server' \in [online : BOOLEAN, entered : BOOLEAN, keys : SUBSET Keys,
                         buttons : SUBSET Buttons, wheel : Int, exact : BOOLEAN]
        BY <1>1, <3>1, SessionOverType DEF TypeOK
      <3> QED
        <4>1. UNCHANGED <<netMove, dedup, calls, queue, target, movePending, hidVars, usbVars>>
          BY <1>7, <2>2 DEF NetDump
        <4>2. netPc' \in NetPcs /\ netPc' \notin {"full", "dump"}
          BY <3>1 DEF NetPcs
        <4> QED
          BY <1>1, <3>1, <3>2, <4>1, <4>2 DEF TypeOK, TrackerWellFormed
    <2> QED
      BY <2>1, <2>2
  <1>8. CASE NetDisconnect
    <2>1. calls + 1 \in 0..MaxCalls
      BY <1>1, <1>8 DEF NetDisconnect, TypeOK
    <2> QED
      BY <1>1, <1>8, <2>1, SessionOverType DEF NetDisconnect, TypeOK, NetPcs, TrackerWellFormed
  <1>9. CASE NetFlush
    <2>1. CASE queue # <<>>
      <3>1. /\ queue' = Tail(queue)
            /\ UNCHANGED <<netPc, netCmd, netMove, dedup, calls, server, target, movePending,
                           hidVars, usbVars>>
        BY <1>9, <2>1 DEF NetFlush
      <3> QED
        BY <1>1, <2>1, <3>1, TailType DEF TypeOK, TrackerWellFormed
    <2>2. CASE queue = <<>>
      <3>1. [type |-> "DISCONNECTED"] \in Command
        BY DEF Command
      <3>2. /\ queue' \in Seq(Command) /\ Len(queue') <= QueueDepth
            /\ netPc' \in {"give", "full"}
            /\ netCmd' \in Command \cup {NoCmd}
            /\ netPc' \in {"full", "dump"} => netCmd' \in Command
        BY <1>1, <1>9, <2>2, <3>1, EnqueueType DEF NetFlush
      <3>3. /\ netPc' \in NetPcs
            /\ UNCHANGED <<netMove, dedup, calls, server, target, movePending, hidVars, usbVars>>
        BY <1>9, <3>2 DEF NetFlush, NetPcs
      <3> QED
        BY <1>1, <3>2, <3>3 DEF TypeOK, TrackerWellFormed
    <2> QED
      BY <2>1, <2>2
  <1>10. ASSUME NEW m \in Moves, NetMoveX(m) PROVE TypeInv'
    <2>1. Destination(m) \in Point
      BY <1>1, DestinationType DEF TypeOK
    <2>2. calls + 1 \in 0..MaxCalls
      BY <1>1, <1>10 DEF NetMoveX, TypeOK
    <2>3. [target EXCEPT !.x = Destination(m).x] \in Point
      BY <1>1, <2>1 DEF TypeOK, Point
    <2> QED
      BY <1>1, <1>10, <2>1, <2>2, <2>3 DEF NetMoveX, TypeOK, NetPcs, TrackerWellFormed
  <1>11. CASE NetMoveY
    <2>1. [target EXCEPT !.y = netMove.y] \in Point
      BY <1>1 DEF TypeOK, Point
    <2> QED
      BY <1>1, <1>11, <2>1 DEF NetMoveY, TypeOK, NetPcs, TrackerWellFormed
  <1>12. CASE NetMoveCas
    <2>1. /\ netPc' \in NetPcs /\ netPc' \notin {"full", "dump"}
          /\ movePending' \in BOOLEAN
      BY <1>1, <1>12 DEF NetMoveCas, TypeOK, NetPcs
    <2>2. UNCHANGED <<netCmd, netMove, dedup, calls, server, queue, target, hidVars, usbVars>>
      BY <1>12 DEF NetMoveCas
    <2> QED
      BY <1>1, <2>1, <2>2 DEF TypeOK, TrackerWellFormed
  <1> QED
    BY <1>2, <1>3, <1>4, <1>5, <1>6, <1>7, <1>8, <1>9, <1>10, <1>11, <1>12 DEF NetStep

(* The start of a report that is insisted on. *)
LEMMA StartSendingType ==
  ASSUME NEW r \in Report, StartSending(r)
  PROVE  /\ report' \in Report /\ pendingSend' \in BOOLEAN
         /\ hidPc' = "wakeup" /\ hidPc' \in HidPcs
  BY DEF StartSending, HidPcs

(* The end of one: the command stays in hand for the second half of LEAVE. *)
LEMMA AfterSendType ==
  ASSUME TypeOK, AfterSend
  PROVE  /\ report' = NoReport /\ pendingSend' \in BOOLEAN
         /\ hidPc' \in HidPcs /\ hidPc' \notin {"exec", "wakeup", "send", "wait"}
         /\ cmd' \in Command \cup {NoCmd}
  <1>1. hidPc' \in {"leave", "top"}
    BY DEF AfterSend
  <1>2. cmd' \in Command \cup {NoCmd}
    BY DEF AfterSend, TypeOK
  <1> QED
    BY <1>1, <1>2 DEF AfterSend, HidPcs

(* The HID task without a command that waits for the endpoint. *)
Unbound == hidPc' \in HidPcs \ {"exec", "wakeup", "send", "wait"}

LEMMA TypeHidAim ==
  ASSUME TypeInv,
         HidMove \/ HidLoadX \/ HidLoadY \/ HidEnter \/ HidStoreX \/ HidStoreY
           \/ HidJiggle \/ HidJiggleAside
  PROVE  TypeInv'
  <1> USE DEF TypeInv
  <1>1. TypeOK /\ TrackerWellFormed /\ screen \in Size /\ target \in Point /\ seen \in Point
        /\ orig \in Point /\ goal \in Point
    BY DEF TypeOK
  <1>2. CASE HidMove
    <2>1. /\ Unbound /\ seen' \in Point
          /\ UNCHANGED <<netVars, sharedVars, cmd, keys, buttons, wheel, lastSent, screen,
                         report, orig, goal, leaveLost, usbVars>>
      BY <1>1, <1>2 DEF HidMove, Unbound, HidPcs
    <2> QED
      BY <1>1, <2>1 DEF TypeOK, TrackerWellFormed, Unbound
  <1>3. CASE HidLoadX
    <2>1. [seen EXCEPT !.x = target.x] \in Point
      BY <1>1 DEF Point
    <2>2. /\ Unbound /\ seen' \in Point
          /\ UNCHANGED <<netVars, sharedVars, cmd, keys, buttons, wheel, lastSent, screen,
                         report, orig, goal, leaveLost, usbVars>>
      BY <1>3, <2>1 DEF HidLoadX, Unbound, HidPcs
    <2> QED
      BY <1>1, <2>2 DEF TypeOK, TrackerWellFormed, Unbound
  <1>4. CASE HidLoadY
    <2>1. [seen EXCEPT !.y = target.y] \in Point
      BY <1>1 DEF Point
    <2>2. /\ seen' \in Point
          /\ UNCHANGED <<netVars, sharedVars, cmd, keys, buttons, wheel, lastSent, screen,
                         orig, goal, leaveLost, usbButPending>>
      BY <1>4, <2>1 DEF HidLoadY
    <2>3. CASE Doing \in {"MOUSE_DOWN", "MOUSE_UP", "MOUSE_WHEEL"}
      <3>1. cmd \in Command
        BY <1>1, <2>3 DEF Doing, TypeOK
      <3>2. MouseReport(seen') \in Report
        BY <1>1, <2>2, MouseReportType
      <3>3. StartSending(MouseReport(seen'))
        BY <1>4, <2>3 DEF HidLoadY
      <3>4. /\ report' \in Report /\ pendingSend' \in BOOLEAN
            /\ hidPc' = "wakeup" /\ hidPc' \in HidPcs
        BY <3>2, <3>3, StartSendingType
      <3> QED
        BY <1>1, <2>2, <3>1, <3>4 DEF TypeOK, TrackerWellFormed
    <2>4. CASE Doing \notin {"MOUSE_DOWN", "MOUSE_UP", "MOUSE_WHEEL"}
      <3>1. Unbound /\ UNCHANGED <<report, pendingSend>>
        BY <1>4, <2>4 DEF HidLoadY, Unbound, HidPcs
      <3> QED
        BY <1>1, <2>2, <3>1 DEF TypeOK, TrackerWellFormed, Unbound
    <2> QED
      BY <2>3, <2>4
  <1>5. CASE HidEnter
    <2>1. cmd \in Command /\ cmd.x \in UInt16 /\ cmd.y \in UInt16
      BY <1>1, <1>5, CommandFields DEF HidEnter, Executes, TypeOK
    <2>2. /\ Unbound /\ goal' \in Point
          /\ UNCHANGED <<netVars, sharedVars, cmd, keys, buttons, wheel, lastSent, screen,
                         report, orig, seen, leaveLost, usbVars>>
      BY <1>5, <2>1 DEF HidEnter, Unbound, HidPcs, Point
    <2> QED
      BY <1>1, <2>2 DEF TypeOK, TrackerWellFormed, Unbound
  <1>6. CASE HidStoreX \/ HidStoreY
    <2>1. [target EXCEPT !.x = goal.x] \in Point /\ [target EXCEPT !.y = goal.y] \in Point
      BY <1>1 DEF Point
    <2>2. /\ Unbound /\ target' \in Point
          /\ UNCHANGED <<netVars, queue, movePending, cmd, keys, buttons, wheel, lastSent,
                         screen, report, aimVars, leaveLost, usbVars>>
      BY <1>6, <2>1 DEF HidStoreX, HidStoreY, Unbound, HidPcs
    <2> QED
      BY <1>1, <2>2 DEF TypeOK, TrackerWellFormed, Unbound
  <1>7. CASE HidJiggle
    <2>1. [orig EXCEPT !.x = target.x] \in Point
      BY <1>1 DEF Point
    <2>2. /\ Unbound /\ orig' \in Point
          /\ UNCHANGED <<netVars, sharedVars, cmd, keys, buttons, wheel, lastSent, screen,
                         report, goal, seen, leaveLost, usbVars>>
      BY <1>7, <2>1 DEF HidJiggle, Unbound, HidPcs
    <2> QED
      BY <1>1, <2>2 DEF TypeOK, TrackerWellFormed, Unbound
  <1>8. CASE HidJiggleAside
    <2>1. [orig EXCEPT !.y = target.y] \in Point
      BY <1>1 DEF Point
    <2>2. Aside(orig.x) \in UInt16
      <3>1. orig.x + 1 \in Int /\ orig.x - 1 \in Int
        BY <1>1, WordIsPositive DEF Point, UInt16
      <3> QED
        BY <3>1, WordMod DEF Aside
    <2>3. [x |-> Aside(orig.x), y |-> target.y] \in Point
      BY <1>1, <2>2 DEF Point
    <2>4. /\ Unbound /\ orig' \in Point /\ goal' \in Point
          /\ UNCHANGED <<netVars, sharedVars, cmd, keys, buttons, wheel, lastSent, screen,
                         report, seen, leaveLost, usbVars>>
      BY <1>8, <2>1, <2>3 DEF HidJiggleAside, Unbound, HidPcs
    <2> QED
      BY <1>1, <2>4 DEF TypeOK, TrackerWellFormed, Unbound
  <1> QED
    BY <1>2, <1>3, <1>4, <1>5, <1>6, <1>7, <1>8

(* What one try at a mouse report is followed by. *)
LEMMA TypeHidOnce ==
  ASSUME TypeInv, HidSendMove \/ HidSendEnter \/ HidSendLeave \/ HidSendJiggle
  PROVE  TypeInv'
  <1> USE DEF TypeInv
  <1>1. TypeOK /\ TrackerWellFormed /\ SendAbsMouseOnce
    BY DEF HidSendMove, HidSendEnter, HidSendLeave, HidSendJiggle
  <1>2. /\ endpoint' \in Report \cup {NoReport}
        /\ lastSent' \in [pos : Point, buttons : SUBSET HidButtons]
        /\ wheel' \in WheelSteps
        /\ leaveLost' \in BOOLEAN
    BY <1>1, SendOnceType
  <1>3. CASE HidSendMove \/ HidSendLeave
    <2>1. /\ Unbound /\ cmd' \in Command \cup {NoCmd}
          /\ UNCHANGED <<netVars, sharedVars, keys, buttons, screen, report, aimVars,
                         usbButEndpoint>>
      BY <1>1, <1>3 DEF HidSendMove, HidSendLeave, Unbound, HidPcs, TypeOK
    <2> QED
      BY <1>1, <1>2, <2>1 DEF TypeOK, TrackerWellFormed, Unbound
  <1>4. CASE HidSendJiggle
    <2>1. /\ Unbound /\ cmd' \in Command \cup {NoCmd} /\ goal' \in Point
          /\ UNCHANGED <<netVars, sharedVars, keys, buttons, screen, report, orig, seen,
                         usbButEndpoint>>
      BY <1>1, <1>4 DEF HidSendJiggle, Unbound, HidPcs, TypeOK
    <2> QED
      BY <1>1, <1>2, <2>1 DEF TypeOK, TrackerWellFormed, Unbound
  <1>5. CASE HidSendEnter
    <2>1. UNCHANGED <<netVars, sharedVars, keys, buttons, screen, aimVars, mounted, usbPc,
                      powerVars, notified, host>>
      BY <1>5 DEF HidSendEnter
    <2>2. CASE cmd.mask = {} /\ ~cmd.lock
      <3>1. Unbound /\ cmd' = NoCmd /\ UNCHANGED <<report, pendingSend>>
        BY <1>5, <2>2 DEF HidSendEnter, Unbound, HidPcs
      <3> QED
        BY <1>1, <1>2, <2>1, <3>1 DEF TypeOK, TrackerWellFormed, Unbound
    <2>3. CASE ~(cmd.mask = {} /\ ~cmd.lock)
      <3>1. /\ StartSending([kind |-> "kb", keys |-> {}, mods |-> cmd.mask])
            /\ UNCHANGED cmd
        BY <1>5, <2>3 DEF HidSendEnter
      <3>2. cmd \in Command /\ cmd.type = "ENTER"
        BY <1>1, <1>5 DEF HidSendEnter, Doing, TypeOK
      <3>3. [kind |-> "kb", keys |-> {}, mods |-> cmd.mask] \in Report
        BY <3>2, CommandFields DEF Report, KeyReports
      <3>4. /\ report' \in Report /\ pendingSend' \in BOOLEAN
            /\ hidPc' = "wakeup" /\ hidPc' \in HidPcs
        BY <3>1, <3>3, StartSendingType
      <3> QED
        BY <1>1, <1>2, <2>1, <3>1, <3>2, <3>4 DEF TypeOK, TrackerWellFormed
    <2> QED
      BY <2>2, <2>3
  <1> QED
    BY <1>3, <1>4, <1>5

LEMMA TypeHidStep ==
  ASSUME TypeInv, HidStep
  PROVE  TypeInv'
  <1> USE DEF TypeInv
  <1>1. TypeOK /\ TrackerWellFormed /\ buttons \in SUBSET HidButtons /\ wheel \in WheelSteps
        /\ 0 \in WheelSteps /\ keys \in KeyTracker
    BY DEF TypeOK, WheelSteps
  <1>2. CASE HidClaimMove
    <2>1. /\ movePending' \in BOOLEAN /\ Unbound
          /\ UNCHANGED <<netVars, queue, target, cmd, keys, buttons, wheel, lastSent,
                         screen, report, aimVars, leaveLost, usbVars>>
      BY <1>2 DEF HidClaimMove, Unbound, HidPcs
    <2> QED
      BY <1>1, <2>1 DEF TypeOK, TrackerWellFormed, Unbound
  <1>3. CASE HidReceive
    <2>1. UNCHANGED <<netVars, target, movePending, keys, buttons, wheel, lastSent,
                      screen, report, aimVars, leaveLost, usbVars>>
      BY <1>3 DEF HidReceive
    <2>2. CASE queue # <<>>
      <3>1. hidPc' = "exec" /\ hidPc' \in HidPcs /\ cmd' = Head(queue) /\ queue' = Tail(queue)
        BY <1>3, <2>2 DEF HidReceive, HidPcs
      <3> QED
        BY <1>1, <2>1, <2>2, <3>1, TailType DEF TypeOK, TrackerWellFormed
    <2>3. CASE queue = <<>>
      <3>1. Unbound /\ UNCHANGED <<cmd, queue>>
        BY <1>3, <2>3 DEF HidReceive, Unbound, HidPcs
      <3> QED
        BY <1>1, <2>1, <3>1 DEF TypeOK, TrackerWellFormed, Unbound
    <2> QED
      BY <2>2, <2>3
  <1>4. CASE HidWake
    <2>1. /\ notified' \in BOOLEAN /\ Unbound
          /\ UNCHANGED <<netVars, sharedVars, cmd, keys, buttons, wheel, lastSent, screen,
                         report, aimVars, leaveLost, mounted, endpoint, usbPc, powerVars,
                         pendingSend, host>>
      BY <1>4 DEF HidWake, Unbound, HidPcs
    <2> QED
      BY <1>1, <2>1 DEF TypeOK, TrackerWellFormed, Unbound
  <1>5. CASE HidDrop
    <2>1. /\ Unbound /\ cmd' = NoCmd
          /\ UNCHANGED <<netVars, sharedVars, keys, buttons, wheel, lastSent, screen, report,
                         aimVars, leaveLost, usbVars>>
      BY <1>5 DEF HidDrop, Unbound, HidPcs
    <2> QED
      BY <1>1, <2>1 DEF TypeOK, TrackerWellFormed, Unbound
  <1>6. CASE HidKey
    <2>1. cmd \in Command /\ cmd.key \in Keys /\ cmd.mask \in Masks
      BY <1>1, <1>6, CommandFields DEF HidKey, Executes, TypeOK
    <2>2. WellFormed(keys') /\ keys' \in KeyTracker
      <3>1. WellFormed(Press(keys, cmd.key)) /\ WellFormed(Release(keys, cmd.key))
        BY <1>1, <2>1, PressWellFormed, ReleaseWellFormed DEF TrackerWellFormed
      <3>2. WellFormed(keys')
        BY <1>6, <3>1 DEF HidKey
      <3> QED
        BY <3>2 DEF WellFormed
    <2>3. /\ report' \in Report /\ pendingSend' \in BOOLEAN
          /\ hidPc' = "wakeup" /\ hidPc' \in HidPcs
      <3>1. KbReport(keys', cmd.mask) \in Report
        BY <2>1, <2>2, KbReportType
      <3>2. StartSending(KbReport(keys', cmd.mask))
        BY <1>6 DEF HidKey
      <3> QED
        BY <3>1, <3>2, StartSendingType
    <2>4. UNCHANGED <<netVars, sharedVars, cmd, buttons, wheel, lastSent, screen, aimVars,
                      leaveLost, usbButPending>>
      BY <1>6 DEF HidKey
    <2> QED
      BY <1>1, <2>1, <2>2, <2>3, <2>4 DEF TypeOK, TrackerWellFormed
  <1>7. CASE HidMouse
    <2>1. cmd \in Command
      BY <1>1, <1>7 DEF HidMouse, Executes, TypeOK
    <2>2. buttons' \in SUBSET HidButtons
      <3>1. HidBit(cmd.id) \in SUBSET HidButtons
        BY DEF HidBit, HidButtons
      <3> QED
        BY <1>1, <1>7, <3>1 DEF HidMouse
    <2>3. wheel' \in WheelSteps
      BY <1>1, <1>7, <2>1, CommandFields, DampedType DEF HidMouse
    <2>4. /\ Unbound
          /\ UNCHANGED <<netVars, sharedVars, cmd, keys, lastSent, screen, report, aimVars,
                         leaveLost, usbVars>>
      BY <1>7 DEF HidMouse, Unbound, HidPcs
    <2> QED
      BY <1>1, <2>2, <2>3, <2>4 DEF TypeOK, TrackerWellFormed, Unbound
  <1>8. CASE HidLeave
    <2>1. cmd \in Command
      BY <1>1, <1>8 DEF HidLeave, Executes, TypeOK
    <2>2. keys' = Cleared /\ WellFormed(Cleared) /\ Cleared \in KeyTracker
      BY <1>8, ClearedWellFormed DEF HidLeave, WellFormed
    <2>3. /\ report' \in Report /\ pendingSend' \in BOOLEAN
          /\ hidPc' = "wakeup" /\ hidPc' \in HidPcs
      <3>1. [kind |-> "kb", keys |-> {}, mods |-> {}] \in Report
        BY DEF Report, KeyReports, Masks
      <3>2. StartSending([kind |-> "kb", keys |-> {}, mods |-> {}])
        BY <1>8 DEF HidLeave
      <3> QED
        BY <3>1, <3>2, StartSendingType
    <2>4. UNCHANGED <<netVars, sharedVars, cmd, buttons, wheel, lastSent, screen, aimVars,
                      leaveLost, usbButPending>>
      BY <1>8 DEF HidLeave
    <2> QED
      BY <1>1, <2>1, <2>2, <2>3, <2>4 DEF TypeOK, TrackerWellFormed
  <1>9. CASE HidLeaveMouse
    <2>1. /\ Unbound /\ buttons' = {} /\ wheel' = 0
          /\ UNCHANGED <<netVars, sharedVars, cmd, keys, lastSent, screen, report, aimVars,
                         leaveLost, usbVars>>
      BY <1>9 DEF HidLeaveMouse, Unbound, HidPcs
    <2> QED
      BY <1>1, <2>1 DEF TypeOK, TrackerWellFormed, Unbound
  <1>10. CASE HidSession
    <2>1. screen' \in Size
      <3>1. CASE cmd.type = "SET_SCREEN_SIZE"
        <4>1. cmd \in Command /\ cmd.w \in UInt16 /\ cmd.h \in UInt16
          BY <1>1, <1>10, <3>1, CommandFields DEF HidSession, Executes, TypeOK
        <4> QED
          BY <1>10, <3>1, <4>1 DEF HidSession, Size
      <3>2. CASE cmd.type # "SET_SCREEN_SIZE"
        BY <1>1, <1>10, <3>2 DEF HidSession, TypeOK
      <3> QED
        BY <3>1, <3>2
    <2>2. /\ WellFormed(keys') /\ keys' \in KeyTracker
          /\ buttons' \in SUBSET HidButtons /\ wheel' \in WheelSteps
      <3>1. CASE cmd.type = "DISCONNECTED"
        <4>1. keys' = Cleared /\ buttons' = {} /\ wheel' = 0
          BY <1>10, <3>1 DEF HidSession
        <4> QED
          BY <4>1, ClearedWellFormed DEF WellFormed, WheelSteps
      <3>2. CASE cmd.type # "DISCONNECTED"
        BY <1>1, <1>10, <3>2 DEF HidSession, TrackerWellFormed, TypeOK
      <3> QED
        BY <3>1, <3>2
    <2>3. /\ hidPc' \in HidPcs /\ hidPc' \notin {"exec", "wakeup", "send", "wait"}
          /\ cmd' = NoCmd
          /\ UNCHANGED <<netVars, sharedVars, lastSent, report, aimVars, leaveLost, usbVars>>
      BY <1>10 DEF HidSession, HidPcs
    <2> QED
      BY <1>1, <2>1, <2>2, <2>3 DEF TypeOK, TrackerWellFormed
  <1>11. CASE HidWakeHost
    <2>1. waking' \in BOOLEAN
      BY <1>1, <1>11 DEF HidWakeHost, TryRemoteWakeup, RemoteWakeup, TypeOK
    <2>2. /\ hidPc = "wakeup" /\ hidPc' = "send" /\ hidPc' \in HidPcs
          /\ UNCHANGED <<netVars, sharedVars, cmd, keys, buttons, wheel, lastSent, screen,
                         report, aimVars, leaveLost, mounted, endpoint, usbPc, suspended, hostEn,
                         gSuspended, wakeupEn, pendingSend, notified, host>>
      BY <1>11 DEF HidWakeHost, HidPcs
    <2> QED
      BY <1>1, <2>1, <2>2 DEF TypeOK, TrackerWellFormed
  <1>12. CASE HidSendAccepted
    <2>1. report \in Report
      BY <1>1, <1>12 DEF HidSendAccepted, TypeOK
    <2>2. /\ lastSent' \in [pos : Point, buttons : SUBSET HidButtons]
          /\ wheel' \in WheelSteps /\ leaveLost' \in BOOLEAN
      <3>1. CASE report.kind = "mouse"
        <4>1. report.pos \in Point
          BY <2>1, <3>1 DEF Report, KeyReports, MouseReports
        <4>2. /\ lastSent' = [pos |-> report.pos, buttons |-> buttons]
              /\ wheel' = 0 /\ leaveLost' = FALSE
          BY <1>12, <3>1 DEF HidSendAccepted
        <4> QED
          BY <1>1, <4>1, <4>2 DEF WheelSteps, TypeOK
      <3>2. CASE report.kind # "mouse"
        BY <1>1, <1>12, <3>2 DEF HidSendAccepted, TypeOK
      <3> QED
        BY <3>1, <3>2
    <2>3. /\ report' = NoReport /\ pendingSend' \in BOOLEAN
          /\ hidPc' \in HidPcs /\ hidPc' \notin {"exec", "wakeup", "send", "wait"}
          /\ cmd' \in Command \cup {NoCmd}
      BY <1>1, <1>12, AfterSendType DEF HidSendAccepted
    <2>4. /\ endpoint' = report
          /\ UNCHANGED <<netVars, sharedVars, keys, buttons, screen, aimVars, mounted,
                         usbPc, powerVars, notified, host>>
      BY <1>12 DEF HidSendAccepted
    <2> QED
      BY <1>1, <2>1, <2>2, <2>3, <2>4 DEF TypeOK, TrackerWellFormed
  <1>13. CASE HidSendRefused
    <2>1. UNCHANGED <<netVars, sharedVars, keys, buttons, wheel, lastSent, screen, aimVars,
                      leaveLost, usbButPending>>
      BY <1>13 DEF HidSendRefused
    <2>2. CASE Important
      <3>1. /\ hidPc = "send" /\ hidPc' = "wait" /\ hidPc' \in HidPcs
            /\ UNCHANGED <<cmd, report, pendingSend>>
        BY <1>13, <2>2 DEF HidSendRefused, HidPcs
      <3> QED
        BY <1>1, <2>1, <3>1 DEF TypeOK, TrackerWellFormed
    <2>3. CASE ~Important
      <3>1. /\ report' = NoReport /\ pendingSend' \in BOOLEAN
            /\ hidPc' \in HidPcs /\ hidPc' \notin {"exec", "wakeup", "send", "wait"}
            /\ cmd' \in Command \cup {NoCmd}
        BY <1>1, <1>13, <2>3, AfterSendType DEF HidSendRefused
      <3> QED
        BY <1>1, <2>1, <3>1 DEF TypeOK, TrackerWellFormed
    <2> QED
      BY <2>2, <2>3
  <1>14. CASE HidRetry
    <2>1. /\ hidPc = "wait" /\ hidPc' = "send" /\ hidPc' \in HidPcs /\ notified' \in BOOLEAN
          /\ UNCHANGED <<netVars, sharedVars, cmd, keys, buttons, wheel, lastSent, screen,
                         report, aimVars, leaveLost, mounted, endpoint, usbPc, powerVars,
                         pendingSend, host>>
      BY <1>14 DEF HidRetry, HidPcs
    <2> QED
      BY <1>1, <2>1 DEF TypeOK, TrackerWellFormed
  <1> QED
    BY <1>2, <1>3, <1>4, <1>5, <1>6, <1>7, <1>8, <1>9, <1>10, <1>11, <1>12, <1>13, <1>14,
       TypeHidAim, TypeHidOnce DEF HidStep

LEMMA TypeUsbStep ==
  ASSUME TypeInv, UsbTaskStep
  PROVE  TypeInv'
  <1> USE DEF TypeInv
  <1>1. TypeOK /\ TrackerWellFormed /\ UNCHANGED <<netVars, sharedVars, hidVars>>
    BY UsbFrame
  <1>2. /\ mounted' \in BOOLEAN /\ usbPc' \in UsbPcs
        /\ suspended' \in BOOLEAN /\ hostEn' \in BOOLEAN /\ gSuspended' \in BOOLEAN
        /\ wakeupEn' \in BOOLEAN /\ waking' \in BOOLEAN
        /\ pendingSend' \in BOOLEAN /\ notified' \in BOOLEAN
    <2>1. /\ mounted \in BOOLEAN /\ usbPc \in UsbPcs
          /\ suspended \in BOOLEAN /\ hostEn \in BOOLEAN /\ gSuspended \in BOOLEAN
          /\ wakeupEn \in BOOLEAN /\ waking \in BOOLEAN
          /\ pendingSend \in BOOLEAN /\ notified \in BOOLEAN
      BY <1>1 DEF TypeOK
    <2>2. CASE Plug \/ Unplug \/ Complete \/ CompleteCb
      BY <2>1, <2>2 DEF Plug, Unplug, Complete, CompleteCb, UsbPcs
    <2>3. CASE \E en \in WakeupModes : Suspend(en)
      BY <2>1, <2>3, UsbAssumption DEF Suspend, UsbPcs
    <2>4. CASE SuspendCb \/ SuspendCheck \/ Resume \/ ResumeCb
      BY <2>1, <2>4 DEF SuspendCb, SuspendCheck, Resume, ResumeCb, RemoteWakeup, UsbPcs
    <2> QED
      BY <2>2, <2>3, <2>4 DEF UsbTaskStep, UsbStep
  <1>3. /\ endpoint' \in Report \cup {NoReport}
        /\ host' \in [keys : SUBSET Keys, mods : Masks, buttons : SUBSET HidButtons,
                      wheel : Int, pos : Point \cup {NoPos}]
    <2>1. CASE Complete
      BY <1>1, <2>1, HostTakesType DEF Complete
    <2>2. CASE Unplug
      BY <1>1, <2>2 DEF Unplug, TypeOK, Masks
    <2>3. CASE ~Complete /\ ~Unplug
      <3>1. UNCHANGED <<endpoint, host>>
        BY <2>3 DEF UsbTaskStep, UsbStep, Plug, CompleteCb, Suspend, SuspendCb,
                    SuspendCheck, Resume, ResumeCb
      <3> QED
        BY <1>1, <3>1 DEF TypeOK
    <2> QED
      BY <2>1, <2>2, <2>3
  <1> QED
    BY <1>1, <1>2, <1>3 DEF TypeOK, TrackerWellFormed

(* Every variable keeps its type, and the key tracker stays consistent,    *)
(* whatever commands the server sends and whatever the bus does.           *)
THEOREM TypesAreKept == Spec => []TypeInv
  <1>1. Init => TypeInv
    BY TypeInit
  <1>2. TypeInv /\ [Next]_vars => TypeInv'
    <2> SUFFICES ASSUME TypeInv, [Next]_vars PROVE TypeInv'
      OBVIOUS
    <2>1. CASE UNCHANGED vars
      BY <2>1 DEF TypeInv, TypeOK, TrackerWellFormed
    <2> QED
      BY <2>1, TypeNetStep, TypeHidStep, TypeUsbStep DEF Next
  <1> QED
    BY <1>1, <1>2, PTL DEF Spec

(* Types: see TypeOK. *)
THEOREM TypesAreRespected == Spec => []TypeOK
  BY TypesAreKept, PTL DEF TypeInv

(* The count and the slots of the tracker always agree, so what the host   *)
(* is shown is what the tracker will release again.                        *)
THEOREM TrackerStaysWellFormed == Spec => []TrackerWellFormed
  BY TypesAreKept, PTL DEF TypeInv

-----------------------------------------------------------------------------
(* What the HID task is busy with at each place of its program.            *)
MouseTypes == {"MOUSE_DOWN", "MOUSE_UP", "MOUSE_WHEEL"}

DoingInv ==
    /\ hidPc \in {"top", "move", "recv", "asleep"} => Doing = "MOVE"
    /\ hidPc = "leave" => Doing = "LEAVE"
    /\ hidPc = "jiggle" => Doing = "JIGGLE"
    /\ hidPc \in {"store_x", "store_y"} => Doing \in {"ENTER", "JIGGLE"}
    /\ hidPc \in {"load_x", "load_y"} =>
         Doing \in MouseTypes \cup {"MOVE", "ENTER", "LEAVE", "JIGGLE"}
    /\ hidPc = "once" => Doing \in {"MOVE", "ENTER", "LEAVE", "JIGGLE"}
    /\ hidPc \in {"wakeup", "send", "wait"} =>
         \/ report.kind = "mouse" /\ Doing \in MouseTypes
         \/ report.kind = "kb" /\ Doing \in {"KEY_DOWN", "KEY_UP", "ENTER", "LEAVE"}

(* A command that is executed is what the task is busy with. *)
LEMMA DoingCommand ==
  ASSUME TypeOK, hidPc \in {"exec", "wakeup", "send", "wait"}
  PROVE  cmd \in Command /\ cmd # NoCmd /\ Doing = cmd.type
  BY ActuatorAssumption DEF TypeOK, Doing

LEMMA DoingHid ==
  ASSUME TypeOK, DoingInv, HidStep
  PROVE  DoingInv'
  <1> USE DEF DoingInv, MouseTypes
  <1>1. CASE HidClaimMove \/ HidMove \/ HidReceive \/ HidWake \/ HidDrop \/ HidSession
    BY <1>1 DEF HidClaimMove, HidMove, HidReceive, HidWake, HidDrop, HidSession, Doing
  <1>2. CASE HidKey \/ HidLeave
    <2>1. Doing' = Doing /\ hidPc' = "wakeup" /\ report'.kind = "kb"
      BY <1>2 DEF HidKey, HidLeave, StartSending, KbReport, Doing
    <2>2. Doing \in {"KEY_DOWN", "KEY_UP", "LEAVE"}
      BY <1>2, DoingCommand DEF HidKey, HidLeave, Executes
    <2> QED
      BY <2>1, <2>2
  <1>3. CASE HidMouse \/ HidEnter \/ HidJiggle
    <2>1. /\ Doing' = Doing /\ hidPc = "exec"
          /\ \/ hidPc' = "load_x" /\ cmd.type \in MouseTypes
             \/ hidPc' = "store_x" /\ cmd.type = "ENTER"
             \/ hidPc' = "jiggle" /\ cmd.type = "JIGGLE"
      BY <1>3 DEF HidMouse, HidEnter, HidJiggle, Executes, Doing
    <2> QED
      BY <2>1, DoingCommand
  <1>4. CASE HidLeaveMouse \/ HidJiggleAside \/ HidStoreX \/ HidStoreY \/ HidLoadX
    <2>1. /\ Doing' = Doing
          /\ \/ hidPc = "leave" /\ hidPc' = "load_x"
             \/ hidPc = "jiggle" /\ hidPc' = "store_x"
             \/ hidPc = "store_x" /\ hidPc' = "store_y"
             \/ hidPc = "store_y" /\ hidPc' = "load_x"
             \/ hidPc = "load_x" /\ hidPc' = "load_y"
      BY <1>4 DEF HidLeaveMouse, HidJiggleAside, HidStoreX, HidStoreY, HidLoadX, Doing
    <2> QED
      BY <2>1
  <1>5. CASE HidLoadY
    <2>1. /\ Doing' = Doing /\ hidPc = "load_y"
          /\ \/ hidPc' = "wakeup" /\ report'.kind = "mouse" /\ Doing \in MouseTypes
             \/ hidPc' = "once" /\ Doing \notin MouseTypes
      BY <1>5 DEF HidLoadY, StartSending, MouseReport, Doing
    <2> QED
      BY <2>1
  <1>6. CASE HidSendMove \/ HidSendLeave \/ HidSendJiggle
    BY <1>6 DEF HidSendMove, HidSendLeave, HidSendJiggle, Doing
  <1>7. CASE HidSendEnter
    <2>1. \/ hidPc' = "top" /\ cmd' = NoCmd
          \/ hidPc' = "wakeup" /\ report'.kind = "kb" /\ Doing = "ENTER" /\ Doing' = Doing
      BY <1>7 DEF HidSendEnter, StartSending, Doing
    <2> QED
      BY <2>1 DEF Doing
  <1>8. CASE HidWakeHost \/ HidRetry
    BY <1>8 DEF HidWakeHost, HidRetry, Doing
  <1>9. CASE HidSendAccepted \/ HidSendRefused
    <2>1. /\ hidPc = "send"
          /\ AfterSend \/ (hidPc' = "wait" /\ UNCHANGED <<cmd, report>>)
      BY <1>9 DEF HidSendAccepted, HidSendRefused
    <2>2. CASE AfterSend
      <3>1. Doing = cmd.type
        BY <2>1, DoingCommand
      <3>2. \/ hidPc' = "leave" /\ cmd.type = "LEAVE" /\ cmd' = cmd
            \/ hidPc' = "top" /\ cmd' = NoCmd
        BY <2>2 DEF AfterSend
      <3> QED
        BY <3>1, <3>2 DEF Doing
    <2>3. CASE hidPc' = "wait" /\ UNCHANGED <<cmd, report>>
      BY <2>1, <2>3 DEF Doing
    <2> QED
      BY <2>1, <2>2, <2>3
  <1> QED
    BY <1>1, <1>2, <1>3, <1>4, <1>5, <1>6, <1>7, <1>8, <1>9 DEF HidStep

(* A command is carried out in the order of the code: what comes next is   *)
(* decided by the command in hand, and the command stays in hand till then.*)
THEOREM DoingIsKept == Spec => []DoingInv
  <1>1. Init => DoingInv
    BY DEF Init, DoingInv, Doing
  <1>2. TypeOK /\ DoingInv /\ [Next]_vars => DoingInv'
    <2> SUFFICES ASSUME TypeOK, DoingInv, [Next]_vars PROVE DoingInv'
      OBVIOUS
    <2>1. CASE HidStep
      BY <2>1, DoingHid
    <2>2. CASE NetStep \/ UsbTaskStep \/ UNCHANGED vars
      <3>1. UNCHANGED <<hidPc, cmd, report>>
        BY <2>2, NetFrame, UsbFrame
      <3> QED
        BY <3>1 DEF DoingInv, Doing
    <2> QED
      BY <2>1, <2>2 DEF Next
  <1> QED
    BY <1>1, <1>2, TypesAreRespected, PTL DEF Spec

-----------------------------------------------------------------------------
(* No lost wake-up.  The invariant of the property is not inductive: the   *)
(* HID task looks at the flag before it looks at the queue, so on its way  *)
(* from the one to sleep, through the movement it may send, it must        *)
(* already be owed a notification for a flag that went up behind its back. *)
PastTheFlag ==
    \/ hidPc \in {"move", "recv", "asleep"}
    \/ hidPc \in {"load_x", "load_y", "once"} /\ Doing = "MOVE"

WakeInv ==
    /\ hidPc = "asleep" /\ queue # <<>> => NotifiedSoon
    /\ PastTheFlag /\ movePending => NotifiedSoon

(* The HID task never sleeps on a command or a movement it is not about to *)
(* be notified of (_q and _notify_movement against the head of hid_task).  *)
THEOREM NoWakeupIsLost == Spec => []NoLostWakeup
  <1>1. Init => WakeInv
    BY DEF Init, WakeInv, PastTheFlag
  <1>2. TypeOK /\ DoingInv /\ WakeInv /\ [Next]_vars => WakeInv'
    <2> SUFFICES ASSUME TypeOK, DoingInv, WakeInv, [Next]_vars PROVE WakeInv'
      OBVIOUS
    <2>1. CASE NetStep
      <3>1. UNCHANGED <<hidPc, PastTheFlag>>
        BY <2>1, NetFrame DEF PastTheFlag, Doing
      <3>2. ASSUME NEW c \in Commands, NetQueue(c) \/ NetDropRepeat(c)
            PROVE  WakeInv'
        BY <3>1, <3>2 DEF WakeInv, NotifiedSoon, NetQueue, NetDropRepeat, Enqueue
      <3>3. ASSUME NEW m \in Moves, NetMoveX(m) PROVE WakeInv'
        BY <3>1, <3>3 DEF WakeInv, NotifiedSoon, NetMoveX
      <3>4. CASE NetGive \/ NetUnblock \/ NetTimeout \/ NetDisconnect
        BY <3>1, <3>4 DEF WakeInv, NotifiedSoon, NetGive, NetUnblock, NetTimeout, NetDisconnect
      <3>5. CASE NetDump \/ NetFlush
        BY <3>1, <3>5 DEF WakeInv, NotifiedSoon, NetDump, NetFlush, Enqueue
      <3>6. CASE NetMoveY \/ NetMoveCas
        BY <3>1, <3>6 DEF WakeInv, NotifiedSoon, NetMoveY, NetMoveCas
      <3> QED
        BY <2>1, <3>2, <3>3, <3>4, <3>5, <3>6 DEF NetStep
    <2>2. CASE HidStep
      <3>1. UNCHANGED netPc
        BY <2>2, HidFrame
      <3>2. CASE HidClaimMove \/ HidReceive
        BY <3>2 DEF WakeInv, NotifiedSoon, PastTheFlag, HidClaimMove, HidReceive
      <3>3. CASE HidMove \/ HidLoadX \/ HidLoadY \/ HidSendMove
        <4>1. UNCHANGED <<notified, movePending>> /\ hidPc' # "asleep"
          BY <3>3 DEF HidMove, HidLoadX, HidLoadY, HidSendMove, StartSending
        <4>2. PastTheFlag' => PastTheFlag
          BY <3>3 DEF PastTheFlag, HidMove, HidLoadX, HidLoadY, HidSendMove, Doing, StartSending
        <4> QED
          BY <3>1, <4>1, <4>2 DEF WakeInv, NotifiedSoon
      <3>4. CASE HidMouse \/ HidStoreY \/ HidLeaveMouse
        <4>1. Doing' = Doing /\ hidPc' = "load_x"
          BY <3>4 DEF HidMouse, HidStoreY, HidLeaveMouse, Doing
        <4>2. Doing # "MOVE"
          <5>1. CASE HidMouse
            BY <5>1, DoingCommand DEF HidMouse, Executes
          <5>2. CASE HidStoreY \/ HidLeaveMouse
            BY <5>2 DEF HidStoreY, HidLeaveMouse, DoingInv
          <5> QED
            BY <3>4, <5>1, <5>2
        <4> QED
          BY <4>1, <4>2 DEF WakeInv, PastTheFlag
      <3>5. CASE HidWake \/ HidDrop \/ HidKey \/ HidEnter \/ HidLeave \/ HidJiggle
                 \/ HidJiggleAside \/ HidSession \/ HidStoreX
        BY <3>5 DEF WakeInv, PastTheFlag, HidWake, HidDrop, HidKey, HidEnter, HidLeave,
                    HidJiggle, HidJiggleAside, HidSession, HidStoreX, StartSending
      <3>6. CASE HidSendEnter \/ HidSendLeave \/ HidSendJiggle
        BY <3>6 DEF WakeInv, PastTheFlag, HidSendEnter, HidSendLeave, HidSendJiggle,
                    StartSending
      <3>7. CASE HidWakeHost \/ HidSendAccepted \/ HidSendRefused \/ HidRetry
        BY <3>7 DEF WakeInv, PastTheFlag, HidWakeHost, HidSendAccepted, HidSendRefused,
                    HidRetry, AfterSend
      <3> QED
        BY <2>2, <3>2, <3>3, <3>4, <3>5, <3>6, <3>7 DEF HidStep
    <2>3. CASE UsbTaskStep
      <3>1. notified => notified'
        BY <2>3 DEF UsbTaskStep, UsbStep, Plug, Unplug, Complete, CompleteCb, Suspend,
                    SuspendCb, SuspendCheck, Resume, ResumeCb
      <3> QED
        BY <2>3, <3>1, UsbFrame DEF WakeInv, PastTheFlag, Doing, NotifiedSoon
    <2>4. CASE UNCHANGED vars
      BY <2>4 DEF WakeInv, PastTheFlag, Doing, NotifiedSoon
    <2> QED
      BY <2>1, <2>2, <2>3, <2>4 DEF Next
  <1>3. WakeInv => NoLostWakeup
    BY DEF WakeInv, PastTheFlag, NoLostWakeup
  <1> QED
    BY <1>1, <1>2, <1>3, TypesAreRespected, DoingIsKept, PTL DEF Spec

-----------------------------------------------------------------------------
(* No movement is lost between the two tasks.  Between its two loads the   *)
(* HID task has the x of the target, or the flag is up or about to be.     *)
Writing == netPc \in {"move_y", "move_cas"}

MoveInv ==
    /\ MoveNotLost
    /\ hidPc = "load_y" => seen.x = target.x \/ movePending \/ Writing

(* Raising the flag after writing the position and lowering it before      *)
(* loading the position is enough, whatever else the two tasks do in       *)
(* between, although each writes and loads x and y one after the other     *)
(* (_notify_movement, hid_task, send_abs_mouse_once).                      *)
THEOREM MovesAreNotLost == Spec => []MoveNotLost
  <1> USE DEF MoveInv, MoveNotLost, Writing
  <1>1. Init => MoveInv
    BY DEF Init
  <1>2. TypeOK /\ MoveInv /\ [Next]_vars => MoveInv'
    <2> SUFFICES ASSUME TypeOK, MoveInv, [Next]_vars PROVE MoveInv'
      OBVIOUS
    <2>0. seen \in Point /\ target \in Point
      BY DEF TypeOK
    <2>1. CASE NetStep
      <3>1. UNCHANGED <<hidPc, seen>>
        BY <2>1, NetFrame
      <3>2. ASSUME NEW c \in Commands, NetQueue(c) \/ NetDropRepeat(c)
            PROVE  MoveInv'
        BY <3>1, <3>2 DEF NetQueue, NetDropRepeat, Enqueue
      <3>3. ASSUME NEW m \in Moves, NetMoveX(m) PROVE MoveInv'
        BY <3>1, <3>3 DEF NetMoveX
      <3>4. CASE NetGive \/ NetUnblock \/ NetTimeout \/ NetDump \/ NetDisconnect \/ NetFlush
        <4>1. UNCHANGED <<target, movePending>> /\ ~Writing
          BY <3>4 DEF NetGive, NetUnblock, NetTimeout, NetDump, NetDisconnect, NetFlush
        <4> QED
          BY <3>1, <4>1
      <3>5. CASE NetMoveY
        BY <3>1, <3>5 DEF NetMoveY
      <3>6. CASE NetMoveCas
        BY <3>1, <3>6 DEF NetMoveCas
      <3> QED
        BY <2>1, <3>2, <3>3, <3>4, <3>5, <3>6 DEF NetStep
    <2>2. CASE HidStep
      <3>1. netPc' = netPc
        BY <2>2, HidFrame
      <3>2. CASE HidClaimMove
        BY <3>1, <3>2 DEF HidClaimMove
      <3>3. CASE HidMove
        BY <3>1, <3>3 DEF HidMove
      <3>4. CASE HidLoadX
        <4>1. seen'.x = target'.x /\ hidPc' = "load_y"
          BY <2>0, <3>4 DEF HidLoadX, Point
        <4> QED
          BY <4>1
      <3>5. CASE HidLoadY
        <4>1. /\ seen' = [seen EXCEPT !.y = target.y] /\ UNCHANGED <<target, movePending>>
              /\ hidPc = "load_y" /\ hidPc' # "load_y"
          BY <3>5 DEF HidLoadY, StartSending
        <4>2. seen.x = target.x => seen' = target
          BY <2>0, <4>1 DEF Point
        <4> QED
          BY <3>1, <4>1, <4>2
      <3>6. CASE HidStoreX \/ HidStoreY
        BY <3>6 DEF HidStoreX, HidStoreY
      <3>7. CASE HidReceive \/ HidWake \/ HidDrop \/ HidKey \/ HidMouse \/ HidEnter \/ HidLeave
                 \/ HidLeaveMouse \/ HidJiggle \/ HidJiggleAside \/ HidSession
        <4>1. /\ UNCHANGED <<seen, target, movePending>>
              /\ hidPc \notin {"move", "store_y", "load_x", "load_y"} /\ hidPc' # "load_y"
          BY <3>7 DEF HidReceive, HidWake, HidDrop, HidKey, HidMouse, HidEnter, HidLeave,
                      HidLeaveMouse, HidJiggle, HidJiggleAside, HidSession, Executes, StartSending
        <4> QED
          BY <3>1, <4>1
      <3>8. CASE HidSendMove \/ HidSendEnter \/ HidSendLeave \/ HidSendJiggle \/ HidWakeHost
                 \/ HidSendAccepted \/ HidSendRefused \/ HidRetry
        <4>1. /\ UNCHANGED <<seen, target, movePending>>
              /\ hidPc \notin {"move", "store_y", "load_x", "load_y"} /\ hidPc' # "load_y"
          BY <3>8 DEF HidSendMove, HidSendEnter, HidSendLeave, HidSendJiggle, HidWakeHost,
                      HidSendAccepted, HidSendRefused, HidRetry, AfterSend, StartSending
        <4> QED
          BY <3>1, <4>1
      <3> QED
        BY <2>2, <3>2, <3>3, <3>4, <3>5, <3>6, <3>7, <3>8 DEF HidStep
    <2>3. CASE UsbTaskStep
      BY <2>3, UsbFrame
    <2>4. CASE UNCHANGED vars
      BY <2>4
    <2> QED
      BY <2>1, <2>2, <2>3, <2>4 DEF Next
  <1>3. MoveInv => MoveNotLost
    OBVIOUS
  <1> QED
    BY <1>1, <1>2, <1>3, TypesAreRespected, PTL DEF Spec

-----------------------------------------------------------------------------
(* Waiting for the endpoint.  The property is inductive once it says that  *)
(* a device whose cable stays in is mounted.                               *)
BlockedInv == BlockedSendWoken /\ ("unplug" \notin Faults => mounted)

(* A report that waits for the endpoint is owed a notification as soon as  *)
(* the endpoint is free: the completion callback cannot run between the    *)
(* refusal and the wait unseen, because notifications are remembered.      *)
THEOREM BlockedSendsAreWoken == Spec => []BlockedSendWoken
  <1>1. Init => BlockedInv
    BY DEF Init, UsbInit, BlockedInv, BlockedSendWoken
  <1>2. BlockedInv /\ [Next]_vars => BlockedInv'
    <2> SUFFICES ASSUME BlockedInv, [Next]_vars, "unplug" \notin Faults
                 PROVE  BlockedInv'
      BY DEF BlockedInv, BlockedSendWoken
    <2> USE DEF BlockedInv, BlockedSendWoken, Accepts
    <2>1. CASE NetStep
      <3>1. UNCHANGED <<hidVars, mounted, endpoint, usbPc>> /\ (notified => notified')
        BY <2>1, NetFrame
      <3> QED
        BY <3>1
    <2>2. CASE HidStep
      <3>1. mounted' = mounted
        BY <2>2, HidFrame
      <3>2. CASE HidSendRefused
        BY <3>1, <3>2 DEF HidSendRefused, AfterSend
      <3>3. CASE ~HidSendRefused
        <4>1. hidPc' # "wait"
          BY <2>2, <3>3 DEF HidStep, HidClaimMove, HidMove, HidReceive, HidWake, HidDrop,
                    HidKey, HidMouse, HidEnter, HidLeave, HidLeaveMouse, HidJiggle,
                    HidJiggleAside, HidSession, HidStoreX, HidStoreY, HidLoadX, HidLoadY,
                    HidSendMove, HidSendEnter, HidSendLeave, HidSendJiggle, HidWakeHost,
                    HidSendAccepted, HidRetry, AfterSend, StartSending
        <4> QED
          BY <3>1, <4>1
      <3> QED
        BY <3>2, <3>3
    <2>3. CASE UsbTaskStep
      BY <2>3, UsbFrame DEF UsbTaskStep, UsbStep, Plug, Unplug, Complete, CompleteCb, Suspend,
                    SuspendCb, SuspendCheck, Resume, ResumeCb
    <2>4. CASE UNCHANGED vars
      BY <2>4
    <2> QED
      BY <2>1, <2>2, <2>3, <2>4 DEF Next
  <1>3. BlockedInv => BlockedSendWoken
    BY DEF BlockedInv
  <1> QED
    BY <1>1, <1>2, <1>3, PTL DEF Spec

-----------------------------------------------------------------------------
(* Waking the host.  Each side writes its flag before it reads the other's *)
(* (g_pending_send here, g_suspended there), so at least one of them sees  *)
(* both up; the invariant says where each side stands when it does.        *)
WakeHostInv ==
    /\ NoMissedWakeup
    /\ hidPc \in {"wakeup", "send", "wait"} => pendingSend
    /\ suspended /\ usbPc # "suspend_cb" => gSuspended /\ wakeupEn = hostEn
    /\ usbPc \in {"complete", "resume_cb"} => ~suspended

(* A host that allows remote wake-up is woken for every report that is     *)
(* insisted on (tusb_try_remote_wakeup against tud_suspend_cb).            *)
THEOREM NoWakeupIsMissed == Spec => []NoMissedWakeup
  <1> USE DEF WakeHostInv, NoMissedWakeup
  <1>1. Init => WakeHostInv
    BY DEF Init, UsbInit
  <1>2. TypeOK /\ WakeHostInv /\ [Next]_vars => WakeHostInv'
    <2> SUFFICES ASSUME TypeOK, WakeHostInv, [Next]_vars PROVE WakeHostInv'
      OBVIOUS
    <2> /\ waking \in BOOLEAN /\ suspended \in BOOLEAN /\ hostEn \in BOOLEAN
        /\ gSuspended \in BOOLEAN /\ wakeupEn \in BOOLEAN /\ pendingSend \in BOOLEAN
      BY DEF TypeOK
    <2>1. CASE NetStep
      <3>1. UNCHANGED <<hidVars, powerVars, usbPc, pendingSend>>
        BY <2>1, NetFrame
      <3> QED
        BY <3>1
    <2>2. CASE HidStep
      <3>1. CASE HidWakeHost
        BY <3>1 DEF HidWakeHost, TryRemoteWakeup, RemoteWakeup
      <3>2. CASE HidSendAccepted
        BY <3>2 DEF HidSendAccepted, AfterSend
      <3>3. CASE HidSendRefused
        BY <3>3 DEF HidSendRefused, AfterSend
      <3>4. CASE HidRetry
        BY <3>4 DEF HidRetry
      <3>5. CASE HidKey \/ HidLeave \/ HidLoadY \/ HidSendEnter
        <4>1. /\ UNCHANGED <<powerVars, usbPc>> /\ hidPc' \notin {"send", "wait"}
              /\ hidPc' = "wakeup" => pendingSend'
          BY <3>5 DEF HidKey, HidLeave, HidLoadY, HidSendEnter, StartSending
        <4> QED
          BY <4>1
      <3>6. CASE ~(HidWakeHost \/ HidSendAccepted \/ HidSendRefused \/ HidRetry
                   \/ HidKey \/ HidLeave \/ HidLoadY \/ HidSendEnter)
        <4>1. UNCHANGED <<powerVars, usbPc>> /\ hidPc' \notin {"wakeup", "send", "wait"}
          BY <2>2, <3>6 DEF HidStep, HidClaimMove, HidMove, HidReceive, HidWake, HidDrop, HidMouse,
                    HidEnter, HidLeaveMouse, HidJiggle, HidJiggleAside, HidSession, HidStoreX,
                    HidStoreY, HidLoadX, HidSendMove, HidSendLeave, HidSendJiggle
        <4> QED
          BY <4>1
      <3> QED
        BY <2>2, <3>1, <3>2, <3>3, <3>4, <3>5, <3>6 DEF HidStep
    <2>3. CASE UsbTaskStep
      <3>1. hidPc' = hidPc
        BY <2>3, UsbFrame
      <3>2. CASE Plug \/ Unplug \/ Complete \/ CompleteCb \/ Resume \/ ResumeCb
        BY <3>1, <3>2 DEF Plug, Unplug, Complete, CompleteCb, Resume, ResumeCb
      <3>3. CASE \E en \in WakeupModes : Suspend(en)
        BY <3>1, <3>3 DEF Suspend
      <3>4. CASE SuspendCb
        BY <3>1, <3>4 DEF SuspendCb
      <3>5. CASE SuspendCheck
        BY <3>1, <3>5 DEF SuspendCheck, RemoteWakeup
      <3> QED
        BY <2>3, <3>2, <3>3, <3>4, <3>5 DEF UsbTaskStep, UsbStep
    <2>4. CASE UNCHANGED vars
      BY <2>4
    <2> QED
      BY <2>1, <2>2, <2>3, <2>4 DEF Next
  <1> QED
    BY <1>1, <1>2, TypesAreRespected, PTL DEF Spec

-----------------------------------------------------------------------------
(* What was sent last.  The property needs to know in addition that the    *)
(* buttons do not change while a report about them is being insisted on.   *)
SentInv ==
    /\ LastSentFaithful
    /\ hidPc \in {"wakeup", "send", "wait"} /\ report.kind = "mouse" => report.buttons = buttons

(* What the host has once it took r, and what it had of the other half.    *)
LEMMA HostTakesReport ==
  ASSUME TypeOK, NEW r \in Report
  PROVE  /\ r.kind = "mouse" => /\ HostTakes(host, r).buttons = r.buttons
                                /\ HostTakes(host, r).pos = r.pos
         /\ r.kind # "mouse" => /\ HostTakes(host, r).buttons = host.buttons
                                /\ HostTakes(host, r).pos = host.pos
  <1>1. host \in [keys : SUBSET Keys, mods : Masks, buttons : SUBSET HidButtons,
                  wheel : Int, pos : Point \cup {NoPos}]
    BY DEF TypeOK
  <1>2. r.kind \in {"kb", "mouse"}
    BY DEF Report, KeyReports, MouseReports
  <1> QED
    BY <1>1, <1>2 DEF HostTakes

(* One try at a mouse report: either the endpoint takes it and last_sent_* *)
(* says so, or neither changes.                                            *)
LEMMA SendOnceFaithful ==
  ASSUME TypeOK, LastSentFaithful, host' = host, SendAbsMouseOnce
  PROVE  LastSentFaithful'
  <1>1. CASE UNCHANGED <<endpoint, lastSent>>
    BY <1>1 DEF LastSentFaithful
  <1>2. CASE ~UNCHANGED <<endpoint, lastSent>>
    <2> DEFINE r == MouseReport(seen)
    <2>1. endpoint' = r /\ lastSent' = [pos |-> HidPoint(seen), buttons |-> buttons]
      BY <1>2 DEF SendAbsMouseOnce
    <2>2. /\ r \in Report /\ r # NoReport /\ r.kind = "mouse"
          /\ r.pos = HidPoint(seen) /\ r.buttons = buttons
      <3>1. r \in Report
        BY MouseReportType DEF TypeOK
      <3> QED
        BY <3>1, ActuatorAssumption DEF MouseReport
    <2>3. HostTakes(host, r).buttons = buttons /\ HostTakes(host, r).pos = HidPoint(seen)
      BY <2>2, HostTakesReport
    <2> HIDE DEF r
    <2> QED
      BY <2>1, <2>2, <2>3 DEF LastSentFaithful
  <1> QED
    BY <1>1, <1>2

(* An unchanged position and unchanged buttons may be left out of the      *)
(* stream of reports: last_sent_hx, last_sent_hy and last_sent_buttons     *)
(* always are what the host has or will have (send_abs_mouse_once).        *)
THEOREM LastSentIsFaithful == Spec => []LastSentFaithful
  <1>1. Init => SentInv
    BY DEF Init, UsbInit, HostReleased, SentInv, LastSentFaithful
  <1>2. TypeOK /\ SentInv /\ [Next]_vars => SentInv'
    <2> SUFFICES ASSUME TypeOK, SentInv, [Next]_vars PROVE SentInv'
      OBVIOUS
    <2>1. LastSentFaithful
      BY DEF SentInv
    <2>2. CASE NetStep
      BY <2>2, NetFrame DEF SentInv, LastSentFaithful
    <2>3. CASE HidStep
      <3>1. CASE HidKey \/ HidLeave
        <4>1. UNCHANGED <<endpoint, host, lastSent>> /\ report'.kind = "kb"
          BY <3>1 DEF HidKey, HidLeave, StartSending, KbReport
        <4> QED
          BY <2>1, <4>1 DEF SentInv, LastSentFaithful
      <3>2. CASE HidLoadY
        <4>1. /\ UNCHANGED <<endpoint, host, lastSent, buttons>>
              /\ report'.buttons = buttons \/ hidPc' \notin {"wakeup", "send", "wait"}
          BY <3>2 DEF HidLoadY, StartSending, MouseReport
        <4> QED
          BY <2>1, <4>1 DEF SentInv, LastSentFaithful
      <3>3. CASE HidSendMove \/ HidSendLeave \/ HidSendJiggle \/ HidSendEnter
        <4>1. /\ SendAbsMouseOnce /\ host' = host
              /\ report'.kind = "kb" \/ hidPc' \notin {"wakeup", "send", "wait"}
          BY <3>3 DEF HidSendMove, HidSendLeave, HidSendJiggle, HidSendEnter, StartSending
        <4> QED
          BY <2>1, <4>1, SendOnceFaithful DEF SentInv
      <3>4. CASE HidWakeHost \/ HidRetry
        <4>1. /\ UNCHANGED <<endpoint, host, lastSent, report, buttons>>
              /\ hidPc \in {"wakeup", "wait"}
          BY <3>4 DEF HidWakeHost, HidRetry
        <4> QED
          BY <2>1, <4>1 DEF SentInv, LastSentFaithful
      <3>5. CASE HidSendRefused
        <4>1. /\ hidPc = "send" /\ UNCHANGED <<endpoint, host, lastSent, buttons>>
              /\ report' = report \/ hidPc' \notin {"wakeup", "send", "wait"}
          BY <3>5 DEF HidSendRefused, AfterSend
        <4> QED
          BY <2>1, <4>1 DEF SentInv, LastSentFaithful
      <3>6. CASE HidSendAccepted
        <4>1. /\ report \in Report /\ report # NoReport /\ endpoint = NoReport
              /\ endpoint' = report /\ host' = host
              /\ hidPc' \notin {"wakeup", "send", "wait"}
          BY <3>6, ActuatorAssumption DEF HidSendAccepted, AfterSend, Accepts, TypeOK
        <4>2. CASE report.kind = "mouse"
          <5>1. lastSent' = [pos |-> report.pos, buttons |-> buttons] /\ report.buttons = buttons
            BY <3>6, <4>2 DEF HidSendAccepted, SentInv
          <5> QED
            BY <4>1, <4>2, <5>1, HostTakesReport DEF SentInv, LastSentFaithful
        <4>3. CASE report.kind # "mouse"
          <5>1. lastSent' = lastSent
            BY <3>6, <4>3 DEF HidSendAccepted
          <5> QED
            BY <2>1, <4>1, <4>3, <5>1, HostTakesReport DEF SentInv, LastSentFaithful
        <4> QED
          BY <4>2, <4>3
      <3>7. CASE ~(HidKey \/ HidLeave \/ HidLoadY \/ HidSendMove \/ HidSendLeave \/ HidSendJiggle
                   \/ HidSendEnter \/ HidWakeHost \/ HidRetry \/ HidSendRefused
                   \/ HidSendAccepted)
        <4>1. /\ UNCHANGED <<endpoint, host, lastSent>>
              /\ hidPc' \notin {"wakeup", "send", "wait"}
          BY <2>3, <3>7 DEF HidStep, HidClaimMove, HidMove, HidReceive, HidWake, HidDrop, HidMouse,
                    HidEnter, HidLeaveMouse, HidJiggle, HidJiggleAside, HidSession, HidStoreX,
                    HidStoreY, HidLoadX
        <4> QED
          BY <2>1, <4>1 DEF SentInv, LastSentFaithful
      <3> QED
        BY <3>1, <3>2, <3>3, <3>4, <3>5, <3>6, <3>7
    <2>4. CASE UsbTaskStep
      <3>1. UNCHANGED <<hidPc, report, buttons, lastSent>>
        BY <2>4, UsbFrame
      <3>2. CASE Complete
        <4>1. endpoint # NoReport /\ endpoint' = NoReport /\ host' = HostTakes(host, endpoint)
          BY <3>2 DEF Complete
        <4> QED
          BY <2>1, <3>1, <4>1 DEF SentInv, LastSentFaithful
      <3>3. CASE Unplug
        BY <3>1, <3>3 DEF Unplug, SentInv, LastSentFaithful
      <3>4. CASE ~Complete /\ ~Unplug
        <4>1. UNCHANGED <<endpoint, host>>
          BY <2>4, <3>4 DEF UsbTaskStep, UsbStep, Plug, CompleteCb, Suspend, SuspendCb,
                            SuspendCheck, Resume, ResumeCb
        <4> QED
          BY <2>1, <3>1, <4>1 DEF SentInv, LastSentFaithful
      <3> QED
        BY <3>2, <3>3, <3>4
    <2>5. CASE UNCHANGED vars
      BY <2>5 DEF SentInv, LastSentFaithful
    <2> QED
      BY <2>2, <2>3, <2>4, <2>5 DEF Next
  <1>3. SentInv => LastSentFaithful
    BY DEF SentInv
  <1> QED
    BY <1>1, <1>2, <1>3, TypesAreRespected, PTL DEF Spec

-----------------------------------------------------------------------------
(* The end of a session.  Offline the queue and the command the network    *)
(* task is stuck with are about sessions and the screen only; and the      *)
(* pointer is on no screen of an offline client.                           *)
Lasting == {"DISCONNECTED", "SET_SCREEN_SIZE", "SET_SCALING"}

FlushInv ==
    /\ FlushedOnDisconnect
    /\ server.entered => server.online
    /\ ~server.online /\ netPc = "full" => netCmd.type \in Lasting

(* What a queue holds after one more command, or one less. *)
LEMMA AppendLasting ==
  ASSUME queue \in Seq(Command), NEW c, c.type \in Lasting,
         \A i \in 1..Len(queue) : queue[i].type \in Lasting
  PROVE  \A i \in 1..Len(Append(queue, c)) : Append(queue, c)[i].type \in Lasting
  OBVIOUS

LEMMA TailLasting ==
  ASSUME queue \in Seq(Command), queue # <<>>,
         \A i \in 1..Len(queue) : queue[i].type \in Lasting
  PROVE  \A i \in 1..Len(Tail(queue)) : Tail(queue)[i].type \in Lasting
  <1> SUFFICES ASSUME NEW i \in 1..Len(Tail(queue)) PROVE Tail(queue)[i].type \in Lasting
    OBVIOUS
  <1>1. Tail(queue)[i] = queue[i + 1] /\ i + 1 \in 1..Len(queue)
    OBVIOUS
  <1> QED
    BY <1>1

(* No queued input survives the end of its session, neither when the       *)
(* session is closed nor when the full queue is dumped                     *)
(* (actuator_queue_disconnected, _dump_queue).                             *)
THEOREM QueueIsFlushedOnDisconnect == Spec => []FlushedOnDisconnect
  <1> USE DEF Lasting
  <1>1. Init => FlushInv
    BY DEF Init, Offline, FlushInv, FlushedOnDisconnect
  <1>2. TypeOK /\ FlushInv /\ [Next]_vars => FlushInv'
    <2> SUFFICES ASSUME TypeOK, FlushInv, [Next]_vars PROVE FlushInv'
      OBVIOUS
    <2> USE DEF FlushInv, FlushedOnDisconnect
    <2>1. queue \in Seq(Command) /\ QueueDepth \in Nat \ {0}
      BY ActuatorAssumption DEF TypeOK
    <2>2. CASE NetStep
      <3>1. ASSUME NEW c \in Commands, NetQueue(c) PROVE FlushInv'
        <4>1. c \in Command /\ ServerSends(c) /\ server' = ServerAfter(c) /\ Enqueue(c)
              /\ netPc = "idle"
          BY <3>1, ActuatorAssumption DEF NetQueue
        <4>2. c.type \in {"KEY_DOWN", "KEY_UP", "MOUSE_DOWN", "MOUSE_UP", "MOUSE_WHEEL", "ENTER",
                          "LEAVE", "JIGGLE", "CONNECTED", "SET_SCREEN_SIZE", "SET_SCALING"}
          BY <4>1 DEF ServerSends
        <4>3. server'.entered => server'.online
          BY <4>1, <4>2 DEF ServerSends, ServerAfter, TypeOK
        <4>4. CASE server'.online
          BY <4>1, <4>3, <4>4
        <4>5. CASE ~server'.online
          <5>1. c.type \in Lasting /\ ~server.online
            BY <4>1, <4>2, <4>5 DEF ServerSends, ServerAfter, TypeOK
          <5>2. CASE Len(queue) < QueueDepth
            <6>1. queue' = Append(queue, c) /\ netPc' = "give"
              BY <4>1, <5>2 DEF Enqueue
            <6> QED
              BY <2>1, <4>1, <4>3, <5>1, <6>1, AppendLasting
          <5>3. CASE ~(Len(queue) < QueueDepth)
            <6>1. queue' = queue /\ netCmd' = c
              BY <4>1, <5>3 DEF Enqueue
            <6> QED
              BY <4>1, <4>3, <5>1, <6>1
          <5> QED
            BY <5>2, <5>3
        <4> QED
          BY <4>4, <4>5
      <3>2. ASSUME NEW c \in Commands, NetDropRepeat(c) PROVE FlushInv'
        <4>1. c \in Command /\ ServerSends(c) /\ Repeats(c)
              /\ UNCHANGED <<netPc, netCmd, queue>>
          BY <3>2, ActuatorAssumption DEF NetDropRepeat
        <4>2. c.type \in {"KEY_DOWN", "KEY_UP", "MOUSE_DOWN", "MOUSE_UP", "MOUSE_WHEEL"}
          BY <4>1 DEF Repeats, DedupSlot
        <4>3. server'.online = server.online /\ server'.entered = server.entered
          BY <3>2, <4>2 DEF NetDropRepeat, ServerAfter, TypeOK
        <4> QED
          BY <4>1, <4>3
      <3>3. ASSUME NEW m \in Moves, NetMoveX(m) PROVE FlushInv'
        BY <3>3 DEF NetMoveX
      <3>4. CASE NetGive \/ NetTimeout \/ NetMoveY \/ NetMoveCas
        BY <3>4 DEF NetGive, NetTimeout, NetMoveY, NetMoveCas
      <3>5. CASE NetUnblock
        <4>1. netPc = "full" /\ queue' = Append(queue, netCmd) /\ server' = server
              /\ netPc' = "give"
          BY <3>5 DEF NetUnblock
        <4> QED
          BY <2>1, <4>1, AppendLasting
      <3>6. CASE NetDump
        <4>1. CASE queue # <<>>
          BY <2>1, <3>6, <4>1 DEF NetDump
        <4>2. CASE queue = <<>>
          <5>1. queue' = <<>> /\ (server' = server \/ server' = SessionOver)
                /\ netPc' \in {"idle", "flush"}
            BY <3>6, <4>2 DEF NetDump
          <5> QED
            BY <5>1 DEF SessionOver, Offline
        <4> QED
          BY <4>1, <4>2
      <3>7. CASE NetDisconnect
        BY <3>7 DEF NetDisconnect, SessionOver, Offline
      <3>8. CASE NetFlush
        <4>1. CASE queue # <<>>
          BY <3>8, <4>1 DEF NetFlush
        <4>2. CASE queue = <<>>
          <5>1. server' = server /\ Enqueue([type |-> "DISCONNECTED"]) /\ Len(queue) < QueueDepth
            BY <2>1, <3>8, <4>2 DEF NetFlush
          <5>2. queue' = <<[type |-> "DISCONNECTED"]>> /\ netPc' = "give"
            BY <4>2, <5>1 DEF Enqueue
          <5> QED
            BY <5>1, <5>2
        <4> QED
          BY <4>1, <4>2
      <3> QED
        BY <2>2, <3>1, <3>2, <3>3, <3>4, <3>5, <3>6, <3>7, <3>8 DEF NetStep
    <2>3. CASE HidStep
      <3>1. CASE HidReceive
        <4>1. UNCHANGED netVars
          BY <3>1 DEF HidReceive
        <4>2. CASE queue # <<>>
          <5>1. queue' = Tail(queue)
            BY <3>1, <4>2 DEF HidReceive
          <5> QED
            BY <2>1, <4>1, <4>2, <5>1, TailLasting
        <4>3. CASE queue = <<>>
          BY <3>1, <4>1, <4>3 DEF HidReceive
        <4> QED
          BY <4>2, <4>3
      <3>2. CASE ~HidReceive
        <4>1. UNCHANGED <<netVars, queue>>
          BY <2>3, <3>2, HidFrame
        <4> QED
          BY <4>1
      <3> QED
        BY <3>1, <3>2
    <2>4. CASE UsbTaskStep
      BY <2>4, UsbFrame
    <2>5. CASE UNCHANGED vars
      BY <2>5
    <2> QED
      BY <2>2, <2>3, <2>4, <2>5 DEF Next
  <1>3. FlushInv => FlushedOnDisconnect
    BY DEF FlushInv
  <1> QED
    BY <1>1, <1>2, <1>3, TypesAreRespected, PTL DEF Spec
=============================================================================
