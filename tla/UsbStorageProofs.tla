--------------------------- MODULE UsbStorageProofs ---------------------------
(***************************************************************************)
(* Proofs about UsbStorage for any number of insertions and of slots, any  *)
(* length of the event queue and whatever fails.                           *)
(***************************************************************************)
EXTENDS UsbStorage, SequenceTheorems, WellFoundedInduction, TLAPS

-----------------------------------------------------------------------------
(* The event queue.                                                        *)

Queued(m) == \E i \in 1..Len(events) : events[i] = m

Once(m) == \A i, j \in 1..Len(events) : events[i] = m /\ events[j] = m => i = j

LEMMA QueueGrows ==
  ASSUME events \in Seq(Event), NEW n \in Event, events' = Append(events, n), NEW m
  PROVE  /\ Queued(m)' <=> Queued(m) \/ m = n
         /\ Once(m) /\ (m = n => ~Queued(m)) => Once(m)'
<1>1. /\ Len(events') = Len(events) + 1 /\ Len(events) \in Nat
      /\ events'[Len(events) + 1] = n
      /\ \A i \in 1..Len(events) : events'[i] = events[i]
  BY AppendProperties, LenProperties
<1> QED
  BY <1>1 DEF Queued, Once

LEMMA QueueShrinks ==
  ASSUME events \in Seq(Event), events # <<>>, events' = Tail(events), NEW m
  PROVE  /\ Queued(m)' => Queued(m)
         /\ Queued(m) => Queued(m)' \/ m = Head(events)
         /\ Once(m) => Once(m)'
         /\ Once(m) /\ m = Head(events) => ~Queued(m)'
         /\ Queued(Head(events))
<1>1. /\ Len(events') = Len(events) - 1 /\ Len(events) \in Nat \ {0}
      /\ \A i \in 1..(Len(events) - 1) : events'[i] = events[i + 1]
      /\ Head(events) = events[1]
  BY HeadTailProperties, LenProperties, EmptySeq
<1>2. ASSUME NEW i \in 1..Len(events), i # 1
      PROVE  i - 1 \in 1..Len(events') /\ events'[i - 1] = events[i]
  BY <1>1, <1>2
<1> QED
  BY <1>1, <1>2 DEF Queued, Once

LEMMA QueueKept ==
  ASSUME events' = events, NEW m
  PROVE  (Queued(m)' <=> Queued(m)) /\ (Once(m)' <=> Once(m))
  BY DEF Queued, Once

-----------------------------------------------------------------------------
(* Types.                                                                  *)

LEMMA SettingsType == TypeOK => SettingsFound \in Devices \cup {Nothing}
<1>1. 1 \in Slots
  BY StorageAssumption DEF Slots
<1> QED
  BY <1>1 DEF TypeOK, SettingsFound

LEMMA TypeInit == Init => TypeOK
<1>1. <<>> \in Seq(Event) /\ Len(<<>>) = 0
  BY EmptySeq
<1>2. "start" \in MainPcs /\ "none" \in TaskPcs /\ "INACTIVE" \in States
  BY DEF MainPcs, TaskPcs, States
<1>3. 0 \in 0..MaxInserts /\ 0 <= QueueDepth
  BY StorageAssumption
<1> QED
  BY <1>1, <1>2, <1>3 DEF Init, From, TypeOK

LEMMA TypeStep == TypeOK /\ [Next]_vars => TypeOK'
<1> SUFFICES ASSUME TypeOK, [Next]_vars PROVE TypeOK'
  OBVIOUS
<1>1. SettingsFound \in Devices \cup {Nothing}
  BY SettingsType
<1>2. QueueDepth \in Nat /\ MaxInserts \in Nat /\ 1 \in Slots
  BY StorageAssumption DEF Slots
<1>3. CASE UNCHANGED vars
  BY <1>3 DEF vars, mainVars, hostVars, taskVars, stickVars, TypeOK
<1>4. CASE MainStep
  <2>1. mainPc' \in MainPcs
    BY <1>4 DEF MainStep, MainStart, MainCreate, MainHandle, MainWoken, MainTimeout, MainStop,
                MainDrain, MainSettle, MainLoad, MainRead, MainAssign, MainCerts, MainMonitor,
                TypeOK, MainPcs
  <2>2. /\ taskPc' \in {taskPc, "boot"} /\ state' \in {state, "ACTIVATING", "ERROR", "INACTIVE"}
        /\ stop' \in {stop, TRUE, FALSE} /\ mountedSem' \in {mountedSem, FALSE}
        /\ taskHandle' \in {taskHandle, TRUE} /\ led' \in {led, state = "MOUNTED"}
        /\ UNCHANGED <<slot, events, event, taskRead, taskLeft, stickVars>>
    BY <1>4 DEF MainStep, MainStart, MainCreate, MainHandle, MainWoken, MainTimeout, MainStop,
                MainDrain, MainSettle, MainLoad, MainRead, MainAssign, MainCerts, MainMonitor,
                Mounted, mainVars, hostVars, taskVars
  <2>3. /\ mainRead' \in {mainRead, SettingsFound}
        /\ certs' \in {certs, slot[1], Nothing}
    BY <1>4 DEF MainStep, MainStart, MainCreate, MainHandle, MainWoken, MainTimeout, MainStop,
                MainDrain, MainSettle, MainLoad, MainRead, MainAssign, MainCerts, MainMonitor,
                mainVars
  <2>9. mainLeft' \subseteq Fields /\ config' \in [Fields -> Devices \cup {Nothing}]
    <3>1. CASE UNCHANGED <<mainLeft, config>>
      BY <3>1 DEF TypeOK
    <3>2. ASSUME NEW f \in Fields, MainLoad(f) \/ MainAssign(f)
          PROVE  mainLeft' \subseteq Fields /\ config' \in [Fields -> Devices \cup {Nothing}]
      BY <3>2 DEF MainLoad, MainAssign, Store, LeftAfter, TypeOK
    <3>3. UNCHANGED <<mainLeft, config>> \/ \E f \in Fields : MainLoad(f) \/ MainAssign(f)
      BY <1>4 DEF MainStep, MainStart, MainCreate, MainHandle, MainWoken, MainTimeout, MainStop,
                  MainDrain, MainSettle, MainRead, MainCerts, MainMonitor, mainVars
    <3> QED
      BY <3>1, <3>2, <3>3
  <2>4. slot[1] \in Devices \cup {Nothing}
    BY <1>2 DEF TypeOK
  <2>5. taskPc' \in TaskPcs /\ state' \in States
    BY <2>2 DEF TaskPcs, States, TypeOK
  <2>6. /\ stop' \in BOOLEAN /\ mountedSem' \in BOOLEAN
        /\ taskHandle' \in BOOLEAN /\ led' \in BOOLEAN
    BY <2>2 DEF TypeOK
  <2>7. /\ mainRead' \in Devices \cup {Nothing}
        /\ certs' \in Devices \cup {Nothing}
    BY <1>1, <2>3, <2>4 DEF TypeOK
  <2>8. /\ UNCHANGED <<slot, events, event, taskRead, taskLeft, inserted, plugged, settings,
                       known>>
    BY <2>2 DEF stickVars
  <2> QED
    BY <2>1, <2>5, <2>6, <2>7, <2>8, <2>9 DEF TypeOK
<1>5. CASE TaskStep
  <2> USE DEF TypeOK, TaskPcs, States, mainVars, hostVars, taskVars, stickVars
  <2>1. CASE TaskBoot \/ TaskInstall \/ TaskFail
    BY <2>1 DEF TaskBoot, TaskInstall, TaskFail
  <2>2. CASE TaskReceive
    <3>1. CASE events # <<>>
      <4>1. /\ event' = Head(events) /\ events' = Tail(events) /\ taskPc' = "event"
            /\ UNCHANGED <<mainVars, state, stop, mountedSem, taskHandle, slot, config,
                           taskRead, taskLeft, stickVars>>
        BY <2>2, <3>1 DEF TaskReceive
      <4>2. /\ event' \in Event /\ events' \in Seq(Event)
            /\ Len(events') = Len(events) - 1
        BY <3>1, <4>1, HeadTailProperties
      <4>3. Len(events) \in Nat /\ Len(events) <= QueueDepth
        BY LenProperties
      <4>4. Len(events') <= QueueDepth
        BY <1>2, <4>2, <4>3
      <4> QED
        BY <4>1, <4>2, <4>4
    <3>2. CASE events = <<>>
      BY <2>2, <3>2 DEF TaskReceive
    <3> QED
      BY <3>1, <3>2
  <2>3. CASE TaskConnect
    <3>1. event.device \in Devices \cup {Nothing}
      BY DEF Event, NoEvent
    <3>2. [slot EXCEPT ![First(FreeSlots)] = event.device] \in [Slots -> Devices \cup {Nothing}]
      BY <3>1
    <3> QED
      BY <2>3, <3>2 DEF TaskConnect
  <2>4. CASE TaskConnectFails
    BY <2>4 DEF TaskConnectFails
  <2>5. CASE TaskSignal \/ TaskGive
    BY <2>5 DEF TaskSignal, TaskGive
  <2>6. CASE TaskRead
    BY <1>1, <2>6 DEF TaskRead
  <2>9. ASSUME NEW f \in Fields, TaskLoad(f) \/ TaskAssign(f) PROVE TypeOK'
    BY <2>9 DEF TaskLoad, TaskAssign, Store, LeftAfter
  <2>7. CASE TaskDisconnect
    BY <2>7 DEF TaskDisconnect
  <2>8. CASE TaskCheck \/ TaskCleanup \/ TaskExit
    BY <2>8 DEF TaskCheck, TaskCleanup, TaskExit
  <2> QED
    BY <1>5, <2>1, <2>2, <2>3, <2>4, <2>5, <2>6, <2>7, <2>8, <2>9 DEF TaskStep
<1>6. CASE StickStep
  <2> USE DEF TypeOK, mainVars, hostVars, taskVars, stickVars
  <2>1. ASSUME NEW s \in BOOLEAN, Insert(s) PROVE TypeOK'
    <3>1. inserted' \in 0..MaxInserts /\ inserted' \in Devices
      BY <1>2, <2>1 DEF Insert, Devices
    <3> QED
      BY <2>1, <3>1 DEF Insert
  <2>2. ASSUME NEW d \in Devices, NEW n \in Event, Len(events) < QueueDepth
        PROVE  Append(events, n) \in Seq(Event) /\ Len(Append(events, n)) <= QueueDepth
    BY <1>2, <2>2, AppendProperties, LenProperties
  <2>3. ASSUME NEW d \in Devices, PullOut(d) PROVE TypeOK'
    BY <2>3 DEF PullOut
  <2>4. ASSUME NEW d \in Devices, Announce(d) PROVE TypeOK'
    <3>1. Connected(d) \in Event
      BY DEF Connected, Event
    <3> QED
      BY <2>2, <2>4, <3>1 DEF Announce
  <2>5. ASSUME NEW d \in Devices, AnnounceGone(d) PROVE TypeOK'
    <3>1. Disconnected(d) \in Event
      BY DEF Disconnected, Event
    <3> QED
      BY <2>2, <2>5, <3>1 DEF AnnounceGone
  <2> QED
    BY <1>6, <2>1, <2>3, <2>4, <2>5 DEF StickStep
<1> QED
  BY <1>3, <1>4, <1>5, <1>6 DEF Next

(* The variables of the boot, of the host task and of the driver stay in   *)
(* their ranges, the queue within its length (main.c, usb_host_msc.c).     *)
THEOREM StorageTypes == Spec => []TypeOK
  BY TypeInit, TypeStep, PTL DEF Spec

-----------------------------------------------------------------------------
(* The slots.                                                              *)

(* The task still has to handle that a device came, or that it went. *)
Coming(d) == event = Connected(d) \/ Queued(Connected(d))
Going(d) == event = Disconnected(d) \/ Queued(Disconnected(d))

InSlot(d) == \E i \in Slots : slot[i] = d

(* What the driver and the host task know of a device that was plugged in: *)
(* it is announced once, and mounted at most once; it is in no slot before *)
(* its announcement was handled; if it is in a slot and gone, then the     *)
(* driver or the task will see to that.                                    *)
Tracked(d) ==
    /\ d \in plugged \ known => ~Coming(d) /\ ~InSlot(d)
    /\ Coming(d) => ~InSlot(d)
    /\ Once(Connected(d))
    /\ event = Connected(d) => ~Queued(Connected(d))
    /\ \A i, j \in Slots : slot[i] = d /\ slot[j] = d => i = j
    /\ InSlot(d) => d \in plugged \cup known \/ Going(d)
    /\ d > inserted => d \notin plugged \cup known /\ ~Coming(d) /\ ~InSlot(d)

SlotInv ==
    /\ \A d \in Devices : Tracked(d)
    /\ mainPc \in {"start", "create"} => taskPc = "none"
    /\ taskPc # "event" => event = NoEvent
    /\ ~DriverRuns => slot = [i \in Slots |-> Nothing]

LEMMA EventsDiffer ==
  ASSUME NEW d \in Devices, NEW e \in Devices
  PROVE  /\ Connected(d) # Disconnected(e) /\ Connected(d) # NoEvent
         /\ Disconnected(d) # NoEvent
         /\ Connected(d) = Connected(e) => d = e
         /\ Disconnected(d) = Disconnected(e) => d = e
<1>1. d # 0 /\ e # 0
  BY StorageAssumption DEF Devices
<1> QED
  BY <1>1 DEF Connected, Disconnected, NoEvent, Nothing

LEMMA SlotInvInit == Init => SlotInv
<1> SUFFICES ASSUME Init PROVE SlotInv
  OBVIOUS
<1>1. /\ slot = [i \in Slots |-> Nothing] /\ events = <<>> /\ event = NoEvent
      /\ plugged = {} /\ known = {} /\ taskPc = "none"
  BY DEF Init
<1>2. ASSUME NEW d \in Devices PROVE Tracked(d)
  <2>1. ~InSlot(d)
    BY <1>1, StorageAssumption DEF InSlot, Devices, Nothing
  <2>2. \A m : ~Queued(m) /\ Once(m)
    BY <1>1 DEF Queued, Once
  <2>3. event # Connected(d)
    BY <1>1, EventsDiffer
  <2>4. \A i \in Slots : slot[i] # d
    BY <2>1 DEF InSlot
  <2> QED
    BY <1>1, <2>1, <2>2, <2>3, <2>4 DEF Tracked, Coming
<1> QED
  BY <1>1, <1>2 DEF SlotInv

(* A step that touches neither the slots, the events nor the sticks. *)
LEMMA SlotInvKept ==
  ASSUME SlotInv, UNCHANGED <<slot, events, event, stickVars>>,
         mainPc' \in {"start", "create"} => taskPc' = "none",
         taskPc # "event" => taskPc' # "event",
         ~DriverRuns' => ~DriverRuns,
         taskPc = "event" => taskPc' = "event"
  PROVE  SlotInv'
<1>1. ASSUME NEW d \in Devices PROVE Tracked(d)'
  BY QueueKept DEF SlotInv, Tracked, Coming, Going, InSlot, stickVars
<1> QED
  BY <1>1 DEF SlotInv

LEMMA SlotInvStep == TypeOK /\ SlotInv /\ [Next]_vars => SlotInv'
<1> SUFFICES ASSUME TypeOK, SlotInv, [Next]_vars PROVE SlotInv'
  OBVIOUS
<1>1. events \in Seq(Event) /\ slot \in [Slots -> Devices \cup {Nothing}]
      /\ inserted \in Nat
  BY StorageAssumption DEF TypeOK
<1>2. ASSUME NEW d \in Devices PROVE Tracked(d)
  BY <1>2 DEF SlotInv
<1>3. CASE UNCHANGED vars
  BY <1>3, SlotInvKept DEF vars, hostVars, taskVars, mainVars, SlotInv, DriverRuns
<1>4. CASE MainStep
  <2>1. UNCHANGED <<slot, events, event, stickVars>>
    BY <1>4 DEF MainStep, MainStart, MainCreate, MainHandle, MainWoken, MainTimeout, MainStop,
                MainDrain, MainSettle, MainLoad, MainRead, MainAssign, MainCerts, MainMonitor,
                hostVars, taskVars
  <2>2. mainPc \in {"start", "create"} => taskPc = "none"
    BY DEF SlotInv
  <2>3. CASE MainStart
    <3>1. taskPc' = taskPc /\ mainPc = "start"
      BY <2>3 DEF MainStart, taskVars
    <3> QED
      BY <2>1, <2>2, <3>1, SlotInvKept DEF DriverRuns
  <2>4. CASE MainCreate
    <3>1. taskPc' \in {taskPc, "boot"} /\ mainPc = "create" /\ mainPc' \in {"handle", "load"}
      BY <2>4 DEF MainCreate
    <3> QED
      BY <2>1, <2>2, <3>1, SlotInvKept DEF DriverRuns
  <2>5. CASE ~MainStart /\ ~MainCreate
    <3>1. taskPc' = taskPc /\ mainPc' \notin {"start", "create"}
      BY <1>4, <2>5
         DEF MainStep, MainHandle, MainWoken, MainTimeout, MainStop, MainDrain, MainSettle,
             MainLoad, MainRead, MainAssign, MainCerts, MainMonitor, hostVars, taskVars
    <3> QED
      BY <2>1, <3>1, SlotInvKept DEF DriverRuns
  <2> QED
    BY <2>3, <2>4, <2>5
<1>5. CASE TaskStep
  <2>1. taskPc # "none" /\ taskPc' # "none" /\ mainPc' = mainPc
    BY <1>5 DEF TaskStep, TaskBoot, TaskInstall, TaskFail, TaskReceive, TaskConnect,
                TaskConnectFails, TaskSignal, TaskGive, TaskLoad, TaskRead, TaskAssign,
                TaskDisconnect, TaskCheck, TaskCleanup, TaskExit, mainVars
  <2>2. mainPc' \notin {"start", "create"}
    BY <2>1 DEF SlotInv
  <2>3. CASE ~TaskReceive /\ ~TaskConnect /\ ~TaskConnectFails /\ ~TaskDisconnect
             /\ ~TaskCleanup /\ ~TaskExit
    <3>1. /\ UNCHANGED <<slot, events, event, stickVars>>
          /\ taskPc # "event" /\ taskPc' # "event"
          /\ ~DriverRuns' => ~DriverRuns
      BY <1>5, <2>3
         DEF TaskStep, TaskBoot, TaskInstall, TaskFail, TaskSignal, TaskGive, TaskLoad,
             TaskRead, TaskAssign, TaskCheck, hostVars, DriverRuns
    <3> QED
      BY <2>2, <3>1, SlotInvKept
  <2>4. CASE TaskReceive /\ events = <<>>
    <3>1. UNCHANGED <<slot, events, event, stickVars>> /\ taskPc = "loop" /\ taskPc' = "check"
      BY <2>4 DEF TaskReceive
    <3> QED
      BY <2>2, <3>1, SlotInvKept DEF DriverRuns
  <2>5. CASE TaskReceive /\ events # <<>>
    <3>1. /\ event' = Head(events) /\ events' = Tail(events)
          /\ UNCHANGED <<slot, plugged, known, inserted>>
          /\ taskPc = "loop" /\ taskPc' = "event"
      BY <2>5 DEF TaskReceive, stickVars
    <3>2. event = NoEvent
      BY <3>1 DEF SlotInv
    <3>3. ASSUME NEW d \in Devices PROVE Tracked(d)'
      <4>1. Tracked(d) /\ event # Connected(d) /\ event # Disconnected(d)
        BY <1>2, <3>2, <3>3, EventsDiffer
      <4> DEFINE c == Connected(d)
      <4> DEFINE g == Disconnected(d)
      <4>2. /\ Queued(c)' => Queued(c)
            /\ Once(c) => Once(c)'
            /\ Once(c) /\ c = event' => ~Queued(c)'
            /\ c = event' => Queued(c)
        BY <1>1, <2>5, <3>1, QueueShrinks
      <4>3. Queued(g) => Queued(g)' \/ g = event'
        BY <1>1, <2>5, <3>1, QueueShrinks
      <4>4. Coming(d)' => Coming(d)
        BY <4>2 DEF Coming
      <4>5. Going(d) => Going(d)'
        BY <4>1, <4>3 DEF Going
      <4>6. InSlot(d)' <=> InSlot(d)
        BY <3>1 DEF InSlot
      <4> QED
        BY <3>1, <4>1, <4>2, <4>4, <4>5, <4>6 DEF Tracked
    <3> QED
      BY <2>2, <3>1, <3>3 DEF SlotInv, DriverRuns
  <2>6. CASE TaskConnect
    <3> DEFINE i == First(FreeSlots)
    <3> DEFINE e == event.device
    <3>1. /\ slot' = [slot EXCEPT ![i] = e] /\ event' = NoEvent /\ event.connected
          /\ e \in plugged /\ UNCHANGED <<events, plugged, known, inserted>>
          /\ taskPc = "event" /\ taskPc' = "signal"
      BY <2>6 DEF TaskConnect, stickVars
    <3> HIDE DEF i
    <3>2. e \in Devices /\ event = Connected(e)
      <4>1. event \in Event
        BY <3>1 DEF TypeOK, NoEvent
      <4> QED
        BY <3>1, <4>1 DEF Event, Connected
    <3> HIDE DEF e
    <3>3. ASSUME NEW d \in Devices PROVE Tracked(d)'
      <4>1. Tracked(d)
        BY <1>2, <3>3
      <4>2. /\ Queued(Connected(d))' <=> Queued(Connected(d))
            /\ Once(Connected(d))' <=> Once(Connected(d))
            /\ Queued(Disconnected(d))' <=> Queued(Disconnected(d))
        BY <3>1, QueueKept
      <4>3. event # Disconnected(d) /\ event' # Connected(d)
        BY <3>1, <3>2, <3>3, EventsDiffer
      <4>4. CASE d = e
        <5>1. Coming(d) /\ ~InSlot(d) /\ ~Queued(Connected(d))
          BY <3>2, <4>1, <4>4 DEF Tracked, Coming
        <5>2. ~Coming(d)'
          BY <4>2, <4>3, <5>1 DEF Coming
        <5>3. \A j \in Slots : slot'[j] = d => j = i
          BY <1>1, <3>1, <5>1 DEF InSlot
        <5>4. d \in plugged' \cup known' /\ ~(d > inserted') /\ d \notin plugged' \ known'
          BY <3>1, <4>1, <4>4, <5>1 DEF Tracked
        <5> QED
          BY <4>1, <4>2, <4>3, <5>1, <5>2, <5>3, <5>4 DEF Tracked
      <4>5. CASE d # e
        <5>1. \A j \in Slots : slot'[j] = d => slot[j] = d
          BY <1>1, <3>1, <4>5
        <5>2. InSlot(d)' => InSlot(d)
          BY <5>1 DEF InSlot
        <5>3. Coming(d)' => Coming(d)
          BY <4>2, <4>3 DEF Coming
        <5>4. Going(d) => Going(d)'
          BY <4>2, <4>3 DEF Going
        <5> QED
          BY <3>1, <4>1, <4>2, <4>3, <5>1, <5>2, <5>3, <5>4 DEF Tracked
      <4> QED
        BY <4>4, <4>5
    <3> QED
      BY <2>2, <3>1, <3>3 DEF SlotInv, DriverRuns
  <2>7. CASE TaskConnectFails
    <3>1. /\ event' = NoEvent /\ event.connected /\ UNCHANGED <<slot, events, plugged, known, inserted>>
          /\ taskPc' = "check" /\ taskPc = "event"
      BY <2>7 DEF TaskConnectFails, hostVars, stickVars
    <3>2. ASSUME NEW d \in Devices PROVE Tracked(d)'
      <4>1. Tracked(d)
        BY <1>2, <3>2
      <4>2. /\ Queued(Connected(d))' <=> Queued(Connected(d))
            /\ Once(Connected(d))' <=> Once(Connected(d))
            /\ Queued(Disconnected(d))' <=> Queued(Disconnected(d))
        BY <3>1, QueueKept
      <4>3. event # Disconnected(d) /\ event' # Connected(d)
        <5>1. event # Disconnected(d)
          BY <3>1 DEF Disconnected
        <5> QED
          BY <3>1, <3>2, <5>1, EventsDiffer
      <4>4. (Coming(d)' => Coming(d)) /\ (Going(d) => Going(d)') /\ (InSlot(d)' <=> InSlot(d))
        BY <3>1, <4>2, <4>3 DEF Coming, Going, InSlot
      <4> QED
        BY <3>1, <4>1, <4>2, <4>3, <4>4 DEF Tracked
    <3> QED
      BY <2>2, <3>1, <3>2 DEF SlotInv, DriverRuns
  <2>8. CASE TaskDisconnect
    <3>1. /\ slot' = [i \in Slots |-> IF i \in SlotsOf(event.device) THEN Nothing ELSE slot[i]]
          /\ event' = NoEvent /\ ~event.connected /\ UNCHANGED <<events, plugged, known, inserted>>
          /\ taskPc' = "check" /\ taskPc = "event"
      BY <2>8 DEF TaskDisconnect, stickVars
    <3>2. ASSUME NEW d \in Devices PROVE Tracked(d)'
      <4>1. Tracked(d)
        BY <1>2, <3>2
      <4>2. /\ Queued(Connected(d))' <=> Queued(Connected(d))
            /\ Once(Connected(d))' <=> Once(Connected(d))
            /\ Queued(Disconnected(d))' <=> Queued(Disconnected(d))
        BY <3>1, QueueKept
      <4>3. event' # Connected(d) /\ d # Nothing
        BY <3>1, <3>2, EventsDiffer, StorageAssumption DEF Devices, Nothing
      <4>4. \A j \in Slots : slot'[j] = d => slot[j] = d /\ event.device # d
        BY <3>1, <4>3 DEF SlotsOf
      <4>5. InSlot(d)' => InSlot(d) /\ event # Disconnected(d)
        BY <4>4 DEF InSlot, Disconnected
      <4>6. Coming(d)' => Coming(d)
        BY <4>2, <4>3 DEF Coming
      <4>7. Going(d) /\ event # Disconnected(d) => Going(d)'
        BY <4>2 DEF Going
      <4> QED
        BY <3>1, <4>1, <4>2, <4>3, <4>4, <4>5, <4>6, <4>7 DEF Tracked
    <3> QED
      BY <2>2, <3>1, <3>2 DEF SlotInv, DriverRuns
  <2>9. CASE TaskCleanup \/ TaskExit
    <3>1. /\ slot' = [i \in Slots |-> Nothing] /\ UNCHANGED <<events, event, plugged, known, inserted>>
          /\ taskPc # "event" /\ taskPc' # "event"
      BY <2>9 DEF TaskCleanup, TaskExit, stickVars, SlotInv, DriverRuns
    <3>2. ASSUME NEW d \in Devices PROVE Tracked(d)'
      <4>1. Tracked(d)
        BY <1>2, <3>2
      <4>2. /\ Queued(Connected(d))' <=> Queued(Connected(d))
            /\ Once(Connected(d))' <=> Once(Connected(d))
        BY <3>1, QueueKept
      <4>3. d # Nothing
        BY <3>2, StorageAssumption DEF Devices, Nothing
      <4>4. ~InSlot(d)' /\ (Coming(d)' => Coming(d)) /\ \A j \in Slots : slot'[j] # d
        BY <3>1, <4>2, <4>3 DEF InSlot, Coming
      <4> QED
        BY <3>1, <4>1, <4>2, <4>4 DEF Tracked
    <3> QED
      BY <2>2, <3>1, <3>2 DEF SlotInv
  <2> QED
    BY <2>3, <2>4, <2>5, <2>6, <2>7, <2>8, <2>9
<1>6. CASE StickStep
  <2>1. UNCHANGED <<slot, event, taskPc, mainPc>>
    BY <1>6 DEF StickStep, Insert, PullOut, Announce, AnnounceGone, mainVars, hostVars, taskVars
  <2>2. SUFFICES \A d \in Devices : Tracked(d)'
    BY <2>1 DEF SlotInv, DriverRuns
  <2>3. \A d \in Devices : InSlot(d)' <=> InSlot(d)
    BY <2>1 DEF InSlot
  <2>4. \A m : events' = events => (Queued(m)' <=> Queued(m)) /\ (Once(m)' <=> Once(m))
    BY QueueKept
  <2>5. ASSUME NEW s \in BOOLEAN, Insert(s), NEW d \in Devices PROVE Tracked(d)'
    <3>1. /\ inserted' = inserted + 1 /\ plugged' = plugged \cup {inserted + 1}
          /\ UNCHANGED <<known, events>>
      BY <2>5 DEF Insert, hostVars
    <3>2. Tracked(d) /\ (Coming(d)' <=> Coming(d)) /\ (Going(d)' <=> Going(d))
      BY <1>2, <2>1, <2>4, <2>5, <3>1 DEF Coming, Going
    <3>3. /\ d > inserted' => d > inserted /\ d # inserted + 1
          /\ d = inserted + 1 => d > inserted
      BY <1>1, <3>1 DEF Devices
    <3> QED
      BY <2>1, <2>3, <2>4, <2>5, <3>1, <3>2, <3>3 DEF Tracked
  <2>6. ASSUME NEW e \in Devices, PullOut(e), NEW d \in Devices PROVE Tracked(d)'
    <3>1. plugged' = plugged \ {e} /\ UNCHANGED <<known, events, inserted>>
      BY <2>6 DEF PullOut, hostVars
    <3>2. Tracked(d) /\ (Coming(d)' <=> Coming(d)) /\ (Going(d)' <=> Going(d))
      BY <1>2, <2>1, <2>4, <2>6, <3>1 DEF Coming, Going
    <3> QED
      BY <2>1, <2>3, <2>4, <2>6, <3>1, <3>2 DEF Tracked
  <2>7. ASSUME NEW e \in Devices, Announce(e), NEW d \in Devices PROVE Tracked(d)'
    <3>1. /\ e \in plugged \ known /\ events' = Append(events, Connected(e))
          /\ known' = known \cup {e} /\ UNCHANGED <<plugged, inserted>>
      BY <2>7 DEF Announce
    <3>2. Connected(e) \in Event
      BY <2>7 DEF Connected, Event
    <3> DEFINE c == Connected(d)
    <3>3. /\ Queued(c)' <=> Queued(c) \/ d = e
          /\ Once(c) /\ (d = e => ~Queued(c)) => Once(c)'
          /\ Queued(Disconnected(d)) => Queued(Disconnected(d))'
      BY <1>1, <2>7, <3>1, <3>2, QueueGrows, EventsDiffer
    <3>4. Tracked(d) /\ (Coming(d)' <=> Coming(d) \/ d = e) /\ (Going(d) => Going(d)')
      BY <1>2, <2>1, <2>7, <3>3 DEF Coming, Going
    <3>5. d = e => ~Coming(d) /\ ~InSlot(d) /\ ~(d > inserted) /\ ~Queued(c) /\ event # c
      BY <3>1, <3>4 DEF Tracked, Coming
    <3> HIDE DEF c
    <3>6. Once(c) /\ (event = c => ~Queued(c)) /\ Once(c)' /\ (event' = c => ~Queued(c)')
      BY <2>1, <3>3, <3>4, <3>5 DEF Tracked, c
    <3> QED
      BY <2>1, <2>3, <2>7, <3>1, <3>4, <3>5, <3>6 DEF Tracked, c
  <2>8. ASSUME NEW e \in Devices, AnnounceGone(e), NEW d \in Devices PROVE Tracked(d)'
    <3>1. e \in known \ plugged /\ known' = known \ {e} /\ UNCHANGED <<plugged, inserted>>
      BY <2>8 DEF AnnounceGone
    <3>2. Disconnected(e) \in Event
      BY <2>8 DEF Disconnected, Event
    <3>3. events' = events \/ events' = Append(events, Disconnected(e))
      BY <2>8 DEF AnnounceGone
    <3> DEFINE c == Connected(d)
    <3> DEFINE g == Disconnected(d)
    <3>4. c # Disconnected(e)
      BY <2>8, EventsDiffer
    <3> HIDE DEF c, g
    <3>5. (Queued(c)' <=> Queued(c)) /\ (Once(c) => Once(c)') /\ (Queued(g) => Queued(g)')
      <4>1. CASE events' = events
        BY <2>4, <4>1
      <4>2. CASE events' = Append(events, Disconnected(e))
        BY <1>1, <3>2, <3>4, <4>2, QueueGrows
      <4> QED
        BY <3>3, <4>1, <4>2
    <3>6. Tracked(d) /\ (Coming(d)' <=> Coming(d)) /\ (Going(d) => Going(d)')
      BY <1>2, <2>1, <2>8, <3>5 DEF Coming, Going, c, g
    <3>7. InSlot(e) => Queued(Disconnected(e))'
      <4>1. ASSUME InSlot(e) PROVE events' = Append(events, Disconnected(e))
        BY <2>8, <4>1 DEF AnnounceGone, InSlot, SlotsOf
      <4> QED
        BY <1>1, <3>2, <4>1, QueueGrows
    <3>8. InSlot(d) => d \in plugged' \cup known' \/ Going(d)'
      BY <3>1, <3>6, <3>7 DEF Tracked, Going
    <3> QED
      BY <2>1, <2>3, <2>8, <3>1, <3>5, <3>6, <3>8 DEF Tracked, c
  <2> QED
    BY <1>6, <2>5, <2>6, <2>7, <2>8 DEF StickStep
<1> QED
  BY <1>3, <1>4, <1>5, <1>6 DEF Next

(* No slot leaks and none is taken twice (SlotsSound), in whatever order   *)
(* devices come and go, fail to mount and are handled, however many slots  *)
(* there are and however short the queue is: a device is announced at most *)
(* once, it is mounted only from that announcement, and one that is in a   *)
(* slot when it goes is reported gone (handle_device_connected,            *)
(* handle_device_disconnected and msc_event_cb in usb_host_msc.c).         *)
THEOREM SlotsAreSound == Spec => []SlotsSound
<1>1. ASSUME TypeOK, SlotInv PROVE SlotsSound
  <2>1. ASSUME NEW i \in Slots, slot[i] # Nothing
        PROVE  /\ SlotsOf(slot[i]) = {i}
               /\ \/ slot[i] \in plugged \cup known
                  \/ Disconnected(slot[i]) \in ToSet(events) \cup {event}
    <3>1. slot[i] \in Devices /\ InSlot(slot[i])
      BY <1>1, <2>1 DEF TypeOK, InSlot
    <3>2. Tracked(slot[i])
      BY <1>1, <3>1 DEF SlotInv
    <3>3. SlotsOf(slot[i]) = {i}
      BY <2>1, <3>2 DEF Tracked, SlotsOf
    <3>4. \A m : Queued(m) => m \in ToSet(events)
      BY <1>1 DEF Queued, ToSet, TypeOK
    <3> QED
      BY <3>1, <3>2, <3>3, <3>4 DEF Tracked, Going
  <2> QED
    BY <1>1, <2>1 DEF SlotsSound, SlotInv, DriverRuns
<1> QED
  BY <1>1, TypeInit, TypeStep, SlotInvInit, SlotInvStep, PTL DEF Spec
-----------------------------------------------------------------------------
(* What is loaded.                                                         *)

(* How the boot and the task take turns: who may have told the starter to  *)
(* wake up, and what s_state says of a mounted stick.                      *)
HostInv ==
    /\ taskPc \in {"none", "boot"} => ~mountedSem
    /\ taskPc = "boot" => mainPc \in {"handle", "wait"} /\ state = "ACTIVATING"
    /\ mainPc = "create" => state = "ACTIVATING"
    /\ mainPc \in {"drain", "settle"} \/ taskPc \in {"cleanup", "exit"} => stop
    /\ ~stop /\ (taskPc = "install" \/ DriverRuns) => state \in {"ACTIVATING", "MOUNTED"}
    /\ ~stop /\ taskPc \in {"give", "load", "read", "assign"} => Mounted
    /\ ~stop /\ slot[1] # Nothing /\ taskPc # "signal" => Mounted

(* Only a device that was pulled out is reported gone. *)
GoneInv == \A d \in Devices : Going(d) => d \notin plugged /\ d <= inserted

(* What config_load gives with the device that is at /usb0. *)
Wanted == IF slot[1] \in settings THEN slot[1] ELSE Nothing

(* A round of stores begins with all fields to store. *)
LeftInv ==
    /\ mainPc \notin {"load", "assign"} => mainLeft = Fields
    /\ taskPc \notin {"load", "assign"} => taskLeft = Fields

(* The host task's config_load has stored the default of field f, or there *)
(* is none to come; it has stored what it read, or there is nothing to     *)
(* store; and the boot's has.                                              *)
TaskBegun(f) ==
    /\ taskPc \notin {"signal", "give"}
    /\ taskPc = "load" => f \notin taskLeft
TaskStored(f) ==
    /\ taskPc \notin {"signal", "give", "load", "read"}
    /\ taskPc = "assign" => f \notin taskLeft
MainStored(f) ==
    \/ mainPc \in {"certs", "running"}
    \/ mainPc = "assign" /\ f \notin mainLeft

(* What either config_load has read is still at /usb0 when it is assigned. *)
ReadInv ==
    /\ taskPc = "assign" => taskRead = slot[1] /\ slot[1] \in settings
    /\ ~stop /\ mainPc = "assign" =>
        /\ mainRead = slot[1]
        /\ slot[1] \in settings /\ ~Going(slot[1])

(* A field holds what the stick has or the default, unless the task has    *)
(* yet to store its default; once both calls are done with it, it holds    *)
(* what the stick has.                                                     *)
FieldInv ==
    ~stop /\ slot[1] \in plugged =>
        \A f \in Fields :
            /\ TaskBegun(f) => config[f] \in {Nothing, Wanted}
            /\ TaskStored(f) /\ MainStored(f) => config[f] = Wanted

LoadInv == ReadInv /\ FieldInv

LEMMA FollowInit == Init => HostInv /\ GoneInv /\ LeftInv /\ LoadInv
<1> SUFFICES ASSUME Init PROVE HostInv /\ GoneInv /\ LeftInv /\ LoadInv
  OBVIOUS
<1>1. 1 \in Slots /\ \A d \in Devices : d # 0
  BY StorageAssumption DEF Slots, Devices
<1>2. HostInv
  BY <1>1 DEF Init, HostInv, DriverRuns
<1>3. \A d \in Devices : ~Going(d)
  BY <1>1, EventsDiffer, EmptySeq DEF Init, Going, Queued
<1>4. LoadInv
  BY <1>1 DEF Init, LoadInv, ReadInv, FieldInv
<1>5. LeftInv
  BY DEF Init, LeftInv
<1> QED
  BY <1>2, <1>3, <1>4, <1>5 DEF GoneInv

LEMMA LeftInvStep == SlotInv /\ LeftInv /\ [Next]_vars => LeftInv'
<1> SUFFICES ASSUME SlotInv, LeftInv, [Next]_vars PROVE LeftInv'
  OBVIOUS
<1> USE DEF LeftInv, mainVars, hostVars, taskVars, stickVars
<1>1. CASE UNCHANGED vars
  BY <1>1 DEF vars
<1>2. CASE MainStep
  <2>1. ASSUME NEW f \in Fields, MainLoad(f) \/ MainAssign(f) PROVE LeftInv'
    <3>1. CASE MainLoad(f)
      BY <3>1 DEF MainLoad, LeftAfter
    <3>2. CASE MainAssign(f)
      BY <3>2 DEF MainAssign, LeftAfter
    <3> QED
      BY <2>1, <3>1, <3>2
  <2>2. CASE MainStart \/ MainHandle \/ MainWoken \/ MainTimeout \/ MainStop
    BY <2>2 DEF MainStart, MainHandle, MainWoken, MainTimeout, MainStop
  <2>4. CASE MainCreate
    BY <2>4 DEF MainCreate, SlotInv
  <2>3. CASE MainDrain \/ MainSettle \/ MainRead \/ MainCerts \/ MainMonitor
    BY <2>3 DEF MainDrain, MainSettle, MainRead, MainCerts, MainMonitor
  <2> QED
    BY <1>2, <2>1, <2>2, <2>3, <2>4 DEF MainStep
<1>3. CASE TaskStep
  <2>1. ASSUME NEW f \in Fields, TaskLoad(f) \/ TaskAssign(f) PROVE LeftInv'
    <3>1. CASE TaskLoad(f)
      BY <3>1 DEF TaskLoad, LeftAfter
    <3>2. CASE TaskAssign(f)
      BY <3>2 DEF TaskAssign, LeftAfter
    <3> QED
      BY <2>1, <3>1, <3>2
  <2>2. CASE TaskBoot \/ TaskInstall \/ TaskFail \/ TaskReceive \/ TaskConnect
             \/ TaskConnectFails \/ TaskSignal \/ TaskGive
    BY <2>2 DEF TaskBoot, TaskInstall, TaskFail, TaskReceive, TaskConnect, TaskConnectFails,
                TaskSignal, TaskGive
  <2>3. CASE TaskRead \/ TaskDisconnect \/ TaskCheck \/ TaskCleanup \/ TaskExit
    BY <2>3 DEF TaskRead, TaskDisconnect, TaskCheck, TaskCleanup, TaskExit
  <2> QED
    BY <1>3, <2>1, <2>2, <2>3 DEF TaskStep
<1>4. CASE StickStep
  BY <1>4 DEF StickStep, Insert, PullOut, Announce, AnnounceGone
<1> QED
  BY <1>1, <1>2, <1>3, <1>4 DEF Next

LEMMA HostInvStep == TypeOK /\ SlotInv /\ HostInv /\ [Next]_vars => HostInv'
<1> SUFFICES ASSUME TypeOK, SlotInv, HostInv, [Next]_vars PROVE HostInv'
  OBVIOUS
<1>1. 1 \in Slots
  BY StorageAssumption DEF Slots
<1>2. slot \in [Slots -> Devices \cup {Nothing}]
  BY DEF TypeOK
<1>3. mainPc \in {"start", "create"} => taskPc = "none"
  BY DEF SlotInv
<1>4. ~DriverRuns => slot[1] = Nothing
  BY <1>1 DEF SlotInv
<1> USE <1>1, <1>2, <1>3, <1>4
        DEF HostInv, DriverRuns, Mounted, mainVars, hostVars, taskVars, stickVars
<1>5. CASE UNCHANGED vars
  BY <1>5 DEF vars
<1>6. CASE MainStep
  <2>1. CASE MainStart \/ MainCreate \/ MainHandle
    BY <2>1 DEF MainStart, MainCreate, MainHandle
  <2>2. CASE MainWoken \/ MainTimeout \/ MainStop
    BY <2>2 DEF MainWoken, MainTimeout, MainStop
  <2>3. CASE MainDrain \/ MainSettle
    BY <2>3 DEF MainDrain, MainSettle
  <2>4. CASE MainRead \/ MainCerts \/ MainMonitor
    BY <2>4 DEF MainRead, MainCerts, MainMonitor
  <2>5. ASSUME NEW f \in Fields, MainLoad(f) \/ MainAssign(f) PROVE HostInv'
    BY <2>5 DEF MainLoad, MainAssign
  <2> QED
    BY <1>6, <2>1, <2>2, <2>3, <2>4, <2>5 DEF MainStep
<1>7. CASE TaskStep
  <2>1. CASE TaskBoot \/ TaskInstall \/ TaskFail
    BY <2>1 DEF TaskBoot, TaskInstall, TaskFail
  <2>2. CASE TaskReceive \/ TaskConnectFails \/ TaskCheck
    BY <2>2 DEF TaskReceive, TaskConnectFails, TaskCheck
  <2>3. CASE TaskConnect
    BY <2>3 DEF TaskConnect
  <2>4. CASE TaskSignal \/ TaskGive \/ TaskRead
    BY <2>4 DEF TaskSignal, TaskGive, TaskRead
  <2>7. ASSUME NEW f \in Fields, TaskLoad(f) \/ TaskAssign(f) PROVE HostInv'
    BY <2>7 DEF TaskLoad, TaskAssign
  <2>5. CASE TaskDisconnect
    <3>1. slot'[1] # Nothing => slot[1] # Nothing
      BY <2>5 DEF TaskDisconnect
    <3> QED
      BY <2>5, <3>1 DEF TaskDisconnect
  <2>6. CASE TaskCleanup \/ TaskExit
    BY <2>6 DEF TaskCleanup, TaskExit
  <2> QED
    BY <1>7, <2>1, <2>2, <2>3, <2>4, <2>5, <2>6, <2>7 DEF TaskStep
<1>8. CASE StickStep
  <2>1. UNCHANGED <<mainPc, state, stop, mountedSem, taskPc, slot>>
    BY <1>8 DEF StickStep, Insert, PullOut, Announce, AnnounceGone
  <2> QED
    BY <2>1
<1> QED
  BY <1>5, <1>6, <1>7, <1>8 DEF Next

LEMMA GoneInvStep == TypeOK /\ SlotInv /\ GoneInv /\ [Next]_vars => GoneInv'
<1> SUFFICES ASSUME TypeOK, SlotInv, GoneInv, [Next]_vars, NEW d \in Devices, Going(d)'
             PROVE  d \notin plugged' /\ d <= inserted'
  BY DEF GoneInv
<1>1. events \in Seq(Event) /\ inserted \in Nat /\ d \in Nat
  BY StorageAssumption DEF TypeOK, Devices
<1>2. Going(d) => d \notin plugged /\ d <= inserted
  BY DEF GoneInv
<1>3. Disconnected(d) # NoEvent /\ \A e \in Devices : Disconnected(d) = Disconnected(e) => d = e
  BY EventsDiffer
<1> DEFINE g == Disconnected(d)
<1> HIDE DEF g
<1>4. events' = events => (Queued(g)' <=> Queued(g))
  BY QueueKept
<1>5. CASE UNCHANGED <<events, stickVars>> /\ event' \in {event, NoEvent}
  BY <1>2, <1>3, <1>4, <1>5 DEF Going, g, stickVars
<1>6. CASE UNCHANGED vars
  BY <1>5, <1>6 DEF vars, hostVars, taskVars
<1>7. CASE MainStep
  <2>1. UNCHANGED <<events, event, stickVars>>
    BY <1>7 DEF MainStep, MainStart, MainCreate, MainHandle, MainWoken, MainTimeout, MainStop,
                MainDrain, MainSettle, MainLoad, MainRead, MainAssign, MainCerts, MainMonitor,
                hostVars, taskVars
  <2> QED
    BY <1>5, <2>1
<1>8. CASE TaskStep
  <2>1. CASE TaskReceive /\ events # <<>>
    <3>1. event' = Head(events) /\ events' = Tail(events) /\ UNCHANGED stickVars
      BY <2>1 DEF TaskReceive
    <3>2. (Queued(g)' => Queued(g)) /\ Queued(Head(events))
      BY <1>1, <2>1, <3>1, QueueShrinks
    <3>3. Queued(g)
      <4>1. CASE event' = g
        BY <3>1, <3>2, <4>1
      <4>2. CASE event' # g
        BY <3>2, <4>2 DEF Going, g
      <4> QED
        BY <4>1, <4>2
    <3> QED
      BY <1>2, <3>1, <3>3 DEF Going, g, stickVars
  <2>2. CASE ~(TaskReceive /\ events # <<>>)
    <3>1. UNCHANGED <<events, stickVars>> /\ event' \in {event, NoEvent}
      BY <1>8, <2>2
         DEF TaskStep, TaskBoot, TaskInstall, TaskFail, TaskReceive, TaskConnect,
             TaskConnectFails, TaskSignal, TaskGive, TaskLoad, TaskRead, TaskAssign,
             TaskDisconnect, TaskCheck, TaskCleanup, TaskExit, hostVars
    <3> QED
      BY <1>5, <3>1
  <2> QED
    BY <2>1, <2>2
<1>9. CASE StickStep
  <2>1. event' = event
    BY <1>9 DEF StickStep, Insert, PullOut, Announce, AnnounceGone, taskVars
  <2>2. ASSUME NEW s \in BOOLEAN, Insert(s) PROVE d \notin plugged' /\ d <= inserted'
    <3>1. /\ inserted' = inserted + 1 /\ plugged' = plugged \cup {inserted + 1}
          /\ events' = events
      BY <2>2 DEF Insert, hostVars
    <3>2. Going(d)
      BY <1>4, <2>1, <3>1 DEF Going, g
    <3> QED
      BY <1>1, <1>2, <3>1, <3>2
  <2>3. ASSUME NEW e \in Devices, PullOut(e) PROVE d \notin plugged' /\ d <= inserted'
    <3>1. plugged' = plugged \ {e} /\ UNCHANGED <<inserted, events>>
      BY <2>3 DEF PullOut, hostVars
    <3> QED
      BY <1>2, <1>4, <2>1, <3>1 DEF Going, g
  <2>4. ASSUME NEW e \in Devices, Announce(e) PROVE d \notin plugged' /\ d <= inserted'
    <3>1. events' = Append(events, Connected(e)) /\ UNCHANGED <<inserted, plugged>>
      BY <2>4 DEF Announce
    <3>2. Connected(e) \in Event /\ g # Connected(e)
      BY <2>4, EventsDiffer DEF Connected, Event, g
    <3>3. Queued(g)' <=> Queued(g)
      BY <1>1, <3>1, <3>2, QueueGrows
    <3> QED
      BY <1>2, <2>1, <3>1, <3>3 DEF Going, g
  <2>5. ASSUME NEW e \in Devices, AnnounceGone(e) PROVE d \notin plugged' /\ d <= inserted'
    <3>1. /\ e \in known \ plugged /\ UNCHANGED <<inserted, plugged>>
          /\ events' = events \/ events' = Append(events, Disconnected(e))
      BY <2>5 DEF AnnounceGone
    <3>2. Tracked(e)
      BY <2>5 DEF SlotInv
    <3>3. e <= inserted
      BY <1>1, <2>5, <3>1, <3>2 DEF Tracked, Devices
    <3>4. CASE d = e
      BY <3>1, <3>3, <3>4
    <3>5. CASE d # e
      <4>1. Disconnected(e) \in Event /\ g # Disconnected(e)
        BY <1>3, <2>5, <3>5 DEF Disconnected, Event, g
      <4>2. Queued(g)' <=> Queued(g)
        BY <1>1, <1>4, <3>1, <4>1, QueueGrows
      <4> QED
        BY <1>2, <2>1, <3>1, <4>2 DEF Going, g
    <3> QED
      BY <3>4, <3>5
  <2> QED
    BY <1>9, <2>2, <2>3, <2>4, <2>5 DEF StickStep
<1> QED
  BY <1>6, <1>7, <1>8, <1>9 DEF Next

(* A slot that First chooses: some slot is the first of a set of slots. *)
LEMMA LeastSlot ==
  ASSUME NEW T, T \subseteq Nat, T # {}
  PROVE  \E i \in T : \A j \in T : i <= j
<1> DEFINE R == OpToRel(<, Nat)
<1>1. IsWellFoundedOn(R, Nat)
  BY NatLessThanWellFounded
<1>2. \A i, j \in Nat : <<i, j>> \in R <=> i < j
  BY DEF OpToRel
<1> HIDE DEF R
<1>3. PICK i \in T : \A j \in T : ~ (<<j, i>> \in R)
  BY <1>1, WFMin
<1>4. \A j \in T : ~ (j < i)
  BY <1>2, <1>3
<1> QED
  BY <1>4

(* A step that assigns nothing, leaves /usb0 alone and starts no further   *)
(* config_load nor ends one.                                               *)
LEMMA LoadInvKept ==
  ASSUME LeftInv, LoadInv, UNCHANGED <<config, mainRead, mainLeft, taskRead, taskLeft, slot>>,
         ~stop' => ~stop,
         slot[1] \in settings' <=> slot[1] \in settings,
         slot[1] \in plugged' => slot[1] \in plugged,
         mainPc' = "assign" => mainPc = "assign",
         mainPc' = "assign" /\ slot[1] \in settings /\ Going(slot[1])' => Going(slot[1]),
         taskPc' = "assign" => taskPc = "assign",
         taskPc \in {"signal", "give", "load"} => taskPc' \in {"signal", "give", "load"},
         taskPc \in {"read", "assign"} => taskPc' \in {"read", "assign"},
         mainPc' \in {"certs", "running"} => mainPc \in {"certs", "running"}
  PROVE  LoadInv'
<1>1. slot'[1] = slot[1] /\ Wanted' = Wanted
  BY DEF Wanted
<1>2. taskPc' = "assign" => taskRead' = slot'[1] /\ slot'[1] \in settings'
  BY <1>1 DEF LoadInv, ReadInv
<1>3. ~stop' /\ mainPc' = "assign" =>
        /\ mainRead' = slot'[1]
        /\ slot'[1] \in settings' /\ ~Going(slot[1])'
  BY <1>1 DEF LoadInv, ReadInv
<1>4. ASSUME ~stop', slot'[1] \in plugged', NEW f \in Fields
      PROVE  /\ TaskBegun(f)' => config'[f] \in {Nothing, Wanted'}
             /\ TaskStored(f)' /\ MainStored(f)' => config'[f] = Wanted'
  <2>1. TaskBegun(f)' => TaskBegun(f)
    BY DEF TaskBegun, LeftInv
  <2>2. TaskStored(f)' => TaskStored(f)
    BY DEF TaskStored, LeftInv
  <2>3. MainStored(f)' => MainStored(f)
    BY DEF MainStored
  <2>4. ~stop /\ slot[1] \in plugged
    BY <1>1, <1>4
  <2> QED
    BY <1>1, <2>1, <2>2, <2>3, <2>4 DEF LoadInv, FieldInv
<1> QED
  BY <1>2, <1>3, <1>4 DEF LoadInv, ReadInv, FieldInv

LEMMA LoadInvStep ==
  TypeOK /\ SlotInv /\ HostInv /\ GoneInv /\ LeftInv /\ LoadInv /\ [Next]_vars => LoadInv'
<1> SUFFICES ASSUME TypeOK, SlotInv, HostInv, GoneInv, LeftInv, LoadInv, [Next]_vars
             PROVE  LoadInv'
  OBVIOUS
<1>1. 1 \in Slots /\ Nothing \notin Devices
  BY StorageAssumption DEF Slots, Devices, Nothing
<1>2. /\ slot \in [Slots -> Devices \cup {Nothing}] /\ slot[1] \in Devices \cup {Nothing}
      /\ plugged \subseteq Devices /\ settings \subseteq Devices
      /\ config \in [Fields -> Devices \cup {Nothing}]
  BY <1>1 DEF TypeOK
<1>3. slot[1] \in plugged => ~Going(slot[1])
  BY <1>2 DEF GoneInv
<1>4. ~DriverRuns => slot[1] = Nothing
  BY <1>1 DEF SlotInv
<1>5. slot[1] \in plugged => SettingsFound = Wanted
  BY DEF SettingsFound, Wanted
<1>6. SettingsFound # Nothing =>
        SettingsFound = slot[1] /\ slot[1] \in plugged /\ slot[1] \in settings
  BY DEF SettingsFound
<1>7. slot[1] \in settings => Wanted = slot[1] /\ slot[1] # Nothing
  BY <1>1, <1>2 DEF Wanted
<1>8. UNCHANGED <<event, events, slot>> => (Going(slot[1])' <=> Going(slot[1]))
  BY DEF Going, Queued
<1>9. UNCHANGED <<slot, settings>> => Wanted' = Wanted /\ slot'[1] = slot[1]
  BY DEF Wanted
<1>10. CASE UNCHANGED vars
  BY <1>8, <1>10, LoadInvKept DEF vars, mainVars, hostVars, taskVars, stickVars
<1>11. CASE MainStep
  <2> USE DEF mainVars, hostVars, taskVars, stickVars
  <2>1. CASE MainStart
    <3>1. taskPc = "none" /\ slot[1] = Nothing
      BY <1>4, <2>1 DEF MainStart, SlotInv, DriverRuns
    <3>2. slot'[1] \notin plugged' /\ taskPc' = "none" /\ mainPc' = "create"
      BY <1>1, <1>2, <2>1, <3>1 DEF MainStart
    <3> QED
      BY <3>2 DEF LoadInv, ReadInv, FieldInv
  <2>2. CASE MainCreate
    <3>1. taskPc = "none"
      BY <2>2 DEF MainCreate, SlotInv
    <3>2. /\ UNCHANGED <<config, mainRead, mainLeft, taskRead, taskLeft, slot,
                         stop, settings, plugged>>
          /\ mainPc' \in {"handle", "load"} /\ taskPc' \in {"none", "boot"}
      BY <2>2, <3>1 DEF MainCreate
    <3> QED
      BY <3>1, <3>2, LoadInvKept
  <2>3. CASE MainHandle \/ MainWoken \/ MainTimeout \/ MainStop \/ MainDrain \/ MainSettle
    <3>1. /\ UNCHANGED <<config, mainRead, mainLeft, taskRead, taskLeft, slot,
                         taskPc, settings, plugged>>
          /\ mainPc' \in {"wait", "load", "stop", "drain", "settle"} /\ (~stop' => ~stop)
      BY <2>3 DEF MainHandle, MainWoken, MainTimeout, MainStop, MainDrain, MainSettle
    <3> QED
      BY <3>1, LoadInvKept
  <2>4. ASSUME NEW f \in Fields, MainLoad(f) PROVE LoadInv'
    <3>1. /\ UNCHANGED <<taskRead, taskLeft, slot, taskPc, settings, plugged, stop>>
          /\ mainPc = "load" /\ mainPc' \in {"load", "read"}
          /\ config' = [config EXCEPT ![f] = Nothing]
      BY <2>4 DEF MainLoad, Store
    <3>2. ASSUME ~stop, slot[1] \in plugged, NEW g \in Fields
          PROVE  /\ TaskBegun(g) => config'[g] \in {Nothing, Wanted}
                 /\ ~MainStored(g)'
      BY <1>2, <3>1, <3>2 DEF LoadInv, FieldInv, MainStored
    <3>3. \A g \in Fields : TaskBegun(g)' <=> TaskBegun(g)
      BY <3>1 DEF TaskBegun
    <3> QED
      BY <1>9, <3>1, <3>2, <3>3 DEF LoadInv, ReadInv, FieldInv
  <2>5. CASE MainRead
    <3>1. /\ UNCHANGED <<config, mainLeft, taskRead, taskLeft, slot, taskPc, settings, plugged,
                         stop, events, event>>
          /\ mainPc = "read" /\ mainRead' = SettingsFound
          /\ mainPc' = IF Mounted /\ SettingsFound # Nothing THEN "assign" ELSE "certs"
      BY <2>5 DEF MainRead
    <3>2. \A f \in Fields : /\ TaskBegun(f)' <=> TaskBegun(f)
                            /\ TaskStored(f)' <=> TaskStored(f)
      BY <3>1 DEF TaskBegun, TaskStored
    <3>3. CASE mainPc' = "assign"
      <4>1. SettingsFound # Nothing
        BY <3>1, <3>3
      <4>2. mainRead' = slot'[1] /\ slot'[1] \in settings' /\ ~Going(slot[1])'
        BY <1>3, <1>6, <1>8, <3>1, <4>1
      <4>3. \A f \in Fields : ~MainStored(f)'
        BY <3>1, <3>3 DEF MainStored, LeftInv
      <4> QED
        BY <1>9, <3>1, <3>2, <3>3, <4>2, <4>3 DEF LoadInv, ReadInv, FieldInv
    <3>4. CASE mainPc' = "certs"
      <4>1. ASSUME ~stop, slot[1] \in plugged, NEW f \in Fields, TaskStored(f)
            PROVE  config[f] = Wanted
        <5>1. Mounted
          BY <1>1, <1>2, <4>1 DEF HostInv, TaskStored
        <5>2. Wanted = Nothing
          BY <1>5, <3>1, <3>4, <4>1, <5>1
        <5>3. TaskBegun(f)
          BY <4>1 DEF TaskBegun, TaskStored
        <5> QED
          BY <4>1, <5>2, <5>3 DEF LoadInv, FieldInv
      <4> QED
        BY <1>9, <3>1, <3>2, <3>4, <4>1 DEF LoadInv, ReadInv, FieldInv
    <3> QED
      BY <3>1, <3>3, <3>4
  <2>6. ASSUME NEW f \in Fields, MainAssign(f) PROVE LoadInv'
    <3>1. /\ UNCHANGED <<mainRead, taskRead, taskLeft, slot, taskPc, settings, plugged, stop,
                         event, events>>
          /\ mainPc = "assign" /\ mainPc' \in {"assign", "certs"}
          /\ mainPc' = IF mainLeft = {f} THEN "certs" ELSE "assign"
          /\ mainLeft' = IF mainLeft = {f} THEN Fields ELSE mainLeft \ {f}
          /\ config' = [config EXCEPT ![f] = mainRead]
      BY <2>6 DEF MainAssign, Store, LeftAfter
    <3>2. ~stop => mainRead = Wanted
      BY <1>7, <3>1 DEF LoadInv, ReadInv
    <3>3. \A g \in Fields : /\ TaskBegun(g)' <=> TaskBegun(g)
                            /\ TaskStored(g)' <=> TaskStored(g)
      BY <3>1 DEF TaskBegun, TaskStored
    <3>4. ASSUME ~stop, slot[1] \in plugged, NEW g \in Fields
          PROVE  /\ TaskBegun(g) => config'[g] \in {Nothing, Wanted}
                 /\ TaskStored(g) /\ MainStored(g)' => config'[g] = Wanted
      <4>1. CASE g = f
        BY <1>2, <3>1, <3>2, <3>4, <4>1
      <4>2. CASE g # f
        <5>1. config'[g] = config[g]
          BY <1>2, <3>1, <4>2
        <5>2. MainStored(g)' => MainStored(g)
          BY <3>1, <4>2 DEF MainStored
        <5> QED
          BY <3>4, <5>1, <5>2 DEF LoadInv, FieldInv
      <4> QED
        BY <4>1, <4>2
    <3>5. FieldInv'
      BY <1>9, <3>1, <3>3, <3>4 DEF FieldInv
    <3>6. ReadInv'
      BY <1>8, <1>9, <3>1 DEF LoadInv, ReadInv
    <3> QED
      BY <3>5, <3>6 DEF LoadInv
  <2>7. CASE MainCerts \/ MainMonitor
    <3>1. /\ UNCHANGED <<config, mainRead, mainLeft, taskRead, taskLeft, slot,
                         taskPc, settings, plugged, stop>>
          /\ mainPc' = "running" /\ mainPc \in {"certs", "running"}
      BY <2>7 DEF MainCerts, MainMonitor
    <3> QED
      BY <3>1, LoadInvKept
  <2> QED
    BY <1>11, <2>1, <2>2, <2>3, <2>4, <2>5, <2>6, <2>7 DEF MainStep
<1>12. CASE TaskStep
  <2> USE DEF mainVars, hostVars, taskVars, stickVars
  <2>1. CASE TaskBoot
    <3>1. slot[1] = Nothing /\ mainPc # "assign"
      BY <1>4, <2>1 DEF TaskBoot, HostInv, DriverRuns
    <3>2. slot'[1] \notin plugged' /\ taskPc' = "install" /\ mainPc' # "assign"
      BY <1>1, <1>2, <2>1, <3>1 DEF TaskBoot
    <3> QED
      BY <3>2 DEF LoadInv, ReadInv, FieldInv
  <2>2. CASE TaskInstall \/ TaskFail \/ TaskConnectFails \/ TaskCheck \/ TaskExit
    <3>1. /\ UNCHANGED <<config, mainRead, mainLeft, taskRead, taskLeft, slot,
                         mainPc, settings, plugged, stop>>
          /\ taskPc \notin {"signal", "give", "load", "read", "assign"} /\ taskPc' # "assign"
      BY <2>2 DEF TaskInstall, TaskFail, TaskConnectFails, TaskCheck, TaskExit
    <3>2. slot[1] \in settings /\ Going(slot[1])' => Going(slot[1])
      <4>1. CASE TaskConnectFails
        <5>1. slot[1] \in settings => Disconnected(slot[1]) # NoEvent
          BY <1>2, EventsDiffer
        <5> QED
          BY <4>1, <5>1 DEF TaskConnectFails, Going, Queued
      <4>2. CASE ~TaskConnectFails
        BY <1>8, <2>2, <4>2 DEF TaskInstall, TaskFail, TaskCheck, TaskExit
      <4> QED
        BY <4>1, <4>2
    <3> QED
      BY <3>1, <3>2, LoadInvKept
  <2>3. CASE TaskReceive
    <3>1. /\ UNCHANGED <<config, mainRead, mainLeft, taskRead, taskLeft, slot,
                         mainPc, settings, plugged, stop>>
          /\ taskPc = "loop" /\ taskPc' \in {"event", "check"}
      BY <2>3 DEF TaskReceive
    <3>2. Going(slot[1])' => Going(slot[1])
      <4>1. CASE events = <<>>
        BY <1>8, <2>3, <4>1 DEF TaskReceive
      <4>2. CASE events # <<>>
        <5>1. event' = Head(events) /\ events' = Tail(events) /\ events \in Seq(Event)
          BY <2>3, <4>2 DEF TaskReceive, TypeOK
        <5> DEFINE g == Disconnected(slot[1])
        <5>2. g' = g
          BY <3>1
        <5> HIDE DEF g
        <5>3. \A m : (Queued(m)' => Queued(m)) /\ (m = Head(events) => Queued(m))
          BY <4>2, <5>1, QueueShrinks
        <5>4. (event' = g \/ Queued(g)') => Queued(g)
          BY <5>1, <5>2, <5>3
        <5> QED
          BY <3>1, <5>2, <5>4 DEF Going, Queued, g
      <4> QED
        BY <4>1, <4>2
    <3> QED
      BY <3>1, <3>2, LoadInvKept
  <2>4. CASE TaskConnect
    <3>1. /\ UNCHANGED <<config, mainRead, mainPc, settings, plugged, stop, events>>
          /\ slot' = [slot EXCEPT ![First(FreeSlots)] = event.device]
          /\ taskPc' = "signal" /\ event' = NoEvent /\ FreeSlots # {}
      BY <2>4 DEF TaskConnect
    <3>2. ASSUME ~stop, mainPc = "assign"
          PROVE  mainRead = slot'[1] /\ slot'[1] \in settings /\ ~Going(slot[1])'
      <4>1. mainRead = slot[1] /\ slot[1] \in settings /\ ~Going(slot[1])
        BY <3>2 DEF LoadInv, ReadInv, FieldInv
      <4>2. First(FreeSlots) # 1
        <5>1. FreeSlots \subseteq Nat /\ FreeSlots # {} /\ 1 \notin FreeSlots
          BY <1>7, <3>1, <4>1 DEF FreeSlots, Slots
        <5>2. \E i \in FreeSlots : \A j \in FreeSlots : i <= j
          BY <5>1, LeastSlot
        <5> QED
          BY <5>1, <5>2 DEF First
      <4>3. slot'[1] = slot[1]
        BY <1>1, <1>2, <3>1, <4>2
      <4>4. Disconnected(slot[1]) # NoEvent
        BY <1>2, <4>1, EventsDiffer
      <4> QED
        BY <3>1, <4>1, <4>3, <4>4 DEF Going, Queued
    <3>3. \A f \in Fields : ~TaskBegun(f)' /\ ~TaskStored(f)'
      BY <3>1 DEF TaskBegun, TaskStored
    <3> QED
      BY <3>1, <3>2, <3>3 DEF LoadInv, ReadInv, FieldInv
  <2>5. CASE TaskSignal \/ TaskGive
    <3>1. /\ UNCHANGED <<config, mainRead, mainLeft, taskRead, taskLeft, slot, mainPc, settings,
                         plugged, stop, event, events>>
          /\ taskPc' \in {"give", "load"} /\ taskPc \in {"signal", "give"}
      BY <2>5 DEF TaskSignal, TaskGive
    <3> QED
      BY <1>8, <3>1, LoadInvKept
  <2>6. ASSUME NEW f \in Fields, TaskLoad(f) PROVE LoadInv'
    <3>1. /\ UNCHANGED <<mainRead, mainLeft, slot, mainPc, settings, plugged, stop, event, events>>
          /\ taskPc = "load" /\ taskPc' \in {"load", "read"}
          /\ taskPc' = IF taskLeft = {f} THEN "read" ELSE "load"
          /\ taskLeft' = IF taskLeft = {f} THEN Fields ELSE taskLeft \ {f}
          /\ config' = [config EXCEPT ![f] = Nothing]
      BY <2>6 DEF TaskLoad, Store, LeftAfter
    <3>2. ASSUME ~stop, slot[1] \in plugged, NEW g \in Fields
          PROVE  /\ TaskBegun(g)' => config'[g] \in {Nothing, Wanted}
                 /\ ~TaskStored(g)'
      <4>1. ~TaskStored(g)'
        BY <3>1 DEF TaskStored
      <4>2. CASE g = f
        BY <1>2, <3>1, <4>1, <4>2
      <4>3. CASE g # f
        <5>1. config'[g] = config[g]
          BY <1>2, <3>1, <4>3
        <5>2. TaskBegun(g)' => TaskBegun(g)
          BY <3>1, <4>3 DEF TaskBegun
        <5> QED
          BY <3>2, <4>1, <5>1, <5>2 DEF LoadInv, FieldInv
      <4> QED
        BY <4>2, <4>3
    <3>3. FieldInv'
      BY <1>9, <3>1, <3>2 DEF FieldInv
    <3>4. ReadInv'
      BY <1>8, <1>9, <3>1 DEF LoadInv, ReadInv
    <3> QED
      BY <3>3, <3>4 DEF LoadInv
  <2>7. CASE TaskRead
    <3>1. /\ UNCHANGED <<config, mainRead, mainLeft, taskLeft, slot, mainPc, settings, plugged,
                         stop, event, events>>
          /\ taskPc = "read" /\ taskRead' = SettingsFound
          /\ taskPc' = IF Mounted /\ SettingsFound # Nothing THEN "assign" ELSE "check"
      BY <2>7 DEF TaskRead
    <3>2. taskPc' = "assign" => taskRead' = slot'[1] /\ slot'[1] \in settings'
      BY <1>6, <3>1
    <3>3. ~stop /\ slot[1] \in plugged => \A f \in Fields : config[f] \in {Nothing, Wanted}
      BY <3>1 DEF LoadInv, FieldInv, TaskBegun
    <3>4. CASE taskPc' = "assign"
      <4>1. \A f \in Fields : ~TaskStored(f)'
        BY <3>1, <3>4 DEF TaskStored, LeftInv
      <4> QED
        BY <1>8, <1>9, <3>1, <3>2, <3>3, <4>1 DEF LoadInv, ReadInv, FieldInv
    <3>5. CASE taskPc' # "assign"
      <4>1. ASSUME ~stop, slot[1] \in plugged PROVE \A f \in Fields : config[f] = Wanted
        <5>1. Mounted
          BY <3>1, <4>1 DEF HostInv
        <5>2. Wanted = Nothing
          BY <1>5, <3>1, <3>5, <4>1, <5>1
        <5> QED
          BY <3>3, <4>1, <5>2
      <4> QED
        BY <1>8, <1>9, <3>1, <3>5, <4>1 DEF LoadInv, ReadInv, FieldInv
    <3> QED
      BY <3>4, <3>5
  <2>8. ASSUME NEW f \in Fields, TaskAssign(f) PROVE LoadInv'
    <3>1. /\ UNCHANGED <<mainRead, mainLeft, taskRead, slot, mainPc, settings, plugged, stop,
                         event, events>>
          /\ taskPc = "assign" /\ taskPc' \in {"assign", "check"}
          /\ taskPc' = IF taskLeft = {f} THEN "check" ELSE "assign"
          /\ taskLeft' = IF taskLeft = {f} THEN Fields ELSE taskLeft \ {f}
          /\ config' = [config EXCEPT ![f] = taskRead]
      BY <2>8 DEF TaskAssign, Store, LeftAfter
    <3>2. taskRead = Wanted
      BY <1>7, <3>1 DEF LoadInv, ReadInv
    <3>3. ASSUME ~stop, slot[1] \in plugged, NEW g \in Fields
          PROVE  /\ config'[g] \in {Nothing, Wanted}
                 /\ TaskStored(g)' /\ MainStored(g) => config'[g] = Wanted
      <4>1. CASE g = f
        BY <1>2, <3>1, <3>2, <4>1
      <4>2. CASE g # f
        <5>1. config'[g] = config[g]
          BY <1>2, <3>1, <4>2
        <5>2. TaskStored(g)' => TaskStored(g)
          BY <3>1, <4>2 DEF TaskStored
        <5>3. TaskBegun(g)
          BY <3>1 DEF TaskBegun
        <5> QED
          BY <3>3, <5>1, <5>2, <5>3 DEF LoadInv, FieldInv
      <4> QED
        BY <4>1, <4>2
    <3>4. \A g \in Fields : MainStored(g)' <=> MainStored(g)
      BY <3>1 DEF MainStored
    <3>5. FieldInv'
      BY <1>9, <3>1, <3>3, <3>4 DEF FieldInv
    <3>6. ReadInv'
      BY <1>8, <1>9, <3>1 DEF LoadInv, ReadInv
    <3> QED
      BY <3>5, <3>6 DEF LoadInv
  <2>9. CASE TaskDisconnect
    <3>1. /\ UNCHANGED <<config, mainRead, mainLeft, taskLeft, mainPc, settings, plugged, stop,
                         events>>
          /\ slot' = [i \in Slots |-> IF i \in SlotsOf(event.device) THEN Nothing ELSE slot[i]]
          /\ taskPc = "event" /\ taskPc' = "check" /\ event' = NoEvent /\ ~event.connected
      BY <2>9 DEF TaskDisconnect
    <3>2. CASE slot'[1] = slot[1]
      <4>1. slot[1] \in settings => Disconnected(slot[1]) # NoEvent
        BY <1>2, EventsDiffer
      <4>2. slot[1] \in settings /\ ~Going(slot[1]) => ~Going(slot[1])'
        BY <3>1, <3>2, <4>1 DEF Going, Queued
      <4>3. Wanted' = Wanted
        BY <3>1, <3>2 DEF Wanted
      <4>4. ReadInv'
        BY <3>1, <3>2, <4>2 DEF LoadInv, ReadInv
      <4>5. \A f \in Fields : TaskBegun(f) /\ TaskStored(f) /\ (MainStored(f)' <=> MainStored(f))
        BY <3>1 DEF TaskBegun, TaskStored, MainStored
      <4>6. FieldInv'
        BY <3>1, <3>2, <4>3, <4>5 DEF LoadInv, FieldInv
      <4> QED
        BY <4>4, <4>6 DEF LoadInv
    <3>3. CASE slot'[1] # slot[1]
      <4>1. 1 \in SlotsOf(event.device) /\ slot'[1] = Nothing
        BY <1>1, <3>1, <3>3
      <4>2. slot[1] = event.device /\ slot[1] \in Devices
        BY <1>2, <3>3, <4>1 DEF SlotsOf
      <4>3. Going(slot[1])
        <5>1. event \in Event
          BY <1>1, <4>2 DEF TypeOK, NoEvent
        <5> QED
          BY <3>1, <4>2, <5>1 DEF Event, Going, Disconnected
      <4>4. ~stop => mainPc # "assign"
        BY <4>3 DEF LoadInv, ReadInv
      <4>5. slot'[1] \notin plugged'
        BY <1>1, <1>2, <3>1, <4>1
      <4> QED
        BY <3>1, <4>4, <4>5 DEF LoadInv, ReadInv, FieldInv
    <3> QED
      BY <3>2, <3>3
  <2>10. CASE TaskCleanup
    <3>1. stop' /\ taskPc' = "exit"
      BY <2>10 DEF TaskCleanup, HostInv
    <3> QED
      BY <3>1 DEF LoadInv, ReadInv, FieldInv
  <2> QED
    BY <1>12, <2>1, <2>2, <2>3, <2>4, <2>5, <2>6, <2>7, <2>8, <2>9, <2>10 DEF TaskStep
<1>13. CASE StickStep
  <2>1. UNCHANGED <<config, mainRead, mainLeft, taskRead, taskLeft, slot, mainPc, taskPc, stop,
                    event>>
    BY <1>13 DEF StickStep, Insert, PullOut, Announce, AnnounceGone, mainVars, hostVars, taskVars
  <2>2. SUFFICES /\ slot[1] \in settings' <=> slot[1] \in settings
                 /\ slot[1] \in plugged' => slot[1] \in plugged
                 /\ mainPc = "assign" /\ slot[1] \in settings /\ Going(slot[1])' => Going(slot[1])
    BY <2>1, LoadInvKept
  <2>3. ASSUME NEW s \in BOOLEAN, Insert(s)
        PROVE  /\ slot[1] \in settings' <=> slot[1] \in settings
               /\ slot[1] \in plugged' => slot[1] \in plugged
               /\ Going(slot[1])' => Going(slot[1])
    <3>1. /\ plugged' = plugged \cup {inserted + 1} /\ events' = events
          /\ settings' \in {settings, settings \cup {inserted + 1}}
          /\ inserted \in Nat /\ inserted + 1 \in Devices
      BY <2>3, StorageAssumption DEF Insert, hostVars, TypeOK, Devices
    <3>2. slot[1] # inserted + 1
      <4>1. CASE slot[1] = inserted + 1
        <5>1. InSlot(inserted + 1) /\ Tracked(inserted + 1)
          BY <1>1, <3>1, <4>1 DEF InSlot, SlotInv
        <5> QED
          BY <3>1, <5>1 DEF Tracked
      <4> QED
        BY <4>1
    <3> QED
      BY <1>8, <2>1, <3>1, <3>2
  <2>4. ASSUME NEW d \in Devices, PullOut(d)
        PROVE  /\ UNCHANGED settings /\ plugged' \subseteq plugged
               /\ Going(slot[1])' => Going(slot[1])
    BY <1>8, <2>1, <2>4 DEF PullOut, hostVars
  <2>5. ASSUME NEW d \in Devices, Announce(d)
        PROVE  /\ UNCHANGED <<settings, plugged>>
               /\ slot[1] \in settings /\ Going(slot[1])' => Going(slot[1])
    <3>1. /\ UNCHANGED <<settings, plugged>> /\ events' = Append(events, Connected(d))
          /\ events \in Seq(Event) /\ Connected(d) \in Event
      BY <2>5 DEF Announce, TypeOK, Connected, Event
    <3> DEFINE g == Disconnected(slot[1])
    <3>2. slot[1] \in settings => g # Connected(d)
      BY <1>2, <2>5, EventsDiffer
    <3>3. g' = g
      BY <2>1
    <3> HIDE DEF g
    <3>4. \A m : Queued(m)' <=> Queued(m) \/ m = Connected(d)
      BY <3>1, QueueGrows
    <3>5. slot[1] \in settings /\ (event' = g \/ Queued(g)') => event = g \/ Queued(g)
      BY <2>1, <3>2, <3>3, <3>4
    <3> QED
      BY <3>1, <3>3, <3>5 DEF Going, Queued, g
  <2>6. ASSUME NEW d \in Devices, AnnounceGone(d)
        PROVE  UNCHANGED <<settings, plugged>> /\ mainPc # "assign"
    BY <2>6 DEF AnnounceGone
  <2> QED
    BY <1>13, <2>3, <2>4, <2>5, <2>6 DEF StickStep
<1> QED
  BY <1>10, <1>11, <1>12, <1>13 DEF Next

(* The settings are those of the stick at /usb0 (ConfigFollowsStick) once  *)
(* no config_load runs and every event was handled: neither the boot's     *)
(* call nor the host task's, which run in parallel, leaves the other's     *)
(* defaults behind, and neither assigns what it read from a stick that has *)
(* left /usb0 (config_load, called from app_main and from                  *)
(* handle_device_connected), however many sticks come and go.              *)
THEOREM ConfigIsTheSticks == Spec => []ConfigFollowsStick
<1>1. ASSUME TypeOK, SlotInv, LoadInv PROVE ConfigFollowsStick
  <2>1. SUFFICES ASSUME Quiet, slot[1] # Nothing PROVE config = From(SettingsFound)
    BY DEF ConfigFollowsStick
  <2>2. 1 \in Slots /\ slot[1] \in Devices
    BY <1>1, <2>1, StorageAssumption DEF TypeOK, Slots
  <2>3. event = NoEvent /\ events = <<>> /\ known = plugged
    BY <1>1, <2>1 DEF SlotInv, Quiet
  <2>4. ~Going(slot[1])
    BY <2>2, <2>3, EventsDiffer DEF Going, Queued
  <2>5. Tracked(slot[1]) /\ InSlot(slot[1])
    BY <1>1, <2>2 DEF SlotInv, InSlot
  <2>6. slot[1] \in plugged
    BY <2>3, <2>4, <2>5 DEF Tracked
  <2>7. \A f \in Fields : config[f] = Wanted
    BY <1>1, <2>1, <2>6 DEF LoadInv, FieldInv, TaskStored, MainStored, Quiet
  <2>8. config \in [Fields -> Devices \cup {Nothing}] /\ Wanted = SettingsFound
    BY <1>1, <2>6 DEF TypeOK, Wanted, SettingsFound
  <2> QED
    BY <2>7, <2>8 DEF From
<1> QED
  BY <1>1, TypeInit, TypeStep, SlotInvInit, SlotInvStep, FollowInit, HostInvStep, GoneInvStep,
     LeftInvStep, LoadInvStep, PTL DEF Spec

=============================================================================
