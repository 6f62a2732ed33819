----------------------------- MODULE UsbStorage -----------------------------
(***************************************************************************)
(* The USB stick and what is loaded from it: the host task, its event      *)
(* queue and its device slots (src/main/usb_host/usb_host_msc.c), the boot *)
(* sequence of app_main that starts it, waits for it and gives it up       *)
(* (src/main/main.c), and config_load, which both of them call             *)
(* (src/main/config/config.c).                                             *)
(*                                                                         *)
(* A device is one insertion of a stick, so a stick that comes back is a   *)
(* new device; what is loaded from a stick is named after the device.  The *)
(* user and the MSC driver of ESP-IDF are external: the driver announces a *)
(* device it sees, and announces that it is gone if it was installed.      *)
(* config_save, which writes the stick, is WebSave of BarrierClient.       *)
(***************************************************************************)
EXTENDS Naturals, Sequences, SequencesExt, FiniteSets

CONSTANTS
    MaxInserts,    \* bound on the number of insertions
    MaxDevices,    \* MAX_MSC_DEVICES
    QueueDepth,    \* the length of s_event_queue
    Fields,        \* what config_load stores one after the other
    Faults         \* what may fail, see FaultKinds

FaultKinds == {"create", "install", "mount"}   \* the task, the USB host, a device

ASSUME StorageAssumption ==
    /\ MaxInserts \in Nat /\ MaxDevices \in Nat \ {0} /\ QueueDepth \in Nat \ {0}
    /\ Fields # {} /\ Faults \subseteq FaultKinds

Devices == 1..MaxInserts
Slots == 1..MaxDevices    \* slot i is mounted at /usb<i - 1>
Nothing == 0              \* no device, and the defaults

VARIABLES
    (* the boot sequence, which becomes the monitor loop *)
    mainPc,
    mainRead,     \* what its config_load has read from the stick
    mainLeft,     \* the fields it is still to store
    certs,        \* the device the certificates were loaded from
    led,          \* what the status LED shows of the stick
    (* shared *)
    state,        \* s_state
    stop,         \* s_stop
    mountedSem,   \* s_mounted_sem
    taskHandle,   \* s_task_handle is not NULL
    slot,         \* s_devices
    events,       \* s_event_queue
    config,       \* the device a field of s_config is from, Nothing: the defaults
    (* the host task *)
    taskPc, event,
    taskRead, taskLeft,
    (* the sticks and the driver *)
    inserted,     \* the number of insertions so far
    plugged,      \* the devices that are in
    settings,     \* those that have a settings.json that parses
    known         \* those the driver has announced

mainVars == <<mainPc, mainRead, mainLeft, certs, led>>
hostVars == <<state, stop, mountedSem, taskHandle, slot, events>>
taskVars == <<taskPc, event, taskRead, taskLeft>>
stickVars == <<inserted, plugged, settings, known>>
vars == <<mainVars, hostVars, config, taskVars, stickVars>>

Connected(d) == [device |-> d, connected |-> TRUE]
Disconnected(d) == [device |-> d, connected |-> FALSE]
Event == [device : Devices, connected : BOOLEAN]
NoEvent == [device |-> Nothing, connected |-> FALSE]

States == {"INACTIVE", "ACTIVATING", "MOUNTED", "ERROR"}

MainPcs == {"start", "create", "handle", "wait", "stop", "drain", "settle",
            "load", "read", "assign", "certs", "running"}
TaskPcs == {"none", "boot", "install", "fail", "loop", "event", "check", "signal",
            "give", "load", "read", "assign", "cleanup", "exit", "dead"}

(* A configuration that comes from one device, or is the defaults. *)
From(d) == [f \in Fields |-> d]

(* usb_host_msc_init has run; a stick may be in. *)
Init ==
    /\ mainPc = "start" /\ mainRead = Nothing /\ mainLeft = Fields
    /\ certs = Nothing /\ led = FALSE
    /\ state = "INACTIVE" /\ stop = FALSE /\ mountedSem = FALSE /\ taskHandle = FALSE
    /\ slot = [i \in Slots |-> Nothing]
    /\ events = <<>>
    /\ config = From(Nothing)
    /\ taskPc = "none" /\ event = NoEvent /\ taskRead = Nothing /\ taskLeft = Fields
    /\ inserted = 0 /\ plugged = {} /\ settings = {} /\ known = {}

Mounted == state = "MOUNTED"       \* usb_host_msc_is_mounted

(* What opening /usb0/settings.json and parsing it gives. *)
SettingsFound ==
    IF slot[1] \in plugged \cap settings THEN slot[1] ELSE Nothing

-----------------------------------------------------------------------------
(* app_main: usb_host_msc_start ...                                        *)

MainStart ==
    /\ mainPc = "start"
    /\ state' = "ACTIVATING" /\ stop' = FALSE /\ mountedSem' = FALSE
    /\ mainPc' = "create"
    /\ UNCHANGED <<mainRead, mainLeft, certs, led, taskHandle, slot, events, config,
                   taskVars, stickVars>>

(* xTaskCreate: the task runs at once, before its handle is stored. *)
MainCreate ==
    /\ mainPc = "create"
    /\ \/ taskPc' = "boot" /\ mainPc' = "handle" /\ UNCHANGED state
       \/ "create" \in Faults /\ state' = "ERROR" /\ mainPc' = "load" /\ UNCHANGED taskPc
    /\ UNCHANGED <<mainRead, mainLeft, certs, led, stop, mountedSem, taskHandle, slot,
                   events, config, event, taskRead, taskLeft, stickVars>>

MainHandle ==
    /\ mainPc = "handle"
    /\ taskHandle' = TRUE
    /\ mainPc' = "wait"
    /\ UNCHANGED <<mainRead, mainLeft, certs, led, state, stop, mountedSem, slot,
                   events, config, taskVars, stickVars>>

(* The semaphore comes within ACTIVATE_TIMEOUT_MS: mounted, or an error. *)
MainWoken ==
    /\ mainPc = "wait" /\ mountedSem
    /\ mountedSem' = FALSE
    /\ mainPc' = "load"
    /\ UNCHANGED <<mainRead, mainLeft, certs, led, state, stop, taskHandle, slot,
                   events, config, taskVars, stickVars>>

(* It does not.  (Within 10 s the task gets past its first statement.) *)
MainTimeout ==
    /\ mainPc = "wait" /\ ~mountedSem
    /\ taskPc # "boot"
    /\ mainPc' = "stop"
    /\ UNCHANGED <<mainRead, mainLeft, certs, led, hostVars, config, taskVars,
                   stickVars>>

MainStop ==
    /\ mainPc = "stop"
    /\ stop' = TRUE
    /\ mainPc' = "drain"
    /\ UNCHANGED <<mainRead, mainLeft, certs, led, state, mountedSem, taskHandle, slot,
                   events, config, taskVars, stickVars>>

(* The wait for the exiting task, or for a mount that came too late. *)
MainDrain ==
    /\ mainPc = "drain" /\ mountedSem
    /\ mountedSem' = FALSE
    /\ mainPc' = "settle"
    /\ UNCHANGED <<mainRead, mainLeft, certs, led, state, stop, taskHandle, slot,
                   events, config, taskVars, stickVars>>

MainSettle ==
    /\ mainPc = "settle"
    /\ state' = "INACTIVE"
    /\ mainPc' = "load"
    /\ UNCHANGED <<mainRead, mainLeft, certs, led, stop, mountedSem, taskHandle, slot,
                   events, config, taskVars, stickVars>>

(* A store of config_load to s_config.  (The compiler may put those that   *)
(* follow each other in any order.)                                        *)
Store(f, d) == config' = [config EXCEPT ![f] = d]

(* What is left to store after field f: when it was the last one, the next *)
(* round of stores begins with all of them.                                *)
LeftAfter(f, left) == IF left = {f} THEN Fields ELSE left \ {f}

(* ... config_load: the defaults first, field by field ... *)
MainLoad(f) ==
    /\ mainPc = "load" /\ f \in mainLeft
    /\ Store(f, Nothing)
    /\ mainLeft' = LeftAfter(f, mainLeft)
    /\ mainPc' = IF mainLeft = {f} THEN "read" ELSE "load"
    /\ UNCHANGED <<mainRead, certs, led, hostVars, taskVars, stickVars>>

(* ... then the file, if a stick is mounted and has one ... *)
MainRead ==
    /\ mainPc = "read"
    /\ mainRead' = SettingsFound
    /\ mainPc' = IF Mounted /\ SettingsFound # Nothing THEN "assign" ELSE "certs"
    /\ UNCHANGED <<mainLeft, certs, led, hostVars, config, taskVars, stickVars>>

(* ... whose settings replace them ... *)
MainAssign(f) ==
    /\ mainPc = "assign" /\ f \in mainLeft
    /\ Store(f, mainRead)
    /\ mainLeft' = LeftAfter(f, mainLeft)
    /\ mainPc' = IF mainLeft = {f} THEN "certs" ELSE "assign"
    /\ UNCHANGED <<mainRead, certs, led, hostVars, taskVars, stickVars>>

(* ... config_load_certs, if a stick is mounted ... *)
MainCerts ==
    /\ mainPc = "certs"
    /\ certs' = IF Mounted /\ slot[1] \in plugged THEN slot[1] ELSE Nothing
    /\ mainPc' = "running"
    /\ UNCHANGED <<mainRead, mainLeft, led, hostVars, config, taskVars, stickVars>>

(* ... and, after everything else has been started, the monitor loop. *)
MainMonitor ==
    /\ mainPc = "running"
    /\ led' = Mounted
    /\ UNCHANGED <<mainPc, mainRead, mainLeft, certs, hostVars, config, taskVars,
                   stickVars>>

MainStep ==
    \/ MainStart \/ MainCreate \/ MainHandle
    \/ MainWoken \/ MainTimeout \/ MainStop \/ MainDrain \/ MainSettle
    \/ (\E f \in Fields : MainLoad(f) \/ MainAssign(f))
    \/ MainRead \/ MainCerts \/ MainMonitor

-----------------------------------------------------------------------------
(* usb_host_task.                                                          *)

TaskBoot ==
    /\ taskPc = "boot"
    /\ stop' = FALSE
    /\ taskPc' = "install"
    /\ UNCHANGED <<mainVars, state, mountedSem, taskHandle, slot, events, config, event,
                   taskRead, taskLeft, stickVars>>

(* usb_host_install and msc_host_install *)
TaskInstall ==
    /\ taskPc = "install"
    /\ taskPc' \in {"loop"} \cup (IF "install" \in Faults THEN {"fail"} ELSE {})
    /\ UNCHANGED <<mainVars, hostVars, config, event, taskRead, taskLeft, stickVars>>

TaskFail ==
    /\ taskPc = "fail"
    /\ taskHandle' = FALSE /\ state' = "ERROR" /\ mountedSem' = TRUE
    /\ taskPc' = "dead"
    /\ UNCHANGED <<mainVars, stop, slot, events, config, event, taskRead, taskLeft,
                   stickVars>>

(* Mutant of TaskReceive: a message is handled even when none came. *)
TaskReceiveUnchecked ==
    /\ taskPc = "loop"
    /\ taskPc' = "event"
    /\ IF events # <<>>
       THEN event' = Head(events) /\ events' = Tail(events)
       ELSE event' = Connected(Nothing) /\ UNCHANGED events
    /\ UNCHANGED <<mainVars, state, stop, mountedSem, taskHandle, slot, config,
                   taskRead, taskLeft, stickVars>>

(* The loop: the next event, or none for 100 ms ... *)
TaskReceive ==
    /\ taskPc = "loop"
    /\ IF events # <<>>
       THEN event' = Head(events) /\ events' = Tail(events) /\ taskPc' = "event"
       ELSE taskPc' = "check" /\ UNCHANGED <<event, events>>
    /\ UNCHANGED <<mainVars, state, stop, mountedSem, taskHandle, slot, config,
                   taskRead, taskLeft, stickVars>>

FreeSlots == {i \in Slots : slot[i] = Nothing}
SlotsOf(d) == {i \in Slots : slot[i] = d}
First(S) == CHOOSE i \in S : \A j \in S : i <= j

(* handle_device_connected finds no free slot, or cannot install the       *)
(* device or mount it (always if it is gone): nothing changes.             *)
TaskConnectFails ==
    /\ taskPc = "event" /\ event.connected
    /\ FreeSlots = {} \/ event.device \notin plugged \/ "mount" \in Faults
    /\ taskPc' = "check" /\ event' = NoEvent
    /\ UNCHANGED <<mainVars, hostVars, config, taskRead, taskLeft, stickVars>>

(* It mounts it in the first free slot ... *)
TaskConnect ==
    /\ taskPc = "event" /\ event.connected
    /\ FreeSlots # {} /\ event.device \in plugged
    /\ slot' = [slot EXCEPT ![First(FreeSlots)] = event.device]
    /\ taskPc' = "signal" /\ event' = NoEvent
    /\ UNCHANGED <<mainVars, state, stop, mountedSem, taskHandle, events, config,
                   taskRead, taskLeft, stickVars>>

(* Mutant of TaskSignal: config_load belongs to the first mount only. *)
TaskSignalLoadsOnce ==
    /\ taskPc = "signal"
    /\ IF state = "ACTIVATING"
       THEN state' = "MOUNTED" /\ taskPc' = "give"
       ELSE taskPc' = "check" /\ UNCHANGED state
    /\ UNCHANGED <<mainVars, stop, mountedSem, taskHandle, slot, events, config, event,
                   taskRead, taskLeft, stickVars>>

(* ... reports the first mount to the starter, the state first ... *)
TaskSignal ==
    /\ taskPc = "signal"
    /\ IF state = "ACTIVATING"
       THEN state' = "MOUNTED" /\ taskPc' = "give"
       ELSE taskPc' = "load" /\ UNCHANGED state
    /\ UNCHANGED <<mainVars, stop, mountedSem, taskHandle, slot, events, config, event,
                   taskRead, taskLeft, stickVars>>

TaskGive ==
    /\ taskPc = "give"
    /\ mountedSem' = TRUE
    /\ taskPc' = "load"
    /\ UNCHANGED <<mainVars, state, stop, taskHandle, slot, events, config, event,
                   taskRead, taskLeft, stickVars>>

(* ... and calls config_load. *)
TaskLoad(f) ==
    /\ taskPc = "load" /\ f \in taskLeft
    /\ Store(f, Nothing)
    /\ taskLeft' = LeftAfter(f, taskLeft)
    /\ taskPc' = IF taskLeft = {f} THEN "read" ELSE "load"
    /\ UNCHANGED <<mainVars, hostVars, event, taskRead, stickVars>>

TaskRead ==
    /\ taskPc = "read"
    /\ taskRead' = SettingsFound
    /\ taskPc' = IF Mounted /\ SettingsFound # Nothing THEN "assign" ELSE "check"
    /\ UNCHANGED <<mainVars, hostVars, config, event, taskLeft, stickVars>>

TaskAssign(f) ==
    /\ taskPc = "assign" /\ f \in taskLeft
    /\ Store(f, taskRead)
    /\ taskLeft' = LeftAfter(f, taskLeft)
    /\ taskPc' = IF taskLeft = {f} THEN "check" ELSE "assign"
    /\ UNCHANGED <<mainVars, hostVars, event, taskRead, stickVars>>

(* Mutant of TaskDisconnect: the first device that is mounted goes. *)
TaskDisconnectFirst ==
    /\ taskPc = "event" /\ ~event.connected
    /\ slot' = [slot EXCEPT ![First(Slots \ FreeSlots)] = Nothing]
    /\ taskPc' = "check" /\ event' = NoEvent
    /\ UNCHANGED <<mainVars, state, stop, mountedSem, taskHandle, events, config,
                   taskRead, taskLeft, stickVars>>

(* handle_device_disconnected: the slot of the handle becomes free, if     *)
(* there is one; s_state stays as it is.                                   *)
TaskDisconnect ==
    /\ taskPc = "event" /\ ~event.connected
    /\ slot' = [i \in Slots |-> IF i \in SlotsOf(event.device) THEN Nothing ELSE slot[i]]
    /\ taskPc' = "check" /\ event' = NoEvent
    /\ UNCHANGED <<mainVars, state, stop, mountedSem, taskHandle, events, config,
                   taskRead, taskLeft, stickVars>>

(* ... until it is told to stop. *)
TaskCheck ==
    /\ taskPc = "check"
    /\ taskPc' = IF stop THEN "cleanup" ELSE "loop"
    /\ UNCHANGED <<mainVars, hostVars, config, event, taskRead, taskLeft, stickVars>>

(* Then it releases every device ... *)
TaskCleanup ==
    /\ taskPc = "cleanup"
    /\ slot' = [i \in Slots |-> Nothing]
    /\ taskPc' = "exit"
    /\ UNCHANGED <<mainVars, state, stop, mountedSem, taskHandle, events, config, event,
                   taskRead, taskLeft, stickVars>>

(* Mutant of TaskExit: the starter is not told. *)
TaskExitSilently ==
    /\ taskPc = "exit"
    /\ taskHandle' = FALSE
    /\ taskPc' = "dead"
    /\ UNCHANGED <<mainVars, state, stop, mountedSem, slot, events, config, event,
                   taskRead, taskLeft, stickVars>>

(* ... and wakes the starter, whatever it waits for. *)
TaskExit ==
    /\ taskPc = "exit"
    /\ taskHandle' = FALSE /\ mountedSem' = TRUE
    /\ taskPc' = "dead"
    /\ UNCHANGED <<mainVars, state, stop, slot, events, config, event, taskRead,
                   taskLeft, stickVars>>

TaskStep ==
    \/ TaskBoot \/ TaskInstall \/ TaskFail
    \/ TaskReceive \/ TaskConnect \/ TaskConnectFails
    \/ TaskSignal \/ TaskGive \/ TaskRead
    \/ (\E f \in Fields : TaskLoad(f) \/ TaskAssign(f))
    \/ TaskDisconnect \/ TaskCheck \/ TaskCleanup \/ TaskExit

-----------------------------------------------------------------------------
(* The user and the driver (external).                                     *)

(* A stick goes in, with or without settings.json. *)
Insert(hasSettings) ==
    /\ inserted < MaxInserts
    /\ inserted' = inserted + 1
    /\ plugged' = plugged \cup {inserted'}
    /\ settings' = IF hasSettings THEN settings \cup {inserted'} ELSE settings
    /\ UNCHANGED <<mainVars, hostVars, config, taskVars, known>>

PullOut(d) ==
    /\ d \in plugged
    /\ plugged' = plugged \ {d}
    /\ UNCHANGED <<mainVars, hostVars, config, taskVars, inserted, settings, known>>

DriverRuns == taskPc \notin {"none", "boot", "install", "fail", "exit", "dead"}

(* msc_event_cb, MSC_DEVICE_CONNECTED; it waits while the queue is full. *)
Announce(d) ==
    /\ DriverRuns /\ d \in plugged \ known /\ Len(events) < QueueDepth
    /\ events' = Append(events, Connected(d))
    /\ known' = known \cup {d}
    /\ UNCHANGED <<mainVars, state, stop, mountedSem, taskHandle, slot, config,
                   taskVars, inserted, plugged, settings>>

(* The driver notices that a device is gone and, if it is an installed     *)
(* one, calls msc_event_cb with MSC_DEVICE_DISCONNECTED.  This takes it    *)
(* longer than the stores that end the config_load of the boot.            *)
AnnounceGone(d) ==
    /\ DriverRuns /\ d \in known \ plugged /\ mainPc # "assign"
    /\ IF SlotsOf(d) = {}
       THEN UNCHANGED events
       ELSE Len(events) < QueueDepth /\ events' = Append(events, Disconnected(d))
    /\ known' = known \ {d}
    /\ UNCHANGED <<mainVars, state, stop, mountedSem, taskHandle, slot, config,
                   taskVars, inserted, plugged, settings>>

StickStep ==
    \/ \E hasSettings \in BOOLEAN : Insert(hasSettings)
    \/ \E d \in Devices : PullOut(d) \/ Announce(d) \/ AnnounceGone(d)

Next == MainStep \/ TaskStep \/ StickStep

Spec == Init /\ [][Next]_vars

(* Fairness: the tasks run, and the driver sees what is plugged in.  The   *)
(* user need not do anything.                                              *)
FairSpec ==
    /\ Spec
    /\ WF_vars(MainStep) /\ WF_vars(TaskStep)
    /\ WF_vars(\E d \in Devices : Announce(d) \/ AnnounceGone(d))

-----------------------------------------------------------------------------
(* The properties.                                                         *)

(* Every variable holds what its C type and its use allow. *)
TypeOK ==
    /\ mainPc \in MainPcs /\ mainRead \in Devices \cup {Nothing}
    /\ mainLeft \subseteq Fields /\ taskLeft \subseteq Fields
    /\ certs \in Devices \cup {Nothing} /\ led \in BOOLEAN
    /\ state \in States /\ stop \in BOOLEAN /\ mountedSem \in BOOLEAN /\ taskHandle \in BOOLEAN
    /\ slot \in [Slots -> Devices \cup {Nothing}]
    /\ events \in Seq(Event) /\ Len(events) <= QueueDepth
    /\ config \in [Fields -> Devices \cup {Nothing}]
    /\ taskPc \in TaskPcs /\ event \in Event \cup {NoEvent}
    /\ taskRead \in Devices \cup {Nothing}
    /\ inserted \in 0..MaxInserts
    /\ plugged \subseteq Devices /\ settings \subseteq Devices /\ known \subseteq Devices

(* No slot leaks: a slot holds a device that no other slot holds, and one  *)
(* whose device was pulled out will be freed, because the driver has yet   *)
(* to notice it or its event is on its way, whatever the order in which    *)
(* devices come, go, fail to mount and are handled; the task leaves none   *)
(* behind.                                                                 *)
SlotsSound ==
    /\ \A i \in Slots : slot[i] # Nothing =>
        /\ SlotsOf(slot[i]) = {i}
        /\ \/ slot[i] \in plugged \cup known
           \/ Disconnected(slot[i]) \in ToSet(events) \cup {event}
    /\ taskPc \in {"exit", "dead"} => slot = [i \in Slots |-> Nothing]

(* Nobody is loading or about to, and every event has been handled. *)
Quiet ==
    /\ mainPc = "running" /\ taskPc = "loop" /\ ~stop
    /\ events = <<>> /\ known = plugged

(* The two config_load calls of the boot, which run in parallel, and those *)
(* of later insertions end with the settings of the stick at /usb0: none   *)
(* leaves a field at the defaults of another behind, or at an earlier      *)
(* stick's.                                                                *)
ConfigFollowsStick == Quiet /\ slot[1] # Nothing => config = From(SettingsFound)

(* The boot never hangs in usb_host_msc_start: with a stick, without one,  *)
(* with one that comes the moment the wait ends or fails to mount, and     *)
(* when the host cannot be installed ("always signal the starter").        *)
StartReturns == <>(mainPc = "running")

-----------------------------------------------------------------------------
(* What the README says, and the code does not do.                         *)

(* "The config is automatically reloaded when a USB stick is inserted",    *)
(* whenever that is.  (Read for a device with one stick.)                  *)
InsertedStickIsLoaded ==
    \A d \in Devices :
        d \in plugged \cap settings ~> (config = From(d) \/ d \notin plugged)
=============================================================================
