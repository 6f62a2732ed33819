------------------------------- MODULE UsbHid -------------------------------
(***************************************************************************)
(* The USB side of the device: the callbacks and flags of                  *)
(* src/main/tusb/tusb_device.c, the one HID IN endpoint that the keyboard  *)
(* and the mouse share, and the host.  TinyUSB and the host are not in     *)
(* src/; they are modelled from how src/ uses them:                        *)
(*   - tud_hid_report accepts a report iff the device is mounted and the   *)
(*     endpoint is free, whether or not the bus is suspended;              *)
(*   - the transfer completes when the host polls, which it does not do    *)
(*     while the bus is suspended; the endpoint is free BEFORE             *)
(*     tud_hid_report_complete_cb runs;                                    *)
(*   - unplugging drops the report in flight and calls nothing;            *)
(*   - tud_remote_wakeup signals the host iff the bus is suspended and the *)
(*     host has armed remote wake-up.                                      *)
(* The TinyUSB task runs the callbacks one after another; usbPc is where   *)
(* it stands.                                                              *)
(***************************************************************************)
EXTENDS Integers

CONSTANTS
    NoReport,     \* the value of "no report"
    NoPos,        \* the pointer position before the host got any
    Faults,       \* what the bus and the network may do, see FaultKinds
    WakeupModes   \* the values remote_wakeup_en may have on a suspend

FaultKinds == {"unplug", "suspend", "disconnect", "full"}

ASSUME UsbAssumption ==
    /\ Faults \subseteq FaultKinds
    /\ WakeupModes \subseteq BOOLEAN

VARIABLES
    mounted,      \* tud_mounted()
    endpoint,     \* the report in flight, or NoReport
    usbPc,        \* what the TinyUSB task does next
    suspended,    \* the bus, and TinyUSB's own view of it, is suspended
    hostEn,       \* the host armed remote wake-up (TinyUSB's own copy)
    gSuspended,   \* g_suspended
    wakeupEn,     \* g_remote_wakeup_en
    pendingSend,  \* g_pending_send
    waking,       \* a wake-up signal is out and the host has not resumed yet
    notified,     \* the notification of the HID task is pending
    host          \* what the host believes of keyboard and mouse

powerVars == <<suspended, hostEn, gSuspended, wakeupEn, waking>>
usbVars == <<mounted, endpoint, usbPc, powerVars, pendingSend, notified, host>>

UsbPcs == {"idle", "complete", "suspend_cb", "suspend_check", "resume_cb"}

HostReleased == [keys |-> {}, mods |-> {}, buttons |-> {}, wheel |-> 0, pos |-> NoPos]

(* The flags as they are initialised.  Where the cable can come out it is  *)
(* perhaps not in yet; otherwise the host has enumerated the device before *)
(* the network task issues its first command.                              *)
UsbInit ==
    /\ mounted \in (IF "unplug" \in Faults THEN BOOLEAN ELSE {TRUE})
    /\ endpoint = NoReport
    /\ usbPc = "idle"
    /\ suspended = FALSE
    /\ hostEn = TRUE
    /\ gSuspended = TRUE
    /\ wakeupEn = TRUE
    /\ pendingSend = FALSE
    /\ waking = FALSE
    /\ notified = FALSE
    /\ host = HostReleased

(* tud_hid_report would return true. *)
Accepts == mounted /\ endpoint = NoReport

(* tud_remote_wakeup *)
RemoteWakeup == waking' = (waking \/ (suspended /\ hostEn))

(* tusb_try_remote_wakeup, called with g_pending_send already set. *)
TryRemoteWakeup ==
    IF gSuspended /\ wakeupEn /\ pendingSend
    THEN RemoteWakeup
    ELSE UNCHANGED waking

(* How the host takes a report: a keyboard report replaces keys and        *)
(* modifiers, a mouse report replaces buttons and position and adds to     *)
(* the wheel.                                                              *)
HostTakes(h, r) ==
    IF r.kind = "kb"
    THEN [h EXCEPT !.keys = r.keys, !.mods = r.mods]
    ELSE [h EXCEPT !.buttons = r.buttons, !.pos = r.pos, !.wheel = @ + r.wheel]

-----------------------------------------------------------------------------
(* The host enumerates the device.  There is no mount callback in src/. *)
Plug ==
    /\ usbPc = "idle"
    /\ ~mounted
    /\ mounted' = TRUE
    /\ UNCHANGED <<endpoint, usbPc, powerVars, pendingSend, notified, host>>

(* Cable out, or a bus reset: the report in flight is gone, the host lets  *)
(* go of every key and button of the device, no callback runs and the      *)
(* flags of tusb_device.c stay as they are.                                *)
Unplug ==
    /\ "unplug" \in Faults
    /\ usbPc = "idle"
    /\ mounted
    /\ mounted' = FALSE
    /\ endpoint' = NoReport
    /\ suspended' = FALSE
    /\ waking' = FALSE
    /\ host' = [host EXCEPT !.keys = {}, !.mods = {}, !.buttons = {}]
    /\ UNCHANGED <<usbPc, hostEn, gSuspended, wakeupEn, pendingSend, notified>>

(* The host polls and takes the report; the endpoint is free at once. *)
Complete ==
    /\ usbPc = "idle"
    /\ mounted /\ ~suspended
    /\ endpoint # NoReport
    /\ host' = HostTakes(host, endpoint)
    /\ endpoint' = NoReport
    /\ usbPc' = "complete"
    /\ UNCHANGED <<mounted, powerVars, pendingSend, notified>>

(* Mutant of CompleteCb: the callback does not notify. *)
CompleteCbSilent ==
    /\ usbPc = "complete"
    /\ usbPc' = "idle"
    /\ UNCHANGED <<mounted, endpoint, powerVars, pendingSend, notified, host>>

(* tud_hid_report_complete_cb: wake the HID task. *)
CompleteCb ==
    /\ usbPc = "complete"
    /\ notified' = TRUE
    /\ usbPc' = "idle"
    /\ UNCHANGED <<mounted, endpoint, powerVars, pendingSend, host>>

(* The bus goes idle and TinyUSB is about to call tud_suspend_cb. *)
Suspend(en) ==
    /\ "suspend" \in Faults
    /\ usbPc = "idle"
    /\ mounted /\ ~suspended
    /\ suspended' = TRUE
    /\ hostEn' = en
    /\ usbPc' = "suspend_cb"
    /\ UNCHANGED <<mounted, endpoint, gSuspended, wakeupEn, waking, pendingSend,
                   notified, host>>

(* tud_suspend_cb, the two assignments ... *)
SuspendCb ==
    /\ usbPc = "suspend_cb"
    /\ gSuspended' = TRUE
    /\ wakeupEn' = hostEn
    /\ usbPc' = "suspend_check"
    /\ UNCHANGED <<mounted, endpoint, suspended, hostEn, waking, pendingSend,
                   notified, host>>

(* Mutant of SuspendCheck: tud_suspend_cb only records the suspend. *)
SuspendCheckSkipped ==
    /\ usbPc = "suspend_check"
    /\ usbPc' = "idle"
    /\ UNCHANGED <<mounted, endpoint, powerVars, pendingSend, notified, host>>

(* ... and the test that follows them. *)
SuspendCheck ==
    /\ usbPc = "suspend_check"
    /\ IF pendingSend /\ wakeupEn THEN RemoteWakeup ELSE UNCHANGED waking
    /\ usbPc' = "idle"
    /\ UNCHANGED <<mounted, endpoint, suspended, hostEn, gSuspended, wakeupEn,
                   pendingSend, notified, host>>

(* The host resumes the bus, of its own accord or because it was woken. *)
Resume ==
    /\ usbPc = "idle"
    /\ suspended
    /\ suspended' = FALSE
    /\ waking' = FALSE
    /\ usbPc' = "resume_cb"
    /\ UNCHANGED <<mounted, endpoint, hostEn, gSuspended, wakeupEn, pendingSend,
                   notified, host>>

(* tud_resume_cb *)
ResumeCb ==
    /\ usbPc = "resume_cb"
    /\ gSuspended' = FALSE
    /\ usbPc' = "idle"
    /\ UNCHANGED <<mounted, endpoint, suspended, hostEn, wakeupEn, waking,
                   pendingSend, notified, host>>

(* One step of the TinyUSB task or of the host. *)
UsbStep ==
    \/ Plug \/ Unplug
    \/ Complete \/ CompleteCb
    \/ \E en \in WakeupModes : Suspend(en)
    \/ SuspendCb \/ SuspendCheck
    \/ Resume \/ ResumeCb
=============================================================================
