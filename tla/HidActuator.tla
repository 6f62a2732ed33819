----------------------------- MODULE HidActuator -----------------------------
(***************************************************************************)
(* The input path of the device: src/main/tusb/tusb_actuator.c.            *)
(*                                                                         *)
(* The network task (the Barrier client) puts keys, buttons, wheel and     *)
(* session commands into a bounded queue and writes pointer positions into *)
(* shared memory.  The HID task, on the other core, turns both into HID    *)
(* reports and hands them to the USB endpoint of UsbHid.  The two share    *)
(* the queue, the target position, the atomic movement flag and one task   *)
(* notification, which the TinyUSB task gives as well.                     *)
(*                                                                         *)
(* What the server at the other end of the network does is external: it    *)
(* is the environment that picks the next call, and `server' is the ghost  *)
(* record of what it believes, used by the properties only.                *)
(***************************************************************************)
EXTENDS Sequences, FiniteSets, KeySlots, UsbHid, HidCoords

CONSTANTS
    QueueDepth,    \* ACT_IMPORTANT_QUEUE_DEPTH
    ModifierKeys,  \* the keys whose HID usage is 0xE0..0xE7
    UnmappedKeys,  \* the keys barrier_key_to_hid maps to 0
    Commands,      \* the commands the server makes the client issue
    Moves,         \* the pointer movements it sends
    Screen0,       \* the screen size of the configuration
    NoCmd,         \* no command
    MaxCalls       \* bound on the number of calls of a behaviour

Buttons == -1..5          \* int8_t ids; only 1, 2 and 3 are mapped

(* The modifier byte mask_to_tusb_modifier makes of a command's mask, as    *)
(* the set of the modifier keys it presses; what makes the same byte (META *)
(* and ALTGR both press the right ALT) is one mask here.  ENTER tests the  *)
(* mask itself: `lock' says that it has bits which press nothing, as that  *)
(* of Caps Lock.                                                           *)
Masks == SUBSET ModifierKeys

(* act_cmd_t's dy and what is left of it after the damping, and the two    *)
(* distances of a relative movement.                                       *)
MaxInt16 == 32767
Int16 == (-MaxInt16 - 1)..MaxInt16
WheelSteps == -3..3

Command ==
    [type : {"KEY_DOWN", "KEY_UP"}, key : Keys, mask : Masks]
    \cup [type : {"MOUSE_DOWN", "MOUSE_UP"}, id : Buttons]
    \cup [type : {"MOUSE_WHEEL"}, dy : Int16]
    \cup [type : {"ENTER"}, x : UInt16, y : UInt16, mask : Masks, lock : BOOLEAN]
    \cup [type : {"LEAVE", "JIGGLE", "CONNECTED", "DISCONNECTED"}]
    \cup [type : {"SET_SCREEN_SIZE"}, w : UInt16, h : UInt16]
    \cup [type : {"SET_SCALING"}]

Size == [w : UInt16, h : UInt16]
Point == [x : UInt16, y : UInt16]

Move == [kind : {"abs"}, x : UInt16, y : UInt16]
        \cup [kind : {"rel"}, x : Int16, y : Int16]

HidButtons == {"left", "middle", "right"}

KeyReports == [kind : {"kb"}, keys : SUBSET Keys, mods : Masks]
MouseReports ==
    [kind : {"mouse"}, pos : Point, buttons : SUBSET HidButtons, wheel : WheelSteps]
Report == KeyReports \cup MouseReports

ASSUME ActuatorAssumption ==
    /\ QueueDepth \in Nat \ {0}
    /\ ModifierKeys \subseteq Keys /\ UnmappedKeys \subseteq Keys
    /\ Commands \subseteq Command /\ NoCmd \notin Command
    /\ Moves \subseteq Move
    /\ Screen0 \in Size
    /\ NoReport \notin Report /\ NoPos \notin Point
    /\ MaxCalls \in Nat

VARIABLES
    (* the network task *)
    netPc,        \* where it stands inside the actuator's API
    netCmd,       \* the command it holds while the queue is full
    netMove,      \* the position it is writing
    dedup,        \* last_queued_*: the last key, button and wheel command
    calls,        \* calls made so far (bound of the model)
    server,       \* ghost: what the server believes
    (* shared *)
    queue,        \* cmd_queue
    target,       \* target_x, target_y
    movePending,  \* movement_pending
    (* the HID task *)
    hidPc, cmd,
    keys,         \* pressed_keys and key_count
    buttons, wheel,
    lastSent,     \* last_sent_hx/hy, last_sent_buttons
    screen,       \* screen_width, screen_height
    report,       \* the report it is trying to send
    orig,         \* orig_x, orig_y of a jiggle
    goal,         \* the position an ENTER or a jiggle is storing as the target
    seen,         \* the target as it loaded it last, x and then y
    leaveLost     \* ghost: a LEAVE's one mouse report was refused while the host
                  \* held a button, and none was accepted since

netVars == <<netPc, netCmd, netMove, dedup, calls, server>>
sharedVars == <<queue, target, movePending>>
aimVars == <<orig, goal, seen>>
hidVars == <<hidPc, cmd, keys, buttons, wheel, lastSent, screen, report, aimVars, leaveLost>>
vars == <<netVars, sharedVars, hidVars, usbVars>>

NetPcs == {"idle", "full", "give", "dump", "flush", "move_y", "move_cas", "move_give"}
DedupKinds == {"kb", "btn", "wheel"}

HidPcs == {"top", "move", "recv", "asleep", "exec", "leave", "jiggle", "store_x",
           "store_y", "load_x", "load_y", "once", "wakeup", "send", "wait"}

(* The server of no session.  `exact' is TRUE until the device is asked    *)
(* for more than it tracks: a seventh key, or the same press twice within  *)
(* ACT_DEDUP_MS.                                                           *)
Offline == [online |-> FALSE, entered |-> FALSE, keys |-> {}, buttons |-> {},
            wheel |-> 0, exact |-> TRUE]

(* barrier_client_create has run and the HID task has consumed the two     *)
(* commands it queued; the device is not plugged in yet.                   *)
Init ==
    /\ UsbInit
    /\ netPc = "idle" /\ netCmd = NoCmd /\ netMove = [x |-> 0, y |-> 0]
    /\ dedup = [kind \in DedupKinds |-> NoCmd]
    /\ calls = 0
    /\ server = Offline
    /\ queue = <<>> /\ target = [x |-> 0, y |-> 0] /\ movePending = FALSE
    /\ hidPc = "top" /\ cmd = NoCmd
    /\ keys = Cleared /\ buttons = {} /\ wheel = 0
    /\ lastSent = [pos |-> [x |-> 0, y |-> 0], buttons |-> {}]
    /\ screen = Screen0
    /\ report = NoReport
    /\ orig = [x |-> 0, y |-> 0] /\ goal = [x |-> 0, y |-> 0]
    /\ seen = target
    /\ leaveLost = FALSE

-----------------------------------------------------------------------------
(* The server (external): when it sends what, and what it believes then.   *)
(* It talks to a connected client only; keys, buttons and wheel go to the  *)
(* screen the pointer is on; it presses what is up and releases what is    *)
(* down, and a screen the pointer leaves holds nothing.                    *)
ServerSends(c) ==
    CASE c.type = "KEY_DOWN"    -> server.entered /\ c.key \notin server.keys
      [] c.type = "KEY_UP"      -> server.entered /\ c.key \in server.keys
      [] c.type = "MOUSE_DOWN"  -> server.entered /\ c.id \notin server.buttons
      [] c.type = "MOUSE_UP"    -> server.entered /\ c.id \in server.buttons
      [] c.type = "MOUSE_WHEEL" -> server.entered
      [] c.type = "ENTER"       -> server.online /\ ~server.entered
      [] c.type = "LEAVE"       -> server.entered
      [] c.type = "JIGGLE"      -> server.online
      [] c.type \in {"CONNECTED", "SET_SCREEN_SIZE", "SET_SCALING"} -> ~server.online
      [] OTHER -> FALSE

(* act_cmd_t's dy after the damping the HID task applies. *)
Damped(dy) == IF dy > 3 THEN 3 ELSE IF dy < -3 THEN -3 ELSE dy

ServerAfter(c) ==
    CASE c.type = "KEY_DOWN"    -> [server EXCEPT !.keys = @ \cup {c.key},
                                                  !.exact = @ /\ Cardinality(server.keys) < MaxKeys]
      [] c.type = "KEY_UP"      -> [server EXCEPT !.keys = @ \ {c.key}]
      [] c.type = "MOUSE_DOWN"  -> [server EXCEPT !.buttons = @ \cup {c.id}]
      [] c.type = "MOUSE_UP"    -> [server EXCEPT !.buttons = @ \ {c.id}]
      [] c.type = "MOUSE_WHEEL" -> [server EXCEPT !.wheel = @ + Damped(c.dy)]
      [] c.type = "ENTER"       -> [server EXCEPT !.entered = TRUE]
      [] c.type = "LEAVE"       -> [server EXCEPT !.entered = FALSE, !.keys = {}, !.buttons = {},
                                                  !.exact = TRUE]
      [] c.type = "CONNECTED"   -> [server EXCEPT !.online = TRUE]
      [] OTHER -> server

SessionOver == [Offline EXCEPT !.wheel = server.wheel]

-----------------------------------------------------------------------------
(* The network task: the actuator_queue_* functions.                       *)

DedupSlot(c) ==
    CASE c.type \in {"KEY_DOWN", "KEY_UP"} -> "kb"
      [] c.type \in {"MOUSE_DOWN", "MOUSE_UP"} -> "btn"
      [] c.type = "MOUSE_WHEEL" -> "wheel"
      [] OTHER -> "none"

(* The command is dropped if the last one like it was queued less than     *)
(* ACT_DEDUP_MS ago; for the wheel any wheel command will do.              *)
Repeats(c) ==
    CASE DedupSlot(c) = "kb"    -> dedup.kb = c
      [] DedupSlot(c) = "btn"   -> dedup.btn = c
      [] DedupSlot(c) = "wheel" -> dedup.wheel # NoCmd
      [] OTHER -> FALSE

(* Mutants of Enqueue: a queue one longer than allocated; no notification. *)
EnqueueOneMore(c) ==
    IF Len(queue) <= QueueDepth
    THEN queue' = Append(queue, c) /\ netPc' = "give" /\ UNCHANGED netCmd
    ELSE netPc' = "full" /\ netCmd' = c /\ UNCHANGED queue

EnqueueSilently(c) ==
    IF Len(queue) < QueueDepth
    THEN queue' = Append(queue, c) /\ netPc' = "idle" /\ UNCHANGED netCmd
    ELSE netPc' = "full" /\ netCmd' = c /\ UNCHANGED queue

(* _q up to the call of xTaskNotifyGive: the queue takes the command, or   *)
(* the task blocks in xQueueSend.                                          *)
Enqueue(c) ==
    IF Len(queue) < QueueDepth
    THEN /\ queue' = Append(queue, c)
         /\ netPc' = "give"
         /\ UNCHANGED netCmd
    ELSE /\ netPc' = "full"
         /\ netCmd' = c
         /\ UNCHANGED queue

(* Any command the server causes, outside the 30 ms window. *)
NetQueue(c) ==
    /\ netPc = "idle" /\ calls < MaxCalls
    /\ ServerSends(c)
    /\ calls' = calls + 1
    /\ server' = ServerAfter(c)
    /\ dedup' = IF DedupSlot(c) = "none" THEN dedup
                ELSE [dedup EXCEPT ![DedupSlot(c)] = c]
    /\ Enqueue(c)
    /\ UNCHANGED <<netMove, target, movePending, hidVars, usbVars>>

(* The same inside the window: the call returns ESP_OK and does nothing.   *)
(* A wheel step it swallows is not one the ghost counts; a press it        *)
(* swallows is a press the server still believes in.                       *)
NetDropRepeat(c) ==
    /\ netPc = "idle" /\ calls < MaxCalls
    /\ ServerSends(c) /\ Repeats(c)
    /\ calls' = calls + 1
    /\ server' = IF c.type = "MOUSE_WHEEL" THEN server
                 ELSE [ServerAfter(c) EXCEPT !.exact = FALSE]
    /\ UNCHANGED <<netPc, netCmd, netMove, dedup, sharedVars, hidVars, usbVars>>

(* xTaskNotifyGive of _q and of _notify_movement. *)
NetGive ==
    /\ netPc \in {"give", "move_give"}
    /\ notified' = TRUE
    /\ netPc' = "idle"
    /\ UNCHANGED <<netCmd, netMove, dedup, calls, server, sharedVars, hidVars,
                   mounted, endpoint, usbPc, powerVars, pendingSend, host>>

(* Room appears while xQueueSend waits. *)
NetUnblock ==
    /\ netPc = "full" /\ Len(queue) < QueueDepth
    /\ queue' = Append(queue, netCmd)
    /\ netPc' = "give" /\ netCmd' = NoCmd
    /\ UNCHANGED <<netMove, dedup, calls, server, target, movePending, hidVars, usbVars>>

(* It does not within 10 ms: _dump_queue empties the queue ... *)
NetTimeout ==
    /\ "full" \in Faults
    /\ netPc = "full" /\ Len(queue) = QueueDepth
    /\ netPc' = "dump"
    /\ UNCHANGED <<netCmd, netMove, dedup, calls, server, sharedVars, hidVars, usbVars>>

(* ... one receive at a time, and the error goes to handle_packet, which   *)
(* ends the session, except that a jiggle's is only logged.                *)
NetDump ==
    /\ netPc = "dump"
    /\ \/ /\ queue # <<>>
          /\ queue' = Tail(queue)
          /\ UNCHANGED <<netPc, netCmd, server>>
       \/ /\ queue = <<>>
          /\ IF netCmd.type \in {"JIGGLE", "CONNECTED", "SET_SCREEN_SIZE", "SET_SCALING"}
             THEN netPc' = "idle" /\ UNCHANGED server
             ELSE netPc' = "flush" /\ server' = SessionOver
          /\ netCmd' = NoCmd
          /\ UNCHANGED queue
    /\ UNCHANGED <<netMove, dedup, calls, target, movePending, hidVars, usbVars>>

(* The session ends: a read error, CBYE, a configuration change. *)
NetDisconnect ==
    /\ "disconnect" \in Faults
    /\ netPc = "idle" /\ server.online /\ calls < MaxCalls
    /\ calls' = calls + 1
    /\ server' = SessionOver
    /\ netPc' = "flush"
    /\ UNCHANGED <<netCmd, netMove, dedup, sharedVars, hidVars, usbVars>>

(* Mutant of NetFlush: DISCONNECTED is queued behind what is there. *)
NetFlushNothing ==
    /\ netPc = "flush"
    /\ Enqueue([type |-> "DISCONNECTED"])
    /\ UNCHANGED <<netMove, dedup, calls, server, target, movePending, hidVars, usbVars>>

(* actuator_queue_disconnected: receive until the queue is empty, then     *)
(* queue DISCONNECTED.                                                     *)
NetFlush ==
    /\ netPc = "flush"
    /\ \/ /\ queue # <<>>
          /\ queue' = Tail(queue)
          /\ UNCHANGED <<netPc, netCmd>>
       \/ /\ queue = <<>>
          /\ Enqueue([type |-> "DISCONNECTED"])
    /\ UNCHANGED <<netMove, dedup, calls, server, target, movePending, hidVars, usbVars>>

(* actuator_set_movement takes the position as it comes, and               *)
(* actuator_move_relative clamps the moved target to the screen.           *)
Destination(m) ==
    IF m.kind = "abs" THEN [x |-> m.x, y |-> m.y]
    ELSE [x |-> Clamp(target.x + m.x, Denom(screen.w)),
          y |-> Clamp(target.y + m.y, Denom(screen.h))]

(* Both write x, then y ... *)
NetMoveX(m) ==
    /\ netPc = "idle" /\ calls < MaxCalls
    /\ server.entered
    /\ calls' = calls + 1
    /\ netMove' = Destination(m)
    /\ target' = [target EXCEPT !.x = Destination(m).x]
    /\ netPc' = "move_y"
    /\ UNCHANGED <<netCmd, dedup, server, queue, movePending, hidVars, usbVars>>

NetMoveY ==
    /\ netPc = "move_y"
    /\ target' = [target EXCEPT !.y = netMove.y]
    /\ netPc' = "move_cas"
    /\ UNCHANGED <<netCmd, netMove, dedup, calls, server, queue, movePending,
                   hidVars, usbVars>>

(* Mutant of NetMoveCas: wakes the HID task without raising the flag. *)
NetMoveCasNoFlag ==
    /\ netPc = "move_cas"
    /\ netPc' = "move_give"
    /\ UNCHANGED <<netCmd, netMove, dedup, calls, server, sharedVars, hidVars, usbVars>>

(* ... and raise the flag: only the one who raises it wakes the HID task   *)
(* (_notify_movement, the compare-and-swap 0 -> 1).                        *)
NetMoveCas ==
    /\ netPc = "move_cas"
    /\ IF movePending
       THEN netPc' = "idle" /\ UNCHANGED movePending
       ELSE netPc' = "move_give" /\ movePending' = TRUE
    /\ UNCHANGED <<netCmd, netMove, dedup, calls, server, queue, target, hidVars, usbVars>>

NetStep ==
    \/ \E c \in Commands : NetQueue(c) \/ NetDropRepeat(c)
    \/ \E m \in Moves : NetMoveX(m)
    \/ NetGive \/ NetUnblock \/ NetTimeout \/ NetDump
    \/ NetDisconnect \/ NetFlush
    \/ NetMoveY \/ NetMoveCas

-----------------------------------------------------------------------------
(* The HID task.                                                           *)

(* The keyboard report: every slot, the modifier keys moved to the         *)
(* modifier byte, the unmapped ones as 0; the mask of the command itself.  *)
KbReport(t, mask) ==
    [kind |-> "kb",
     keys |-> Reported(t) \ (ModifierKeys \cup UnmappedKeys),
     mods |-> mask \cup (Reported(t) \cap ModifierKeys)]

(* barrier_button_to_hid *)
HidBit(id) ==
    CASE id = 1 -> {"left"} [] id = 2 -> {"middle"} [] id = 3 -> {"right"} [] OTHER -> {}

HidPoint(p) == [x |-> ToHid(p.x, screen.w), y |-> ToHid(p.y, screen.h)]

(* The mouse report of both functions, from the position they loaded. *)
MouseReport(p) ==
    [kind |-> "mouse", pos |-> HidPoint(p), buttons |-> buttons, wheel |-> wheel]

(* It would say what the last one that was accepted said. *)
Redundant == lastSent = [pos |-> HidPoint(seen), buttons |-> buttons] /\ wheel = 0

(* What the HID task is busy with: a command, or a claimed movement. *)
Doing == IF cmd = NoCmd THEN "MOVE" ELSE cmd.type

(* Mutants of SendAbsMouseOnce: last_sent_* is updated whether or not the  *)
(* report was accepted; the wheel is not reset when it was.                *)
SendAbsMouseOnceEagerly ==
    /\ lastSent' = [pos |-> HidPoint(seen), buttons |-> buttons]
    /\ IF lastSent' # lastSent /\ Accepts
       THEN endpoint' = MouseReport(seen) /\ wheel' = 0 /\ leaveLost' = FALSE
       ELSE UNCHANGED <<endpoint, wheel, leaveLost>>

SendAbsMouseOnceKeepsWheel ==
    /\ UNCHANGED wheel
    /\ IF ~Redundant /\ Accepts
       THEN /\ endpoint' = MouseReport(seen)
            /\ lastSent' = [pos |-> HidPoint(seen), buttons |-> buttons]
            /\ leaveLost' = FALSE
       ELSE UNCHANGED <<endpoint, lastSent, leaveLost>>

(* send_abs_mouse_once behind its loads: nothing if nothing changed, else  *)
(* one try; what the endpoint refuses is forgotten, except that the wheel  *)
(* stays for the next report.                                              *)
SendAbsMouseOnce ==
    IF ~Redundant /\ Accepts
    THEN /\ endpoint' = MouseReport(seen)
         /\ lastSent' = [pos |-> HidPoint(seen), buttons |-> buttons]
         /\ wheel' = 0
         /\ leaveLost' = FALSE
    ELSE /\ leaveLost' = (leaveLost \/ (Doing = "LEAVE" /\ lastSent.buttons # {}))
         /\ UNCHANGED <<endpoint, lastSent, wheel>>

(* The start of send_kb_report, and of send_abs_mouse_retry behind its     *)
(* loads.                                                                  *)
StartSending(r) ==
    /\ report' = r
    /\ pendingSend' = TRUE
    /\ hidPc' = "wakeup"

usbButEndpoint == <<mounted, usbPc, powerVars, pendingSend, notified, host>>
usbButPending == <<mounted, endpoint, usbPc, powerVars, notified, host>>

(* The compare-and-swap 1 -> 0 at the head of the loop ... *)
HidClaimMove ==
    /\ hidPc = "top"
    /\ movePending' = FALSE
    /\ hidPc' = IF movePending THEN "move" ELSE "recv"
    /\ UNCHANGED <<netVars, queue, target, cmd, keys, buttons, wheel, lastSent,
                   screen, report, aimVars, leaveLost, usbVars>>

(* ... and the movement it claims, which is given up (the ghost counts it  *)
(* as seen) while the device is unplugged.                                 *)
HidMove ==
    /\ hidPc = "move"
    /\ IF mounted
       THEN hidPc' = "load_x" /\ UNCHANGED seen
       ELSE hidPc' = "recv" /\ seen' = target
    /\ UNCHANGED <<netVars, sharedVars, cmd, keys, buttons, wheel, lastSent, screen, report,
                   orig, goal, leaveLost, usbVars>>

(* send_abs_mouse_once and send_abs_mouse_retry load the target, x ... *)
HidLoadX ==
    /\ hidPc = "load_x"
    /\ seen' = [seen EXCEPT !.x = target.x]
    /\ hidPc' = "load_y"
    /\ UNCHANGED <<netVars, sharedVars, cmd, keys, buttons, wheel, lastSent, screen, report,
                   orig, goal, leaveLost, usbVars>>

(* ... and then y, and try once or insist. *)
HidLoadY ==
    /\ hidPc = "load_y"
    /\ seen' = [seen EXCEPT !.y = target.y]
    /\ IF Doing \in {"MOUSE_DOWN", "MOUSE_UP", "MOUSE_WHEEL"}
       THEN StartSending(MouseReport(seen'))
       ELSE hidPc' = "once" /\ UNCHANGED <<report, pendingSend>>
    /\ UNCHANGED <<netVars, sharedVars, cmd, keys, buttons, wheel, lastSent, screen, orig,
                   goal, leaveLost, usbButPending>>

(* The movement is sent; the command behind it is next. *)
HidSendMove ==
    /\ hidPc = "once" /\ Doing = "MOVE"
    /\ SendAbsMouseOnce
    /\ hidPc' = "recv"
    /\ UNCHANGED <<netVars, sharedVars, cmd, keys, buttons, screen, report, aimVars,
                   usbButEndpoint>>

(* xQueueReceive without waiting; an empty queue sends the task to sleep. *)
HidReceive ==
    /\ hidPc = "recv"
    /\ \/ /\ queue # <<>>
          /\ cmd' = Head(queue) /\ queue' = Tail(queue)
          /\ hidPc' = "exec"
       \/ /\ queue = <<>>
          /\ hidPc' = "asleep"
          /\ UNCHANGED <<cmd, queue>>
    /\ UNCHANGED <<netVars, target, movePending, keys, buttons, wheel, lastSent,
                   screen, report, aimVars, leaveLost, usbVars>>

(* xTaskNotifyWait ends with a notification, or after a second without. *)
HidWake ==
    /\ hidPc = "asleep"
    /\ notified' = FALSE
    /\ hidPc' = "top"
    /\ UNCHANGED <<netVars, sharedVars, cmd, keys, buttons, wheel, lastSent, screen, report,
                   aimVars, leaveLost, mounted, endpoint, usbPc, powerVars, pendingSend, host>>

(* A command that finds the device unplugged is dropped. *)
HidDrop ==
    /\ hidPc = "exec" /\ ~mounted
    /\ hidPc' = "top" /\ cmd' = NoCmd
    /\ UNCHANGED <<netVars, sharedVars, keys, buttons, wheel, lastSent, screen, report,
                   aimVars, leaveLost, usbVars>>

Executes(types) == hidPc = "exec" /\ mounted /\ cmd.type \in types

(* ACT_CMD_KEY_DOWN and ACT_CMD_KEY_UP *)
HidKey ==
    /\ Executes({"KEY_DOWN", "KEY_UP"})
    /\ keys' = IF cmd.type = "KEY_DOWN" THEN Press(keys, cmd.key) ELSE Release(keys, cmd.key)
    /\ StartSending(KbReport(keys', cmd.mask))
    /\ UNCHANGED <<netVars, sharedVars, cmd, buttons, wheel, lastSent, screen, aimVars,
                   leaveLost, usbButPending>>

(* ACT_CMD_MOUSE_DOWN, ACT_CMD_MOUSE_UP and ACT_CMD_MOUSE_WHEEL: the       *)
(* report that follows is insisted on.                                     *)
HidMouse ==
    /\ Executes({"MOUSE_DOWN", "MOUSE_UP", "MOUSE_WHEEL"})
    /\ buttons' = CASE cmd.type = "MOUSE_DOWN" -> buttons \cup HidBit(cmd.id)
                    [] cmd.type = "MOUSE_UP" -> buttons \ HidBit(cmd.id)
                    [] OTHER -> buttons
    /\ wheel' = IF cmd.type = "MOUSE_WHEEL" THEN Damped(cmd.dy) ELSE wheel
    /\ hidPc' = "load_x"
    /\ UNCHANGED <<netVars, sharedVars, cmd, keys, lastSent, screen, report, aimVars,
                   leaveLost, usbVars>>

(* ACT_CMD_ENTER: where the pointer is to be put ... *)
HidEnter ==
    /\ Executes({"ENTER"})
    /\ goal' = [x |-> cmd.x, y |-> cmd.y]
    /\ hidPc' = "store_x"
    /\ UNCHANGED <<netVars, sharedVars, cmd, keys, buttons, wheel, lastSent, screen, report,
                   orig, seen, leaveLost, usbVars>>

(* ... is stored, x before y, and loaded again by send_abs_mouse_once. *)
HidStoreX ==
    /\ hidPc = "store_x"
    /\ target' = [target EXCEPT !.x = goal.x]
    /\ hidPc' = "store_y"
    /\ UNCHANGED <<netVars, queue, movePending, cmd, keys, buttons, wheel, lastSent, screen,
                   report, aimVars, leaveLost, usbVars>>

HidStoreY ==
    /\ hidPc = "store_y"
    /\ target' = [target EXCEPT !.y = goal.y]
    /\ hidPc' = "load_x"
    /\ UNCHANGED <<netVars, queue, movePending, cmd, keys, buttons, wheel, lastSent, screen,
                   report, aimVars, leaveLost, usbVars>>

(* Behind the position, ENTER sends the modifiers, if the mask has any     *)
(* bit, in a report without keys.                                          *)
HidSendEnter ==
    /\ hidPc = "once" /\ Doing = "ENTER"
    /\ SendAbsMouseOnce
    /\ IF cmd.mask = {} /\ ~cmd.lock
       THEN hidPc' = "top" /\ cmd' = NoCmd /\ UNCHANGED <<report, pendingSend>>
       ELSE /\ StartSending([kind |-> "kb", keys |-> {}, mods |-> cmd.mask])
            /\ UNCHANGED cmd
    /\ UNCHANGED <<netVars, sharedVars, keys, buttons, screen, aimVars,
                   mounted, usbPc, powerVars, notified, host>>

(* Mutant of HidLeave: the tracker is not cleared. *)
HidLeaveKeepsKeys ==
    /\ Executes({"LEAVE"})
    /\ StartSending([kind |-> "kb", keys |-> {}, mods |-> {}])
    /\ UNCHANGED <<netVars, sharedVars, cmd, keys, buttons, wheel, lastSent, screen, aimVars,
                   leaveLost, usbButPending>>

(* ACT_CMD_LEAVE: an empty keyboard report, insisted on ... *)
HidLeave ==
    /\ Executes({"LEAVE"})
    /\ keys' = Cleared
    /\ StartSending([kind |-> "kb", keys |-> {}, mods |-> {}])
    /\ UNCHANGED <<netVars, sharedVars, cmd, buttons, wheel, lastSent, screen, aimVars,
                   leaveLost, usbButPending>>

(* ... and the buttons behind it ... *)
HidLeaveMouse ==
    /\ hidPc = "leave"
    /\ buttons' = {} /\ wheel' = 0
    /\ hidPc' = "load_x"
    /\ UNCHANGED <<netVars, sharedVars, cmd, keys, lastSent, screen, report, aimVars,
                   leaveLost, usbVars>>

(* ... in one try. *)
HidSendLeave ==
    /\ hidPc = "once" /\ Doing = "LEAVE"
    /\ SendAbsMouseOnce
    /\ hidPc' = "top" /\ cmd' = NoCmd
    /\ UNCHANGED <<netVars, sharedVars, keys, buttons, screen, report, aimVars,
                   usbButEndpoint>>

(* ACT_CMD_JIGGLE reads where the pointer is, x and then y, ... *)
HidJiggle ==
    /\ Executes({"JIGGLE"})
    /\ orig' = [orig EXCEPT !.x = target.x]
    /\ hidPc' = "jiggle"
    /\ UNCHANGED <<netVars, sharedVars, cmd, keys, buttons, wheel, lastSent, screen, report,
                   goal, seen, leaveLost, usbVars>>

(* ... one pixel aside in a uint16_t, which wraps at 0 on a screen that is *)
(* one pixel wide ... *)
Aside(x) == (IF x + 1 < screen.w THEN x + 1 ELSE x - 1) % Word

HidJiggleAside ==
    /\ hidPc = "jiggle"
    /\ orig' = [orig EXCEPT !.y = target.y]
    /\ goal' = [x |-> Aside(orig.x), y |-> target.y]
    /\ hidPc' = "store_x"
    /\ UNCHANGED <<netVars, sharedVars, cmd, keys, buttons, wheel, lastSent, screen, report,
                   seen, leaveLost, usbVars>>

(* ... is stored and sent, and then the same with where it was read. *)
HidSendJiggle ==
    /\ hidPc = "once" /\ Doing = "JIGGLE"
    /\ SendAbsMouseOnce
    /\ goal' = orig
    /\ IF goal # orig
       THEN hidPc' = "store_x" /\ UNCHANGED cmd
       ELSE hidPc' = "top" /\ cmd' = NoCmd
    /\ UNCHANGED <<netVars, sharedVars, keys, buttons, screen, report, orig, seen,
                   usbButEndpoint>>

(* ACT_CMD_DISCONNECTED forgets what is pressed and sends nothing;         *)
(* ACT_CMD_SET_SCREEN_SIZE takes the new size; CONNECTED does nothing and  *)
(* SET_SCALING sets a field nobody reads.                                  *)
HidSession ==
    /\ Executes({"CONNECTED", "DISCONNECTED", "SET_SCREEN_SIZE", "SET_SCALING"})
    /\ hidPc' = "top" /\ cmd' = NoCmd
    /\ IF cmd.type = "DISCONNECTED"
       THEN keys' = Cleared /\ buttons' = {} /\ wheel' = 0
       ELSE UNCHANGED <<keys, buttons, wheel>>
    /\ screen' = IF cmd.type = "SET_SCREEN_SIZE" THEN [w |-> cmd.w, h |-> cmd.h] ELSE screen
    /\ UNCHANGED <<netVars, sharedVars, lastSent, report, aimVars, leaveLost, usbVars>>

(* tusb_try_remote_wakeup, after g_pending_send was set. *)
HidWakeHost ==
    /\ hidPc = "wakeup"
    /\ TryRemoteWakeup
    /\ hidPc' = "send"
    /\ UNCHANGED <<netVars, sharedVars, cmd, keys, buttons, wheel, lastSent, screen, report,
                   aimVars, leaveLost, mounted, endpoint, usbPc, suspended, hostEn,
                   gSuspended, wakeupEn, pendingSend, notified, host>>

(* Mutant of Important: the release of a button gets one try, as on LEAVE. *)
ImportantNoRelease == report.kind = "kb" \/ ~(buttons \subseteq lastSent.buttons)

(* A mouse report is insisted on only if it changes the buttons. *)
Important == report.kind = "kb" \/ buttons # lastSent.buttons

(* What follows the report: the mouse half of LEAVE, or the next command. *)
AfterSend ==
    /\ IF cmd.type = "LEAVE"
       THEN hidPc' = "leave" /\ UNCHANGED cmd
       ELSE hidPc' = "top" /\ cmd' = NoCmd
    /\ report' = NoReport
    /\ pendingSend' = FALSE

HidSendAccepted ==
    /\ hidPc = "send" /\ Accepts
    /\ endpoint' = report
    /\ IF report.kind = "mouse"
       THEN /\ lastSent' = [pos |-> report.pos, buttons |-> buttons]
            /\ wheel' = 0
            /\ leaveLost' = FALSE
       ELSE UNCHANGED <<lastSent, wheel, leaveLost>>
    /\ AfterSend
    /\ UNCHANGED <<netVars, sharedVars, keys, buttons, screen, aimVars, mounted, usbPc,
                   powerVars, notified, host>>

(* Refused: wait for a notification and try again, or give up. *)
HidSendRefused ==
    /\ hidPc = "send" /\ ~Accepts
    /\ IF Important
       THEN hidPc' = "wait" /\ UNCHANGED <<cmd, report, pendingSend>>
       ELSE AfterSend
    /\ UNCHANGED <<netVars, sharedVars, keys, buttons, wheel, lastSent, screen, aimVars,
                   leaveLost, usbButPending>>

(* xTaskNotifyWait with portMAX_DELAY. *)
HidRetry ==
    /\ hidPc = "wait" /\ notified
    /\ notified' = FALSE
    /\ hidPc' = "send"
    /\ UNCHANGED <<netVars, sharedVars, cmd, keys, buttons, wheel, lastSent, screen, report,
                   aimVars, leaveLost, mounted, endpoint, usbPc, powerVars, pendingSend, host>>

HidStep ==
    \/ HidClaimMove \/ HidMove \/ HidReceive \/ HidWake \/ HidDrop
    \/ HidKey \/ HidMouse \/ HidEnter \/ HidLeave \/ HidLeaveMouse
    \/ HidJiggle \/ HidJiggleAside \/ HidSession
    \/ HidStoreX \/ HidStoreY \/ HidLoadX \/ HidLoadY
    \/ HidSendMove \/ HidSendEnter \/ HidSendLeave \/ HidSendJiggle
    \/ HidWakeHost \/ HidSendAccepted \/ HidSendRefused \/ HidRetry

UsbTaskStep == UsbStep /\ UNCHANGED <<netVars, sharedVars, hidVars>>

Next == NetStep \/ HidStep \/ UsbTaskStep

Spec == Init /\ [][Next]_vars

-----------------------------------------------------------------------------
(* Fairness.  FreeRTOS runs the HID task (priority 5, a core of its own)   *)
(* and the TinyUSB task whenever they can run; the network task is past    *)
(* its own blocking calls when it is inside the actuator's API; a host     *)
(* resumes a bus that signals wake-up, and a host that is up again and     *)
(* again polls the endpoint in the end (every 10 ms by the descriptor).    *)
(* Nothing obliges the server to send, the user to plug or unplug, or the  *)
(* host to suspend.                                                        *)
NetRuns == NetGive \/ NetUnblock \/ NetTimeout \/ NetDump \/ NetFlush
           \/ NetMoveY \/ NetMoveCas

UsbRuns == CompleteCb \/ SuspendCb \/ SuspendCheck \/ ResumeCb \/ (waking /\ Resume)

ByUsb(A) == A /\ UNCHANGED <<netVars, sharedVars, hidVars>>

FairSpec ==
    /\ Spec
    /\ WF_vars(NetRuns) /\ WF_vars(HidStep)
    /\ WF_vars(ByUsb(UsbRuns)) /\ SF_vars(ByUsb(Complete))

-----------------------------------------------------------------------------
(* The properties.                                                         *)

(* Every variable holds what its C type and its use allow. *)
TypeOK ==
    /\ netPc \in NetPcs /\ netCmd \in Command \cup {NoCmd} /\ netMove \in Point
    /\ netPc \in {"full", "dump"} => netCmd \in Command
    /\ dedup \in [DedupKinds -> Command \cup {NoCmd}]
    /\ calls \in 0..MaxCalls
    /\ server \in [online : BOOLEAN, entered : BOOLEAN, keys : SUBSET Keys,
                    buttons : SUBSET Buttons, wheel : Int, exact : BOOLEAN]
    /\ queue \in Seq(Command) /\ Len(queue) <= QueueDepth
    /\ target \in Point /\ movePending \in BOOLEAN
    /\ hidPc \in HidPcs /\ cmd \in Command \cup {NoCmd}
    /\ hidPc \in {"exec", "wakeup", "send", "wait"} => cmd \in Command
    /\ hidPc \in {"wakeup", "send", "wait"} => report \in Report
    /\ keys \in KeyTracker /\ buttons \in SUBSET HidButtons /\ wheel \in WheelSteps
    /\ lastSent \in [pos : Point, buttons : SUBSET HidButtons]
    /\ screen \in Size /\ report \in Report \cup {NoReport}
    /\ orig \in Point /\ goal \in Point /\ seen \in Point /\ leaveLost \in BOOLEAN
    /\ mounted \in BOOLEAN /\ endpoint \in Report \cup {NoReport}
    /\ usbPc \in UsbPcs
    /\ suspended \in BOOLEAN /\ hostEn \in BOOLEAN /\ gSuspended \in BOOLEAN
    /\ wakeupEn \in BOOLEAN /\ waking \in BOOLEAN
    /\ pendingSend \in BOOLEAN /\ notified \in BOOLEAN
    /\ host \in [keys : SUBSET Keys, mods : Masks, buttons : SUBSET HidButtons,
                  wheel : Int, pos : Point \cup {NoPos}]

(* Whatever sequence of presses, releases of tracked and of unknown keys,  *)
(* and sessions the tracker goes through, its count and its slots agree.   *)
TrackerWellFormed == WellFormed(keys)

(* Somebody is about to wake the HID task, or has done so. *)
NotifiedSoon == notified \/ netPc \in {"give", "move_give"}

(* No lost wake-up: the HID task is not asleep on a command or a movement  *)
(* that nobody will wake it for (the queue and the flag are written before *)
(* the notification, and read after it was cleared).                       *)
NoLostWakeup ==
    hidPc = "asleep" /\ (queue # <<>> \/ movePending) => NotifiedSoon

(* A report that waits for the endpoint is woken when the endpoint is      *)
(* free: "block until accepted via callback wake", as long as the device   *)
(* stays plugged in.                                                       *)
BlockedSendWoken ==
    "unplug" \notin Faults /\ hidPc = "wait" /\ Accepts =>
        notified \/ usbPc = "complete"

(* No movement is lost between the two tasks: unless the network task is   *)
(* still writing one, the flag is up, or the HID task is about to load,    *)
(* the position it loaded last is the target, both its x and its y (the    *)
(* flag is raised after the two writes and lowered before the two loads).  *)
MoveNotLost ==
    \/ seen = target
    \/ movePending
    \/ hidPc \in {"move", "store_y", "load_x", "load_y"}
    \/ netPc \in {"move_y", "move_cas"}

(* Everything has been handled: nobody holds or awaits anything. *)
Quiet ==
    /\ netPc = "idle" /\ queue = <<>> /\ ~movePending
    /\ hidPc = "asleep"
    /\ endpoint = NoReport /\ usbPc = "idle"

(* Nothing but a suspend disturbs the device: the cable stays in, sessions *)
(* are not broken off and the queue finds room within 10 ms.  (Otherwise   *)
(* commands are dropped on the way, and no release is sent for them.)      *)
Undisturbed == Faults \subseteq {"suspend"}

(* When everything has been handled the host holds exactly the keys and    *)
(* the mapped buttons the server holds: no order of calls, reports,        *)
(* completions and wake-ups loses, swaps or doubles one.  (As long as the  *)
(* server asks for no more than the device tracks.)  The one exception are *)
(* the buttons a LEAVE failed to release, until the next mouse report gets *)
(* through; `leaveLost' is true from the one to the other only.            *)
HostAgrees ==
    Undisturbed /\ Quiet /\ server.exact =>
        /\ host.keys = server.keys \ (ModifierKeys \cup UnmappedKeys)
        /\ \/ host.buttons = UNION {HidBit(id) : id \in server.buttons}
           \/ leaveLost /\ server.buttons = {}

(* When everything has been handled the host holds no key the server does  *)
(* not hold, and no modifier after the pointer has left the screen: the    *)
(* seventh key, the release of an unknown key and the dropped repeat may   *)
(* lose keys, they leave none behind.                                      *)
NoStuckKey ==
    Undisturbed /\ Quiet =>
        /\ host.keys \subseteq server.keys
        /\ ~server.entered => host.mods = {}

(* No queued input survives the end of its session ("stale events must not *)
(* survive reconnect", actuator_queue_disconnected): while the client is   *)
(* offline the queue holds commands about sessions and the screen only.    *)
(* The command the HID task has in hand is not covered, and does survive.  *)
FlushedOnDisconnect ==
    ~server.online /\ netPc \notin {"flush", "dump"} =>
        \A i \in 1..Len(queue) :
            queue[i].type \in {"DISCONNECTED", "SET_SCREEN_SIZE", "SET_SCALING"}

(* The suppression of unchanged mouse reports is sound: last_sent_* is     *)
(* what the host has, or will have when it takes the report in flight.     *)
LastSentFaithful ==
    "unplug" \notin Faults =>
        LET now == IF endpoint # NoReport THEN HostTakes(host, endpoint) ELSE host
        IN  /\ now.buttons = lastSent.buttons
            /\ now.pos # NoPos => now.pos = lastSent.pos

(* The host never scrolls further than the server asked, although a        *)
(* refused wheel step stays in mouse_wheel and rides on a later report.    *)
(* (Stated for a server that scrolls one way: steps back and forth could   *)
(* make up for each other in the sum.)                                     *)
ScrollsOneWay == \A c \in Commands : c.type = "MOUSE_WHEEL" => c.dy \in Nat
InFlight == IF endpoint # NoReport /\ endpoint.kind = "mouse" THEN endpoint.wheel ELSE 0
NoDoubleScroll ==
    ScrollsOneWay => host.wheel + InFlight + wheel <= server.wheel

(* A host that allows remote wake-up is woken for every report that is     *)
(* insisted on: once tusb_try_remote_wakeup and tud_suspend_cb have both   *)
(* run, in whatever order, the signal is out.                              *)
NoMissedWakeup ==
    hidPc \in {"send", "wait"} /\ suspended /\ hostEn /\ usbPc = "idle" => waking

(* A report that waits for the endpoint reaches it: "block until accepted" *)
(* ends with the report accepted, not just with one more try               *)
(* (send_kb_report and send_abs_mouse_retry leave their loops then).       *)
SendCompletes == hidPc = "wait" ~> hidPc \notin {"wait", "send"}

(* Every queued command is taken from the queue, and every movement that   *)
(* was signalled is claimed, whatever the HID task was doing meanwhile.    *)
InputServed ==
    /\ queue # <<>> ~> queue = <<>>
    /\ movePending ~> ~movePending

-----------------------------------------------------------------------------
(* What comments of the code say, and the code does not do.                *)

(* "Release all mouse buttons" on LEAVE: once the pointer has left and all *)
(* is quiet the host holds no button.                                      *)
ButtonsReleasedOnLeave == Quiet /\ mounted /\ ~server.entered => host.buttons = {}

(* "Send keyboard report - block until accepted via callback wake": also   *)
(* on a device that was unplugged meanwhile, once it is plugged in again   *)
(* for good.                                                               *)
SendCompletesOncePlugged == <>[]mounted => SendCompletes
=============================================================================
