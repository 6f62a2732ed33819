--------------------------- MODULE SessionProtocol ---------------------------
(***************************************************************************)
(* What the Barrier client promises the actuator about the order of its    *)
(* calls: one CONNECTED, then ENTER and LEAVE in turn, then one            *)
(* DISCONNECTED, and so on; a session that ends while the pointer is on    *)
(* the screen ends without a LEAVE.  HidActuator takes this order as given *)
(* (ServerSends, NetDisconnect); BarrierClient is shown to keep it.        *)
(***************************************************************************)
EXTENDS Integers

VARIABLES
    online,     \* CONNECTED was the last of CONNECTED and DISCONNECTED
    entered,    \* ENTER was the last of ENTER, LEAVE and DISCONNECTED
    parity      \* of the number of these calls: one that is repeated changes it

Init == online = FALSE /\ entered = FALSE /\ parity = 0

Call == parity' = 1 - parity

Connect == Call /\ ~online /\ online' = TRUE /\ UNCHANGED entered

Enter == Call /\ online /\ ~entered /\ entered' = TRUE /\ UNCHANGED online

Leave == Call /\ online /\ entered /\ entered' = FALSE /\ UNCHANGED online

Disconnect == Call /\ online /\ online' = FALSE /\ entered' = FALSE

Next == Connect \/ Enter \/ Leave \/ Disconnect

Spec == Init /\ [][Next]_<<online, entered, parity>>
=============================================================================
