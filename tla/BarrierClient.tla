---------------------------- MODULE BarrierClient ----------------------------
(***************************************************************************)
(* The session life cycle: barrier_client_task with its handshake,         *)
(* read_packet and handle_packet (src/main/barrier/barrier_client.c), the  *)
(* web server's two handlers that change what the client runs with         *)
(* (src/main/web/web_server.c), the Ethernet reconfiguration task they     *)
(* start (src/main/network/eth_network.c) and the event group and the task *)
(* notification they share.                                                *)
(*                                                                         *)
(* A configuration is its version: the number of times it was saved.  The  *)
(* server, and what the network does to the connection, are external: any  *)
(* packet may arrive, any read, write or handshake may fail, except that a *)
(* server sends CINN and COUT in turn.  Time is left out: a read that      *)
(* times out changes nothing here, it makes the client queue a jiggle at   *)
(* most (the JIGGLE command of HidActuator).                               *)
(***************************************************************************)
EXTENDS Reconnect

CONSTANTS
    Faults,        \* what may fail inside the device, see FaultKinds
    MaxSaves,      \* bound on the number of saved configurations
    MaxUploads,    \* bound on the number of certificates uploaded
    NoTls,         \* no TLS client: tls_client_create returned NULL
    NoInfo         \* the server has not been told the screen

(* The command queue is full; tls_client_create finds no memory; a request *)
(* to the web server fails after it changed something.                     *)
FaultKinds == {"full", "nomem", "web"}

Configs == 0..MaxSaves

ASSUME ClientAssumption ==
    /\ Faults \subseteq FaultKinds
    /\ MaxSaves \in Nat /\ MaxUploads \in Nat
    /\ NoTls \notin Configs /\ NoInfo \notin Configs

VARIABLES
    (* the client task *)
    pc,
    packet,       \* the kind of packet in hand, or "none"
    tls,          \* the configuration client->tls was created from, or NoTls
    open,         \* client->tls->connected
    retry,        \* reconnect.retry_count
    delay,        \* the last reconnect_delay
    entered,      \* client->cursor_entered
    told,         \* what the actuator was told, see Told
    (* shared with the web server and the Ethernet task *)
    config,       \* the version of s_config
    certs,        \* the version of the certificate buffers
    reconnect,    \* EVENT_RECONNECT
    hasIp,        \* EVENT_ETH_HAS_IP
    notified,     \* the notification of the client task is pending
    (* the web server and the Ethernet task *)
    webPc,
    ethTasks,     \* eth_reconfig_task instances that have not signalled yet
    silent,       \* ghost: the last change came from a request that failed
                  \* and so signals nobody
    (* ghosts *)
    session,      \* the versions of configuration and certificates when its
                  \* handshake began
    info          \* the configuration the last DINF of the session was taken from

clientVars == <<pc, packet, tls, open, retry, delay, entered, told, session, info>>
sharedVars == <<config, certs, reconnect, hasIp, notified>>
webVars == <<webPc, ethTasks, silent>>
vars == <<clientVars, sharedVars, webVars>>

Pcs == {"network", "check", "clear", "screen", "tls", "handshake", "read", "got",
        "break", "handle", "cleanup", "pause", "backoff", "stopped"}

(* DMMV, DMRM and DKRP count as ignored: the session does not depend on    *)
(* what the actuator does with them.                                       *)
Packets == {"QINF", "CALV", "CINN", "COUT", "input", "bye", "ignored"}

WebPcs == {"idle", "signal", "spawn", "notify", "cert", "refused"}

(* What the actuator was told: the last of the calls CONNECTED and         *)
(* DISCONNECTED, and of those its queue took the last of ENTER, LEAVE and  *)
(* DISCONNECTED and the last SET_SCREEN_SIZE; and whether the number of    *)
(* the calls among these that were about the session is even.              *)
Told == [online : BOOLEAN, entered : BOOLEAN, parity : {0, 1}, screen : Configs]

Current == [config |-> config, certs |-> certs]

(* barrier_client_create and barrier_client_start have run. *)
Init ==
    /\ pc = "network" /\ packet = "none"
    /\ tls = 0 /\ open = FALSE
    /\ retry = 0 /\ delay = 0
    /\ entered = FALSE
    /\ told = [online |-> FALSE, entered |-> FALSE, parity |-> 0, screen |-> 0]
    /\ config = 0 /\ certs = 0
    /\ reconnect = FALSE /\ hasIp = FALSE /\ notified = FALSE
    /\ webPc = "idle" /\ ethTasks = 0 /\ silent = FALSE
    /\ session = Current
    /\ info = NoInfo

-----------------------------------------------------------------------------
(* actuator_queue_connected, _enter, _leave and _disconnected *)
Tells(isOnline, isEntered) ==
    told' = [online |-> isOnline, entered |-> isEntered, parity |-> 1 - told.parity,
             screen |-> told.screen]

(* The client task, before a session.                                      *)

(* xEventGroupWaitBits(EVENT_ETH_HAS_IP) ends, and not with a timeout. *)
NetworkReady ==
    /\ pc = "network" /\ hasIp
    /\ pc' = "check"
    /\ UNCHANGED <<packet, tls, open, retry, delay, entered, told, session, info,
                   sharedVars, webVars>>

(* "Check if config was changed via web server": the bit is read ... *)
CheckConfig ==
    /\ pc = "check"
    /\ IF reconnect
       THEN pc' = "clear" /\ UNCHANGED session
       ELSE pc' = "handshake" /\ session' = Current
    /\ UNCHANGED <<packet, tls, open, retry, delay, entered, told, info,
                   sharedVars, webVars>>

(* ... cleared ... *)
ClearForApply ==
    /\ pc = "clear"
    /\ reconnect' = FALSE
    /\ pc' = "screen"
    /\ UNCHANGED <<packet, tls, open, retry, delay, entered, told, session, info,
                   config, certs, hasIp, notified, webVars>>

(* ... and the configuration applied: the screen size to the actuator,     *)
(* whose refusal nobody looks at ...                                       *)
ApplyScreen ==
    /\ pc = "screen"
    /\ \/ told' = [told EXCEPT !.screen = config]
       \/ "full" \in Faults /\ UNCHANGED told
    /\ pc' = "tls"
    /\ UNCHANGED <<packet, tls, open, retry, delay, entered, session, info,
                   sharedVars, webVars>>

(* ... and server and port to a new TLS client. *)
RecreateTls ==
    /\ pc = "tls"
    /\ tls' = config /\ open' = FALSE
    /\ pc' = "network"
    /\ UNCHANGED <<packet, retry, delay, entered, told, session, info, sharedVars, webVars>>

(* vTaskDelay(reconnect_delay()) *)
Pause ==
    /\ delay' = Backoff(retry)
    /\ retry' = Counted(retry)

(* tls_client_create returns NULL: back off and start over, without a TLS  *)
(* client and with the bit cleared.                                        *)
RecreateTlsFails ==
    /\ "nomem" \in Faults
    /\ pc = "tls"
    /\ tls' = NoTls /\ open' = FALSE
    /\ delay' = Backoff(0) /\ retry' = Counted(0)
    /\ pc' = "pause"
    /\ UNCHANGED <<packet, entered, told, session, info, sharedVars, webVars>>

(* tls_client_connect can succeed. *)
CanConnect == tls # NoTls

(* tls_client_write: all is written, or some of it before the connection   *)
(* closed, which counts as sent as well; or nothing is and there is an     *)
(* error.                                                                  *)
TlsWrites(sent) == IF sent THEN open' \in BOOLEAN ELSE open' = FALSE

(* tls_client_read gets no more: the server closed the connection, or it   *)
(* broke, or it broke earlier; else what came is no good.                  *)
TlsReadEnds == open' \in (IF open THEN BOOLEAN ELSE {FALSE})

(* handshake() returns ESP_OK: TLS is up, the hellos are exchanged, and    *)
(* the actuator is told, whether or not its queue takes the command.       *)
HandshakeDone ==
    /\ pc = "handshake" /\ CanConnect
    /\ TlsWrites(TRUE)
    /\ retry' = 0
    /\ Tells(TRUE, told.entered)
    /\ pc' = "read"
    /\ UNCHANGED <<packet, tls, delay, entered, session, info, sharedVars, webVars>>

(* handshake() fails: no TLS client, no connection, a bad hello or none    *)
(* within 5 s, or a notification while it waits for one in tls_read_full.  *)
HandshakeFailed ==
    /\ pc = "handshake"
    /\ \/ UNCHANGED notified
       \/ CanConnect /\ notified /\ notified' = FALSE
    /\ open' \in (IF CanConnect THEN BOOLEAN ELSE {FALSE})
    /\ IF ShouldRetry(retry)
       THEN Pause /\ pc' = "backoff"
       ELSE pc' = "stopped" /\ UNCHANGED <<delay, retry>>
    /\ UNCHANGED <<packet, tls, entered, told, session, info,
                   config, certs, reconnect, hasIp, webVars>>

(* The delay after a failed handshake is over. *)
BackoffOver ==
    /\ pc = "backoff"
    /\ open' = FALSE
    /\ pc' = "network"
    /\ UNCHANGED <<packet, tls, retry, delay, entered, told, session, info,
                   sharedVars, webVars>>

(* The delay after a session, or after a failed tls_client_create, is. *)
PauseOver ==
    /\ pc = "pause"
    /\ pc' = "network"
    /\ UNCHANGED <<packet, tls, open, retry, delay, entered, told, session, info,
                   sharedVars, webVars>>

-----------------------------------------------------------------------------
(* The client task, in a session.                                          *)

(* read_packet returns a packet.  (The server sends CINN to a screen the   *)
(* pointer is not on and COUT to the one it is on.)                        *)
PacketRead(kind) ==
    /\ pc = "read" /\ open
    /\ kind = "CINN" => ~told.entered
    /\ kind = "COUT" => told.entered
    /\ packet' = kind
    /\ pc' = "got"
    /\ UNCHANGED <<tls, open, retry, delay, entered, told, session, info,
                   sharedVars, webVars>>

(* It returns an error: the connection is gone, or what came is no packet  *)
(* that packet_parse knows.                                                *)
ReadFailed ==
    /\ pc = "read"
    /\ TlsReadEnds
    /\ pc' = "cleanup"
    /\ UNCHANGED <<packet, tls, retry, delay, entered, told, session, info,
                   sharedVars, webVars>>

(* It is waiting for the server when the web server notifies the task. *)
ReadInterrupted ==
    /\ pc = "read" /\ open /\ notified
    /\ notified' = FALSE
    /\ pc' = "cleanup"
    /\ UNCHANGED <<packet, tls, open, retry, delay, entered, told, session, info,
                   config, certs, reconnect, hasIp, webVars>>

(* Mutant of CheckReconnect: the bit is not looked at in a session. *)
CheckReconnectNever ==
    /\ pc = "got"
    /\ pc' = "handle"
    /\ UNCHANGED <<packet, tls, open, retry, delay, entered, told, session, info,
                   sharedVars, webVars>>

(* "Check for config change - break out to reconnect": the bit is read ... *)
CheckReconnect ==
    /\ pc = "got"
    /\ pc' = IF reconnect THEN "break" ELSE "handle"
    /\ UNCHANGED <<packet, tls, open, retry, delay, entered, told, session, info,
                   sharedVars, webVars>>

(* Mutant of Break: back to the head of the loop without the cleanup. *)
BreakWithoutCleanup ==
    /\ pc = "break"
    /\ reconnect' = FALSE
    /\ pc' = "network"
    /\ UNCHANGED <<packet, tls, open, retry, delay, entered, told, session, info,
                   config, certs, hasIp, notified, webVars>>

(* ... and cleared, and the packet forgotten. *)
Break ==
    /\ pc = "break"
    /\ reconnect' = FALSE
    /\ pc' = "cleanup" /\ packet' = "none"
    /\ UNCHANGED <<tls, open, retry, delay, entered, told, session, info,
                   config, certs, hasIp, notified, webVars>>

(* send_packet, whose error ends the session *)
Reply ==
    \/ open /\ TlsWrites(TRUE) /\ pc' = "read"
    \/ TlsWrites(FALSE) /\ pc' = "cleanup"

(* handle_packet on a packet that is answered: QINF with the screen of the *)
(* configuration as it is now, CALV with itself.                           *)
HandleRequest ==
    /\ pc = "handle" /\ packet \in {"QINF", "CALV"}
    /\ Reply /\ packet' = "none"
    /\ info' = IF packet = "QINF" THEN config ELSE info
    /\ UNCHANGED <<tls, retry, delay, entered, told, session, sharedVars, webVars>>

(* On CINN and COUT: cursor_entered first, then the actuator, whose        *)
(* refusal ends the session.                                               *)
HandleEnterLeave ==
    /\ pc = "handle" /\ packet \in {"CINN", "COUT"}
    /\ entered' = (packet = "CINN") /\ packet' = "none"
    /\ \/ Tells(told.online, entered') /\ pc' = "read"
       \/ "full" \in Faults /\ pc' = "cleanup" /\ UNCHANGED told
    /\ UNCHANGED <<tls, open, retry, delay, session, info, sharedVars, webVars>>

(* On keys, buttons and the wheel: the actuator, likewise. *)
HandleInput ==
    /\ pc = "handle" /\ packet = "input"
    /\ packet' = "none"
    /\ pc' \in (IF "full" \in Faults THEN {"read", "cleanup"} ELSE {"read"})
    /\ UNCHANGED <<tls, open, retry, delay, entered, told, session, info,
                   sharedVars, webVars>>

(* On CBYE and the errors, and on everything else. *)
HandleOther ==
    /\ pc = "handle" /\ packet \in {"bye", "ignored"}
    /\ packet' = "none"
    /\ pc' = IF packet = "bye" THEN "cleanup" ELSE "read"
    /\ UNCHANGED <<tls, open, retry, delay, entered, told, session, info,
                   sharedVars, webVars>>

(* Mutant of Cleanup: cursor_entered outlives the session. *)
CleanupKeepsEntered ==
    /\ pc = "cleanup"
    /\ Tells(FALSE, FALSE)
    /\ open' = FALSE
    /\ IF ShouldRetry(retry)
       THEN Pause /\ pc' = "pause"
       ELSE pc' = "stopped" /\ UNCHANGED <<delay, retry>>
    /\ info' = NoInfo
    /\ UNCHANGED <<packet, tls, entered, session, sharedVars, webVars>>

(* The end of the session: the actuator is told, the connection closed and *)
(* the task backs off.                                                     *)
Cleanup ==
    /\ pc = "cleanup"
    /\ entered' = FALSE
    /\ Tells(FALSE, FALSE)
    /\ open' = FALSE
    /\ IF ShouldRetry(retry)
       THEN Pause /\ pc' = "pause"
       ELSE pc' = "stopped" /\ UNCHANGED <<delay, retry>>
    /\ info' = NoInfo
    /\ UNCHANGED <<packet, tls, session, sharedVars, webVars>>

ClientStep ==
    \/ NetworkReady \/ CheckConfig \/ ClearForApply \/ ApplyScreen
    \/ RecreateTls \/ RecreateTlsFails
    \/ HandshakeDone \/ HandshakeFailed \/ BackoffOver \/ PauseOver
    \/ \E kind \in Packets : PacketRead(kind)
    \/ ReadFailed \/ ReadInterrupted
    \/ CheckReconnect \/ Break
    \/ HandleRequest \/ HandleEnterLeave \/ HandleInput \/ HandleOther
    \/ Cleanup

-----------------------------------------------------------------------------
(* The web server, whose handlers run one at a time, and the tasks it      *)
(* starts.                                                                 *)

(* Mutant of WebSave: a saved configuration is not signalled. *)
WebSaveQuietly ==
    /\ webPc = "idle" /\ config < MaxSaves
    /\ config' = config + 1
    /\ silent' = FALSE
    /\ webPc' = "notify"
    /\ UNCHANGED <<clientVars, certs, reconnect, hasIp, notified, ethTasks>>

(* settings_post_handler: config_save replaces s_config (without a stick   *)
(* to save to it fails, and so does the request, and nothing changes) ...  *)
WebSave ==
    /\ webPc = "idle" /\ config < MaxSaves
    /\ config' = config + 1
    /\ silent' = FALSE
    /\ webPc' \in {"signal", "spawn"}
    /\ UNCHANGED <<clientVars, certs, reconnect, hasIp, notified, ethTasks>>

(* ... then the client is signalled ... *)
WebSignal ==
    /\ webPc = "signal"
    /\ reconnect' = TRUE
    /\ webPc' = "notify"
    /\ UNCHANGED <<clientVars, config, certs, hasIp, notified, ethTasks, silent>>

(* ... by the Ethernet task, if the VLAN changed and the task can be       *)
(* created (nobody is told when it cannot) ...                             *)
WebSpawn ==
    /\ webPc = "spawn"
    /\ \/ ethTasks' = ethTasks + 1 /\ UNCHANGED silent
       \/ "web" \in Faults /\ silent' = TRUE /\ UNCHANGED ethTasks
    /\ webPc' = "notify"
    /\ UNCHANGED <<clientVars, sharedVars>>

(* ... and woken from what it waits for. *)
WebNotify ==
    /\ webPc = "notify"
    /\ notified' = TRUE
    /\ webPc' = "idle"
    /\ UNCHANGED <<clientVars, config, certs, reconnect, hasIp, ethTasks, silent>>

(* cert_upload_handler: config_upload_cert replaces the buffer of one of   *)
(* the up to three certificates of the request.  Its result is that of the *)
(* last one: one that is refused is forgotten when the next is taken ...   *)
WebCert ==
    /\ webPc \in {"idle", "cert", "refused"} /\ certs < MaxUploads
    /\ certs' = certs + 1
    /\ \/ webPc' = "cert" /\ silent' = FALSE
       \/ "web" \in Faults /\ webPc' = "refused" /\ silent' = TRUE
    /\ UNCHANGED <<clientVars, config, reconnect, hasIp, notified, ethTasks>>

(* ... and the client is signalled, but not woken, unless the last one was *)
(* refused.                                                                *)
WebCertsEnd ==
    /\ webPc \in {"cert", "refused"}
    /\ reconnect' = (reconnect \/ webPc = "cert")
    /\ webPc' = "idle"
    /\ UNCHANGED <<clientVars, config, certs, hasIp, notified, ethTasks, silent>>

(* got_ip_event_handler.  Nothing ever clears the bit. *)
GotIp ==
    /\ ~hasIp
    /\ hasIp' = TRUE
    /\ UNCHANGED <<clientVars, config, certs, reconnect, notified, webVars>>

(* eth_reconfig_task has the VLAN set and DHCP restarted, and waited until *)
(* there is an address, or 15 s.                                           *)
EthSignal ==
    /\ ethTasks > 0
    /\ reconnect' = TRUE
    /\ ethTasks' = ethTasks - 1
    /\ UNCHANGED <<clientVars, config, certs, hasIp, notified, webPc, silent>>

WebRuns == WebSignal \/ WebSpawn \/ WebNotify \/ WebCertsEnd \/ EthSignal

EnvironmentStep == WebSave \/ WebCert \/ WebRuns \/ GotIp

Next == ClientStep \/ EnvironmentStep

Spec == Init /\ [][Next]_vars

-----------------------------------------------------------------------------
(* Fairness.  The tasks run whenever they can; DHCP gets an address in the *)
(* end; a connected server keeps sending (it sends CALV every few seconds  *)
(* and ends a session it hears nothing from) and a handshake that is tried *)
(* again and again succeeds in the end.  Nothing obliges a read to fail or *)
(* anybody to change the configuration.                                    *)
ClientRuns ==
    \/ NetworkReady \/ CheckConfig \/ ClearForApply \/ ApplyScreen \/ RecreateTls
    \/ BackoffOver \/ PauseOver \/ CheckReconnect \/ Break
    \/ HandleRequest \/ HandleEnterLeave \/ HandleInput \/ HandleOther \/ Cleanup
    \/ (pc = "handshake" /\ (HandshakeDone \/ HandshakeFailed))
    \/ (pc = "read" /\ ((~open /\ ReadFailed) \/ ReadInterrupted))

ServerTalks == \E kind \in Packets : PacketRead(kind)

FairSpec ==
    /\ Spec
    /\ WF_vars(ClientRuns) /\ WF_vars(WebRuns) /\ WF_vars(GotIp)
    /\ SF_vars(ServerTalks) /\ SF_vars(HandshakeDone)

-----------------------------------------------------------------------------
(* The properties.                                                         *)

(* Every variable holds what its C type and its use allow. *)
TypeOK ==
    /\ pc \in Pcs /\ packet \in Packets \cup {"none"}
    /\ tls \in Configs \cup {NoTls} /\ open \in BOOLEAN
    /\ retry \in Retry /\ delay \in 0..MaxDelay
    /\ entered \in BOOLEAN /\ told \in Told
    /\ config \in Configs /\ certs \in 0..MaxUploads
    /\ reconnect \in BOOLEAN /\ hasIp \in BOOLEAN /\ notified \in BOOLEAN
    /\ webPc \in WebPcs /\ ethTasks \in Nat /\ silent \in BOOLEAN
    /\ session \in [config : Configs, certs : 0..MaxUploads]
    /\ info \in Configs \cup {NoInfo}

(* The calls to the actuator keep the order it relies on: whatever breaks  *)
(* a session, and wherever, it is closed exactly once and before the next  *)
(* one is opened (barrier_client_task).                                    *)
Protocol == INSTANCE SessionProtocol WITH
    online <- told.online, entered <- told.entered, parity <- told.parity
KeepsProtocol == Protocol!Spec

(* What the client believes of the pointer, and makes its jiggle depend    *)
(* on, is what it told the actuator: also after a session that ended with  *)
(* the pointer on the screen, and after a refused ENTER or LEAVE.          *)
EnteredAgrees == pc \in {"read", "got", "break", "handle"} => entered = told.entered

(* The screen size changes between sessions only: the HID task never       *)
(* scales half a session by one size and half by another.                  *)
ScreenFixedInSession == [][told.online => told'.screen = told.screen]_vars

(* The bit is up or will be, or the session is being closed. *)
Doomed ==
    \/ reconnect \/ webPc \in {"signal", "spawn", "cert"} \/ ethTasks > 0
    \/ pc = "cleanup"

(* A session that runs on an outdated configuration or outdated            *)
(* certificates is doomed, unless the last change came from a request that *)
(* failed after it (its Ethernet task could not be created, or a later     *)
(* certificate was refused): clearing the bit in the one place does not    *)
(* hide a change from the other.                                           *)
StaleSessionDoomed == told.online /\ session # Current /\ ~silent => Doomed

(* A saved configuration or an uploaded certificate ends the session that  *)
(* was opened before it ("barrier reconnects"), unless its request fails   *)
(* after it as above, of which no one tells the client.                    *)
StaleSessionEnds == (told.online /\ session # Current) ~> (~told.online \/ silent)

(* The client comes back: after any failure, and with a notification left  *)
(* over from an earlier change, there is a session again in the end,       *)
(* unless the TLS client could not be created anew.                        *)
SessionReturns == ~told.online ~> (told.online \/ tls = NoTls)

-----------------------------------------------------------------------------
(* What comments of the code say, and the code does not do.                *)

(* "Server tracks coords in physical pixels. [...] Keep the chain 1:1      *)
(* physical throughout": when no change is on its way, the screen the      *)
(* server was told is the one the HID task scales by.                      *)
ChainIsOneToOne ==
    told.online /\ info # NoInfo /\ ~reconnect /\ webPc = "idle" /\ ethTasks = 0
    /\ pc # "cleanup"
        => info = told.screen
=============================================================================
