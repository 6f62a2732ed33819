------------------------ MODULE BarrierClientProofs -------------------------
(***************************************************************************)
(* Proofs about BarrierClient for any number of saves and uploads, any     *)
(* delays and any set of faults.                                           *)
(***************************************************************************)
EXTENDS BarrierClient, ReconnectProofs

(* The program points between HandshakeDone and Cleanup. *)
SessionPcs == {"read", "got", "break", "handle", "cleanup"}

(* What the other parts need of the types. *)
Shape ==
    /\ pc \in Pcs /\ packet \in Packets \cup {"none"}
    /\ entered \in BOOLEAN /\ told \in Told
    /\ config \in Configs /\ ethTasks \in Nat /\ reconnect \in BOOLEAN

(* The actuator is online exactly from HandshakeDone to Cleanup, and the   *)
(* pointer is on the screen at most then.                                  *)
Phase ==
    /\ told.online <=> pc \in SessionPcs
    /\ told.entered => told.online

(* cursor_entered is what the actuator was told, except that it may be     *)
(* ahead of it when a refusal has already ended the session.               *)
Pointer ==
    /\ pc \in SessionPcs \ {"cleanup"} => entered = told.entered
    /\ pc \notin SessionPcs => ~entered

(* A CINN or COUT that was read is still one that was to be expected.      *)
InTurn ==
    pc \in {"got", "handle"} =>
        /\ packet = "CINN" => ~told.entered
        /\ packet = "COUT" => told.entered

ClientInv == Shape /\ Phase /\ Pointer /\ InTurn

LEMMA ClientInvInit == Init => ClientInv
<1> SUFFICES ASSUME Init PROVE ClientInv
  OBVIOUS
<1>1. 0 \in Configs
  BY ClientAssumption DEF Configs
<1>2. pc = "network" /\ packet = "none" /\ entered = FALSE /\ reconnect = FALSE
  BY DEF Init
<1>3. told = [online |-> FALSE, entered |-> FALSE, parity |-> 0, screen |-> 0] /\ config = 0 /\ ethTasks = 0
  BY DEF Init
<1> QED
  BY <1>1, <1>2, <1>3
  DEF ClientInv, Shape, Phase, Pointer, InTurn, SessionPcs, Pcs, Packets, Told

(* What a call about the session makes of the actuator's view. *)
LEMMA TellsType ==
  ASSUME told \in Told, NEW isOnline \in BOOLEAN, NEW isEntered \in BOOLEAN,
         Tells(isOnline, isEntered)
  PROVE  /\ told' \in Told
         /\ told'.online = isOnline /\ told'.entered = isEntered
         /\ told'.parity = 1 - told.parity
         /\ told'.screen = told.screen
  BY DEF Tells, Told

(* Every step of the client task preserves the invariant. *)
LEMMA ClientInvClientStep ==
  ASSUME ClientInv, ClientStep PROVE ClientInv'
<1> USE DEF ClientInv, Shape, Phase, Pointer, InTurn, SessionPcs, Pcs, Packets, Told,
            sharedVars, webVars
<1>1. CASE NetworkReady
  BY <1>1 DEF NetworkReady
<1>2. CASE CheckConfig
  BY <1>2 DEF CheckConfig
<1>3. CASE ClearForApply
  BY <1>3 DEF ClearForApply
<1>4. CASE ApplyScreen
  BY <1>4 DEF ApplyScreen
<1>5. CASE RecreateTls
  BY <1>5 DEF RecreateTls
<1>6. CASE RecreateTlsFails
  BY <1>6 DEF RecreateTlsFails
<1>7. CASE HandshakeDone
  <2>1. pc = "handshake" /\ pc' = "read" /\ Tells(TRUE, told.entered)
    BY <1>7 DEF HandshakeDone
  <2>2. told' \in Told /\ told'.online = TRUE /\ told'.entered = told.entered
    BY <2>1, TellsType DEF Told
  <2>3. UNCHANGED <<packet, entered, config, reconnect, ethTasks>>
    BY <1>7 DEF HandshakeDone
  <2>4. ~told.online /\ ~told.entered /\ ~entered
    BY <2>1
  <2> QED
    BY <2>1, <2>2, <2>3, <2>4
<1>8. CASE HandshakeFailed
  <2>1. pc = "handshake" /\ pc' \in {"backoff", "stopped"}
    BY <1>8 DEF HandshakeFailed
  <2>2. UNCHANGED <<packet, entered, told, config, reconnect, ethTasks>>
    BY <1>8 DEF HandshakeFailed
  <2> QED
    BY <2>1, <2>2
<1>9. CASE BackoffOver
  BY <1>9 DEF BackoffOver
<1>10. CASE PauseOver
  BY <1>10 DEF PauseOver
<1>11. CASE \E kind \in Packets : PacketRead(kind)
  BY <1>11 DEF PacketRead
<1>12. CASE ReadFailed
  BY <1>12 DEF ReadFailed
<1>13. CASE ReadInterrupted
  BY <1>13 DEF ReadInterrupted
<1>14. CASE CheckReconnect
  BY <1>14 DEF CheckReconnect
<1>15. CASE Break
  BY <1>15 DEF Break
<1>16. CASE HandleRequest
  BY <1>16 DEF HandleRequest, Reply, TlsWrites
<1>17. CASE HandleEnterLeave
  <2>1. /\ pc = "handle" /\ pc' \in {"read", "cleanup"}
        /\ entered' \in BOOLEAN /\ packet' = "none"
        /\ UNCHANGED <<config, reconnect, ethTasks>>
    BY <1>17 DEF HandleEnterLeave
  <2>2. CASE Tells(told.online, entered') /\ pc' = "read"
    <3>1. told' \in Told /\ told'.online = told.online /\ told'.entered = entered'
      BY <2>1, <2>2, TellsType DEF Told
    <3> QED
      BY <2>1, <2>2, <3>1
  <2>3. CASE pc' = "cleanup" /\ UNCHANGED told
    BY <2>1, <2>3
  <2> QED
    BY <1>17, <2>2, <2>3 DEF HandleEnterLeave
<1>18. CASE HandleInput
  BY <1>18 DEF HandleInput
<1>19. CASE HandleOther
  BY <1>19 DEF HandleOther
<1>20. CASE Cleanup
  <2>1. pc = "cleanup" /\ pc' \in {"pause", "stopped"}
    BY <1>20 DEF Cleanup
  <2>2. entered' = FALSE /\ Tells(FALSE, FALSE)
    BY <1>20 DEF Cleanup
  <2>3. UNCHANGED <<packet, config, reconnect, ethTasks>>
    BY <1>20 DEF Cleanup
  <2>4. told' \in Told /\ told'.online = FALSE /\ told'.entered = FALSE
    BY <2>2, TellsType
  <2> QED
    BY <2>1, <2>2, <2>3, <2>4
<1> QED
  BY <1>1, <1>2, <1>3, <1>4, <1>5, <1>6, <1>7, <1>8, <1>9, <1>10, <1>11, <1>12, <1>13,
     <1>14, <1>15, <1>16, <1>17, <1>18, <1>19, <1>20
  DEF ClientStep

(* So does every step of the web server and the Ethernet task. *)
LEMMA ClientInvEnvironmentStep ==
  ASSUME ClientInv, EnvironmentStep PROVE ClientInv'
<1>1. UNCHANGED <<pc, packet, entered, told>>
  BY DEF EnvironmentStep, WebSave, WebCert, WebRuns, WebSignal, WebSpawn, WebNotify,
         WebCertsEnd, EthSignal, GotIp, clientVars, sharedVars
<1>2. config' \in Configs
  BY ClientAssumption
  DEF ClientInv, Shape, Configs, EnvironmentStep, WebSave, WebCert, WebRuns, WebSignal,
      WebSpawn, WebNotify, WebCertsEnd, EthSignal, GotIp, sharedVars
<1>3. reconnect' \in BOOLEAN
  BY DEF ClientInv, Shape, EnvironmentStep, WebSave, WebCert, WebRuns, WebSignal,
      WebSpawn, WebNotify, WebCertsEnd, EthSignal, GotIp, sharedVars
<1>4. ethTasks' \in Nat
  BY DEF ClientInv, Shape, EnvironmentStep, WebSave, WebCert, WebRuns, WebSignal,
      WebSpawn, WebNotify, WebCertsEnd, EthSignal, GotIp, webVars
<1> QED
  BY <1>1, <1>2, <1>3, <1>4 DEF ClientInv, Shape, Phase, Pointer, InTurn

LEMMA ClientInvNext == ASSUME ClientInv, [Next]_vars PROVE ClientInv'
<1>1. CASE UNCHANGED vars
  BY <1>1 DEF ClientInv, Shape, Phase, Pointer, InTurn, vars, clientVars, sharedVars, webVars
<1> QED
  BY <1>1, ClientInvClientStep, ClientInvEnvironmentStep DEF Next

(* The program points of a session, the actuator's view of it and          *)
(* cursor_entered stay in step.                                            *)
THEOREM ClientInvHolds == Spec => []ClientInv
  BY ClientInvInit, ClientInvNext, PTL DEF Spec

(* cursor_entered is what the actuator was told (handle_packet and the     *)
(* cleanup of barrier_client_task).                                        *)
THEOREM EnteredIsWhatWasTold == Spec => []EnteredAgrees
<1>1. ClientInv => EnteredAgrees
  BY DEF ClientInv, Pointer, EnteredAgrees, SessionPcs
<1> QED
  BY <1>1, ClientInvHolds, PTL

-----------------------------------------------------------------------------
(* The screen size never changes in a session: it is only applied at the   *)
(* head of the loop of barrier_client_task, where ClientInv has the        *)
(* actuator offline.                                                       *)
THEOREM ScreenIsFixed == Spec => ScreenFixedInSession
<1>1. ASSUME ClientInv, [Next]_vars, told.online PROVE told'.screen = told.screen
  <2>1. CASE ApplyScreen
    BY <1>1, <2>1 DEF ApplyScreen, ClientInv, Phase, SessionPcs
  <2>2. CASE HandshakeDone
    BY <1>1, <2>2 DEF HandshakeDone, Tells, ClientInv, Shape, Told
  <2>3. CASE HandleEnterLeave
    BY <1>1, <2>3 DEF HandleEnterLeave, Tells, ClientInv, Shape, Told
  <2>4. CASE Cleanup
    <3>1. Tells(FALSE, FALSE)
      BY <2>4 DEF Cleanup
    <3> QED
      BY <3>1, <1>1, TellsType DEF ClientInv, Shape
  <2>5. CASE UNCHANGED told
    BY <2>5
  <2>6. [Next]_vars => UNCHANGED told \/ ApplyScreen \/ HandshakeDone \/ HandleEnterLeave \/ Cleanup
    BY DEF Next, ClientStep, NetworkReady, CheckConfig, ClearForApply, RecreateTls,
           RecreateTlsFails, HandshakeFailed, BackoffOver, PauseOver, PacketRead, ReadFailed,
           ReadInterrupted, CheckReconnect, Break, HandleRequest, HandleInput, HandleOther,
           EnvironmentStep, WebSave, WebCert, WebRuns, WebSignal, WebSpawn, WebNotify,
           WebCertsEnd, EthSignal, GotIp, vars, clientVars
  <2> QED
    BY <1>1, <2>1, <2>2, <2>3, <2>4, <2>5, <2>6
<1>2. ClientInv /\ [Next]_vars => [told.online => told'.screen = told.screen]_vars
  BY <1>1
<1> QED
  BY <1>2, ClientInvHolds, PTL DEF Spec, ScreenFixedInSession

-----------------------------------------------------------------------------
(* The client implements SessionProtocol.                                  *)

LEMMA ProtocolStep ==
  ASSUME ClientInv, [Next]_vars
  PROVE  [Protocol!Next]_<<told.online, told.entered, told.parity>>
<1> USE DEF Protocol!Next, Protocol!Connect, Protocol!Enter, Protocol!Leave,
            Protocol!Disconnect, Protocol!Call
<1>1. CASE ApplyScreen
  BY <1>1 DEF ApplyScreen, ClientInv, Shape, Told
<1>2. CASE HandshakeDone
  BY <1>2 DEF HandshakeDone, Tells, ClientInv, Shape, Phase, Told, SessionPcs
<1>3. CASE HandleEnterLeave
  <2>1. /\ pc = "handle" /\ packet \in {"CINN", "COUT"}
        /\ entered' = (packet = "CINN")
        /\ Tells(told.online, entered') \/ UNCHANGED told
    BY <1>3 DEF HandleEnterLeave
  <2>2. told.online = TRUE /\ told.entered = (packet = "COUT")
    BY <2>1 DEF ClientInv, Shape, Phase, InTurn, Told, SessionPcs
  <2>3. CASE Tells(told.online, entered')
    <3>1. entered' \in BOOLEAN /\ told.online \in BOOLEAN
      BY <2>1, <2>2
    <3>2. /\ told'.online = told.online /\ told'.entered = entered'
          /\ told'.parity = 1 - told.parity
      BY <2>3, <3>1, TellsType DEF ClientInv, Shape
    <3>3. CASE packet = "CINN"
      <4>1. ~told.entered /\ told'.entered = TRUE
        BY <2>1, <2>2, <3>2, <3>3
      <4> QED
        BY <2>2, <3>2, <4>1
    <3>4. CASE packet = "COUT"
      <4>1. told.entered /\ told'.entered = FALSE
        BY <2>1, <2>2, <3>2, <3>4
      <4> QED
        BY <2>2, <3>2, <4>1
    <3> QED
      BY <2>1, <3>3, <3>4
  <2> QED
    BY <2>1, <2>3
<1>4. CASE Cleanup
  <2>1. pc = "cleanup" /\ Tells(FALSE, FALSE)
    BY <1>4 DEF Cleanup
  <2>2. told.online
    BY <2>1 DEF ClientInv, Phase, SessionPcs
  <2>3. /\ told'.online = FALSE /\ told'.entered = FALSE
        /\ told'.parity = 1 - told.parity
    BY <2>1, TellsType DEF ClientInv, Shape
  <2> QED
    BY <2>2, <2>3
<1>5. CASE UNCHANGED told
  BY <1>5
<1>6. UNCHANGED told \/ ApplyScreen \/ HandshakeDone \/ HandleEnterLeave \/ Cleanup
  BY DEF Next, ClientStep, NetworkReady, CheckConfig, ClearForApply, RecreateTls,
         RecreateTlsFails, HandshakeFailed, BackoffOver, PauseOver, PacketRead, ReadFailed,
         ReadInterrupted, CheckReconnect, Break, HandleRequest, HandleInput, HandleOther,
         EnvironmentStep, WebSave, WebCert, WebRuns, WebSignal, WebSpawn, WebNotify,
         WebCertsEnd, EthSignal, GotIp, vars, clientVars
<1> QED
  BY <1>1, <1>2, <1>3, <1>4, <1>5, <1>6

(* However sessions end, the actuator is told CONNECTED, ENTER and LEAVE   *)
(* in turn and DISCONNECTED, in this order (barrier_client_task).          *)
THEOREM ClientKeepsProtocol == Spec => KeepsProtocol
<1>1. Init => Protocol!Init
  BY DEF Init, Protocol!Init
<1> QED
  BY <1>1, ProtocolStep, ClientInvHolds, PTL DEF Spec, KeepsProtocol, Protocol!Spec

-----------------------------------------------------------------------------
(* No change of the configuration is missed.                               *)

(* A change since the handshake began is announced: the invariant behind   *)
(* StaleSessionDoomed also covers the handshake, where the session is not  *)
(* open yet but the bit has been tested.                                   *)
Announced ==
    pc \in SessionPcs \cup {"handshake"} /\ session # Current /\ ~silent =>
        Doomed

LEMMA AnnouncedClientStep ==
  ASSUME ClientInv, Announced, ClientStep PROVE Announced'
<1> USE DEF Announced, Doomed, SessionPcs, Current, sharedVars, webVars
<1>1. CASE CheckConfig
  BY <1>1 DEF CheckConfig
<1>2. CASE HandshakeDone
  BY <1>2 DEF HandshakeDone, Tells
<1>3. CASE \E kind \in Packets : PacketRead(kind)
  BY <1>3 DEF PacketRead
<1>4. CASE CheckReconnect
  BY <1>4 DEF CheckReconnect
<1>5. CASE Break
  BY <1>5 DEF Break
<1>6. CASE HandleRequest
  BY <1>6 DEF HandleRequest, Reply, TlsWrites
<1>7. CASE HandleEnterLeave
  BY <1>7 DEF HandleEnterLeave, Tells
<1>8. CASE HandleInput
  BY <1>8 DEF HandleInput
<1>9. CASE HandleOther
  BY <1>9 DEF HandleOther
<1>10. CASE ReadFailed \/ ReadInterrupted
  BY <1>10 DEF ReadFailed, ReadInterrupted
<1>11. CASE NetworkReady \/ ClearForApply \/ ApplyScreen \/ RecreateTls \/ RecreateTlsFails
            \/ HandshakeFailed \/ BackoffOver \/ PauseOver \/ Cleanup
  <2>1. pc' \in {"check", "screen", "tls", "network", "pause", "backoff", "stopped"}
    BY <1>11 DEF NetworkReady, ClearForApply, ApplyScreen, RecreateTls, RecreateTlsFails,
                 HandshakeFailed, BackoffOver, PauseOver, Cleanup
  <2> QED
    BY <2>1
<1> QED
  BY <1>1, <1>2, <1>3, <1>4, <1>5, <1>6, <1>7, <1>8, <1>9, <1>10, <1>11 DEF ClientStep

LEMMA AnnouncedEnvironmentStep ==
  ASSUME ClientInv, Announced, EnvironmentStep PROVE Announced'
<1> USE DEF Announced, Doomed, SessionPcs, Current, clientVars, sharedVars, webVars
<1>1. CASE WebSave
  BY <1>1 DEF WebSave
<1>2. CASE WebCert
  BY <1>2 DEF WebCert
<1>3. CASE WebSignal
  BY <1>3 DEF WebSignal
<1>4. CASE WebSpawn
  BY <1>4 DEF WebSpawn, ClientInv, Shape
<1>5. CASE WebNotify
  BY <1>5 DEF WebNotify
<1>6. CASE WebCertsEnd
  BY <1>6 DEF WebCertsEnd
<1>7. CASE EthSignal
  BY <1>7 DEF EthSignal
<1>8. CASE GotIp
  BY <1>8 DEF GotIp
<1> QED
  BY <1>1, <1>2, <1>3, <1>4, <1>5, <1>6, <1>7, <1>8 DEF EnvironmentStep, WebRuns

(* A session on an outdated configuration or outdated certificates always  *)
(* has its end announced, although two places of barrier_client_task clear *)
(* the bit and three tasks set it.                                         *)
THEOREM StaleSessionsAreDoomed == Spec => []StaleSessionDoomed
<1>1. Init => Announced
  BY DEF Init, Announced
<1>2. ClientInv /\ Announced /\ [Next]_vars => Announced'
  <2>1. CASE UNCHANGED vars
    BY <2>1 DEF Announced, Doomed, Current, vars, clientVars, sharedVars, webVars
  <2> QED
    BY <2>1, AnnouncedClientStep, AnnouncedEnvironmentStep DEF Next
<1>3. ClientInv /\ Announced => StaleSessionDoomed
  BY DEF ClientInv, Phase, Announced, StaleSessionDoomed
<1> QED
  BY <1>1, <1>2, <1>3, ClientInvHolds, PTL DEF Spec

-----------------------------------------------------------------------------
(* The types.                                                              *)

(* The back-off in range. *)
Delays == retry \in Retry /\ delay \in 0..MaxDelay

(* What else TypeOK says of variables that Shape does not need. *)
Versions ==
    /\ tls \in Configs \cup {NoTls} /\ open \in BOOLEAN
    /\ certs \in 0..MaxUploads
    /\ hasIp \in BOOLEAN /\ notified \in BOOLEAN /\ webPc \in WebPcs /\ silent \in BOOLEAN
    /\ session \in [config : Configs, certs : 0..MaxUploads]
    /\ info \in Configs \cup {NoInfo}

LEMMA DelaysKept ==
  ASSUME Delays, [Next]_vars PROVE Delays'
<1>1. CASE RecreateTlsFails
  BY <1>1, BackoffRange, CountedType, NoRetryYet DEF RecreateTlsFails, Delays
<1>2. CASE HandshakeDone
  BY <1>2, NoRetryYet DEF HandshakeDone, Delays
<1>3. CASE HandshakeFailed \/ Cleanup
  <2>1. Pause \/ UNCHANGED <<delay, retry>>
    BY <1>3 DEF HandshakeFailed, Cleanup
  <2> QED
    BY <2>1, BackoffRange, CountedType DEF Pause, Delays
<1>4. CASE UNCHANGED <<retry, delay>>
  BY <1>4 DEF Delays
<1>5. \/ UNCHANGED <<retry, delay>>
      \/ RecreateTlsFails \/ HandshakeDone \/ HandshakeFailed \/ Cleanup
  BY DEF Next, ClientStep, NetworkReady, CheckConfig, ClearForApply, ApplyScreen, RecreateTls,
         BackoffOver, PauseOver, PacketRead, ReadFailed, ReadInterrupted, CheckReconnect,
         Break, HandleRequest, HandleEnterLeave, HandleInput, HandleOther, EnvironmentStep,
         WebSave, WebCert, WebRuns, WebSignal, WebSpawn, WebNotify, WebCertsEnd,
         EthSignal, GotIp, vars, clientVars
<1> QED
  BY <1>1, <1>2, <1>3, <1>4, <1>5

LEMMA VersionsKept ==
  ASSUME ClientInv, Versions, [Next]_vars PROVE Versions'
<1> USE DEF Versions, ClientInv, Shape, Current, sharedVars, webVars, WebPcs
<1>1. CASE CheckConfig
  BY <1>1 DEF CheckConfig
<1>2. CASE RecreateTls \/ RecreateTlsFails
  BY <1>2 DEF RecreateTls, RecreateTlsFails
<1>3. CASE HandshakeDone
  BY <1>3 DEF HandshakeDone, TlsWrites
<1>4. CASE HandshakeFailed
  BY <1>4 DEF HandshakeFailed
<1>5. CASE HandleRequest
  <2>1. open' \in BOOLEAN
    BY <1>5 DEF HandleRequest, Reply, TlsWrites
  <2>2. info' = IF packet = "QINF" THEN config ELSE info
    BY <1>5 DEF HandleRequest
  <2>3. UNCHANGED <<tls, session, sharedVars, webVars>>
    BY <1>5 DEF HandleRequest
  <2> QED
    BY <2>1, <2>2, <2>3
<1>6. CASE ReadFailed \/ ReadInterrupted \/ BackoffOver \/ Cleanup
  BY <1>6 DEF ReadFailed, TlsReadEnds, ReadInterrupted, BackoffOver, Cleanup
<1>7. CASE NetworkReady \/ ClearForApply \/ ApplyScreen \/ PauseOver
           \/ (\E kind \in Packets : PacketRead(kind)) \/ CheckReconnect \/ Break
           \/ HandleEnterLeave \/ HandleInput \/ HandleOther
  BY <1>7 DEF NetworkReady, ClearForApply, ApplyScreen, PauseOver, PacketRead,
              CheckReconnect, Break, HandleEnterLeave, HandleInput, HandleOther
<1>8. CASE EnvironmentStep
  <2>1. certs' \in 0..MaxUploads
    BY <1>8, ClientAssumption
    DEF EnvironmentStep, WebSave, WebCert, WebRuns, WebSignal, WebSpawn, WebNotify,
        WebCertsEnd, EthSignal, GotIp
  <2>2. UNCHANGED <<tls, open, session, info>>
    BY <1>8 DEF EnvironmentStep, WebSave, WebCert, WebRuns, WebSignal, WebSpawn, WebNotify,
                WebCertsEnd, EthSignal, GotIp, clientVars
  <2>3. hasIp' \in BOOLEAN /\ notified' \in BOOLEAN /\ webPc' \in WebPcs /\ silent' \in BOOLEAN
    BY <1>8 DEF EnvironmentStep, WebSave, WebCert, WebRuns, WebSignal, WebSpawn, WebNotify,
                WebCertsEnd, EthSignal, GotIp
  <2> QED
    BY <2>1, <2>2, <2>3
<1>9. CASE UNCHANGED vars
  BY <1>9 DEF vars, clientVars
<1> QED
  BY <1>1, <1>2, <1>3, <1>4, <1>5, <1>6, <1>7, <1>8, <1>9 DEF Next, ClientStep

(* Every variable of the session holds what its C type and its use allow   *)
(* (TypeOK): among them the delay of reconnect_delay, which stays within   *)
(* its maximum although the shift that computes it overflows its word, and *)
(* retry_count, as far as the shift looks at it.                           *)
THEOREM ClientTypeOK == Spec => []TypeOK
<1>1. ASSUME Init PROVE Delays /\ Versions
  <2>1. 0 \in Configs /\ 0 \in 0..MaxUploads
    BY ClientAssumption DEF Configs
  <2>2. Delays
    BY <1>1, NoRetryYet DEF Init, Delays
  <2>3. /\ tls = 0 /\ open = FALSE /\ certs = 0 /\ hasIp = FALSE /\ notified = FALSE
        /\ webPc = "idle" /\ silent = FALSE /\ session = [config |-> 0, certs |-> 0] /\ info = NoInfo
    BY <1>1 DEF Init, Current
  <2> QED
    BY <2>1, <2>2, <2>3 DEF Versions, WebPcs
<1>2. Delays /\ Versions /\ ClientInv /\ [Next]_vars => Delays' /\ Versions'
  BY DelaysKept, VersionsKept
<1>3. Delays /\ Versions /\ ClientInv => TypeOK
  BY DEF Delays, Versions, ClientInv, Shape, TypeOK
<1> QED
  BY <1>1, <1>2, <1>3, ClientInvHolds, PTL DEF Spec
=============================================================================
