-------------------------- MODULE HidPipelineProofs --------------------------
(***************************************************************************)
(* Proofs about what HidActuator makes of the commands on their way from   *)
(* the network task to the host: that no key sticks, that host and server  *)
(* agree, that nothing is scrolled twice.  They are in a module of their   *)
(* own because they share one view of the state: the command the HID task  *)
(* has in hand, the queue and the command the network task is stuck with   *)
(* are ONE queue, which the steps between its three parts do not change.   *)
(***************************************************************************)
EXTENDS HidActuatorProofs, SequenceTheorems, FunctionTheorems, FiniteSetTheorems

USE DEF vars, netVars, sharedVars, hidVars, aimVars, usbVars, powerVars, usbButEndpoint,
        usbButPending

(* An ENTER is in hand until its modifiers are shown, behind the position. *)
Entering ==
    Doing = "ENTER" /\ hidPc \in {"store_x", "store_y", "load_x", "load_y", "once"}

InHand == IF hidPc = "exec" \/ Entering THEN <<cmd>> ELSE <<>>
Held == IF netPc = "full" THEN <<netCmd>> ELSE <<>>
Pipe == (InHand \o queue) \o Held

(* The parts of the pipeline hold commands. *)
LEMMA PipeType ==
  ASSUME TypeOK
  PROVE  /\ InHand \in Seq(Command) /\ queue \in Seq(Command) /\ Held \in Seq(Command)
         /\ InHand \o queue \in Seq(Command)
         /\ Pipe \in Seq(Command)
<1>1. queue \in Seq(Command)
  BY DEF TypeOK
<1>2. InHand \in Seq(Command)
  <2>1. hidPc = "exec" \/ Entering => cmd \in Command
    BY DEF TypeOK, Entering, Doing
  <2> QED
    BY <2>1 DEF InHand
<1>3. Held \in Seq(Command)
  <2>1. netPc = "full" => netCmd \in Command
    BY DEF TypeOK
  <2> QED
    BY <2>1 DEF Held
<1>4. InHand \o queue \in Seq(Command)
  BY <1>1, <1>2, ConcatProperties
<1> QED
  BY <1>1, <1>2, <1>3, <1>4, ConcatProperties DEF Pipe

(* The next command goes to the end of the pipeline, whether the queue has *)
(* room for it or not.                                                     *)
LEMMA PipeGrows ==
  ASSUME TypeOK, netPc = "idle", NEW c \in Command, Enqueue(c), UNCHANGED <<hidPc, cmd>>
  PROVE  Pipe' = Append(Pipe, c)
<1>1. /\ InHand \in Seq(Command) /\ queue \in Seq(Command) /\ InHand \o queue \in Seq(Command)
      /\ InHand' = InHand /\ <<c>> \in Seq(Command)
  BY PipeType DEF InHand, Entering, Doing
<1>2. Pipe = InHand \o queue
  <2>1. Held = <<>>
    BY DEF Held
  <2> QED
    BY <1>1, <2>1, ConcatEmptySeq DEF Pipe
<1>3. Append(Pipe, c) = (InHand \o queue) \o <<c>>
  BY <1>1, <1>2, AppendIsConcat
<1>4. CASE Len(queue) < QueueDepth
  <2>1. queue' = Append(queue, c) /\ netPc' = "give"
    BY <1>4 DEF Enqueue
  <2>2. queue' = queue \o <<c>> /\ Held' = <<>>
    BY <1>1, <2>1, AppendIsConcat DEF Held
  <2>3. InHand \o queue' = (InHand \o queue) \o <<c>>
    BY <1>1, <2>2, ConcatAssociative
  <2>4. (InHand \o queue) \o <<c>> \in Seq(Command)
    BY <1>1, ConcatProperties
  <2> QED
    BY <1>1, <1>3, <2>2, <2>3, <2>4, ConcatEmptySeq DEF Pipe
<1>5. CASE ~(Len(queue) < QueueDepth)
  <2>1. queue' = queue /\ netPc' = "full" /\ netCmd' = c
    BY <1>5 DEF Enqueue
  <2>2. Held' = <<c>>
    BY <2>1 DEF Held
  <2> QED
    BY <1>1, <1>3, <2>1, <2>2 DEF Pipe
<1> QED
  BY <1>4, <1>5

(* The steps between the parts of the pipeline do not change it. *)
LEMMA PipeUnblocks ==
  ASSUME TypeOK, NetUnblock
  PROVE  Pipe' = Pipe
<1>1. /\ netPc = "full" /\ netPc' = "give" /\ queue' = Append(queue, netCmd)
      /\ UNCHANGED <<hidPc, cmd>>
  BY DEF NetUnblock
<1>2. /\ InHand \in Seq(Command) /\ queue \in Seq(Command) /\ netCmd \in Command
      /\ <<netCmd>> \in Seq(Command) /\ InHand' = InHand
  BY <1>1, PipeType DEF InHand, Entering, Doing, TypeOK
<1>3. queue' = queue \o <<netCmd>> /\ Held' = <<>> /\ Held = <<netCmd>>
  BY <1>1, <1>2, AppendIsConcat DEF Held
<1>4. InHand \o queue' = (InHand \o queue) \o <<netCmd>>
  BY <1>2, <1>3, ConcatAssociative
<1>5. (InHand \o queue) \o <<netCmd>> \in Seq(Command)
  BY <1>2, ConcatProperties
<1> QED
  BY <1>2, <1>3, <1>4, <1>5, ConcatEmptySeq DEF Pipe

LEMMA PipeReceives ==
  ASSUME TypeOK, HidReceive
  PROVE  Pipe' = Pipe
<1>1. Held' = Held /\ hidPc = "recv" /\ InHand = <<>>
  BY DEF HidReceive, Held, InHand, Entering
<1>2. InHand \o queue = queue
  BY <1>1, PipeType, ConcatEmptySeq
<1>3. CASE queue # <<>>
  <2>1. InHand' = <<Head(queue)>> /\ queue' = Tail(queue)
    BY <1>3 DEF HidReceive, InHand
  <2>2. queue \in Seq(Command)
    BY PipeType
  <2>3. <<Head(queue)>> \o Tail(queue) = queue
    BY <1>3, <2>2
  <2> QED
    BY <1>1, <1>2, <2>1, <2>3 DEF Pipe
<1>4. CASE queue = <<>>
  <2>1. InHand' = <<>> /\ queue' = queue
    BY <1>4 DEF HidReceive, InHand, Entering
  <2> QED
    BY <1>1, <2>1 DEF Pipe
<1> QED
  BY <1>3, <1>4

(* A command that is executed was the head of the pipeline. *)
LEMMA PipeYields ==
  ASSUME TypeOK, cmd \in Command, InHand = <<cmd>>, InHand' = <<>>,
         UNCHANGED <<netPc, netCmd, queue>>
  PROVE  Pipe # <<>> /\ Head(Pipe) = cmd /\ Pipe' = Tail(Pipe)
<1>1. /\ <<cmd>> \in Seq(Command)
      /\ Held' = Held /\ queue \in Seq(Command) /\ Held \in Seq(Command)
  BY PipeType DEF Held
<1>2. Pipe' = queue \o Held
  BY <1>1, ConcatEmptySeq DEF Pipe
<1>3. Pipe = <<cmd>> \o (queue \o Held)
  BY <1>1, ConcatAssociative DEF Pipe
<1>4. queue \o Held \in Seq(Command)
  BY <1>1, ConcatProperties
<1> HIDE DEF Pipe
<1>5. ASSUME NEW s \in Seq(Command)
      PROVE  <<cmd>> \o s # <<>> /\ Head(<<cmd>> \o s) = cmd /\ Tail(<<cmd>> \o s) = s
  <2>1. /\ <<cmd>> \o s \in Seq(Command) /\ Len(<<cmd>> \o s) = 1 + Len(s)
        /\ \A i \in 1..(1 + Len(s)) :
             (<<cmd>> \o s)[i] = IF i <= 1 THEN cmd ELSE s[i - 1]
    BY <1>1, ConcatProperties
  <2>2. (<<cmd>> \o s)[1] = cmd /\ <<cmd>> \o s # <<>>
    BY <2>1
  <2>3. Tail(<<cmd>> \o s) = s
    BY <2>1, <2>2, HeadTailProperties, SeqEqual
  <2> QED
    BY <2>1, <2>2, <2>3
<1> QED
  BY <1>2, <1>3, <1>4, <1>5

(* Nothing else touches it. *)
LEMMA PipeKept ==
  ASSUME InHand' = InHand, UNCHANGED <<netPc, netCmd, queue>>
  PROVE  Pipe' = Pipe
  BY DEF Pipe, Held

(* What the network task does to the pipeline while nothing disturbs the   *)
(* device.                                                                 *)
Smooth ==
    /\ mounted /\ netPc \notin {"dump", "flush"}
    /\ \A i \in 1..Len(Pipe) : Pipe[i].type # "DISCONNECTED"

LEMMA NetPipe ==
  ASSUME TypeOK, Smooth, Undisturbed, NetStep
  PROVE  \/ \E c \in Commands : NetQueue(c) /\ Pipe' = Append(Pipe, c)
         \/ \E c \in Commands : NetDropRepeat(c) /\ Pipe' = Pipe
         \/ Pipe' = Pipe /\ UNCHANGED <<server, dedup>>
<1>1. ASSUME NEW c \in Commands, NetQueue(c) PROVE Pipe' = Append(Pipe, c)
  <2>1. netPc = "idle" /\ Enqueue(c) /\ UNCHANGED <<hidPc, cmd>> /\ c \in Command
    BY <1>1, ActuatorAssumption DEF NetQueue
  <2> QED
    BY <2>1, PipeGrows
<1>2. ASSUME NEW c \in Commands, NetDropRepeat(c) PROVE Pipe' = Pipe
  BY <1>2 DEF NetDropRepeat, Pipe, InHand, Entering, Doing, Held
<1>3. ASSUME NEW m \in Moves, NetMoveX(m) PROVE Pipe' = Pipe /\ UNCHANGED <<server, dedup>>
  BY <1>3 DEF NetMoveX, Pipe, InHand, Entering, Doing, Held
<1>4. CASE NetUnblock
  BY <1>4, PipeUnblocks DEF NetUnblock
<1>5. CASE NetGive \/ NetMoveY \/ NetMoveCas
  <2>1. /\ UNCHANGED <<server, dedup, queue, netCmd, hidPc, cmd>>
        /\ netPc # "full" /\ netPc' # "full"
    BY <1>5 DEF NetGive, NetMoveY, NetMoveCas
  <2> QED
    BY <2>1 DEF Pipe, InHand, Entering, Doing, Held
<1>6. ~(NetTimeout \/ NetDump \/ NetDisconnect \/ NetFlush)
  BY DEF Smooth, Undisturbed, NetTimeout, NetDump, NetDisconnect, NetFlush
<1> QED
  BY <1>1, <1>2, <1>3, <1>4, <1>5, <1>6 DEF NetStep

(* What the HID task does to it: it executes the head, or leaves it alone. *)
Executing ==
    \/ HidDrop \/ HidKey \/ HidMouse \/ HidSendEnter \/ HidLeave \/ HidJiggle \/ HidSession

(* The steps that execute a command have it in hand, and no longer after. *)
LEMMA ExecutingYields ==
  ASSUME TypeOK, Executing
  PROVE  cmd \in Command /\ InHand = <<cmd>> /\ InHand' = <<>> /\ UNCHANGED queue
<1>1. CASE HidSendEnter
  <2>1. /\ Entering /\ cmd \in Command /\ hidPc' \in {"top", "wakeup"} /\ queue' = queue
    BY <1>1 DEF HidSendEnter, StartSending, Entering, Doing, TypeOK
  <2> QED
    BY <2>1 DEF InHand, Entering
<1>2. CASE ~HidSendEnter
  <2>1. /\ hidPc = "exec" /\ hidPc' # "exec" /\ queue' = queue
        /\ \/ hidPc' \in {"top", "wakeup", "jiggle"}
           \/ cmd' = cmd /\ cmd.type \in MouseTypes
    BY <1>2 DEF Executing, HidDrop, HidKey, HidMouse, HidLeave, HidJiggle, HidSession, Executes,
                StartSending, MouseTypes
  <2>2. cmd \in Command /\ cmd # NoCmd
    BY <2>1, DoingCommand
  <2>3. ~Entering'
    BY <2>1, <2>2 DEF Entering, Doing, MouseTypes
  <2> QED
    BY <2>1, <2>2, <2>3 DEF InHand
<1> QED
  BY <1>1, <1>2

(* The others do not touch what is in hand. *)
LEMMA OthersKeepHand ==
  ASSUME TypeOK, DoingInv, HidStep, ~Executing, ~HidReceive
  PROVE  InHand' = InHand /\ UNCHANGED queue
<1>1. queue' = queue
  BY HidFrame
<1>2. CASE HidEnter
  <2>1. hidPc = "exec" /\ cmd.type = "ENTER" /\ hidPc' = "store_x" /\ cmd' = cmd
    BY <1>2 DEF HidEnter, Executes
  <2>2. Entering'
    BY <2>1, DoingCommand DEF Entering, Doing
  <2> QED
    BY <1>1, <2>1, <2>2 DEF InHand
<1>3. CASE HidStoreX \/ HidStoreY \/ HidLoadX \/ HidLoadY
  <2>1. /\ cmd' = cmd /\ Doing' = Doing
        /\ hidPc \in {"store_x", "store_y", "load_x", "load_y"}
        /\ \/ hidPc' \in {"store_y", "load_x", "load_y", "once"}
           \/ hidPc' = "wakeup" /\ Doing # "ENTER"
    BY <1>3 DEF HidStoreX, HidStoreY, HidLoadX, HidLoadY, StartSending, Doing
  <2>2. Entering' <=> Entering
    BY <2>1 DEF Entering
  <2> QED
    BY <1>1, <2>1, <2>2 DEF InHand
<1>4. CASE ~HidEnter /\ ~(HidStoreX \/ HidStoreY \/ HidLoadX \/ HidLoadY)
  <2>1. hidPc # "exec" /\ hidPc' # "exec" /\ ~Entering
    BY <1>4 DEF HidStep, Executing, HidClaimMove, HidMove, HidWake, HidLeaveMouse,
                HidJiggleAside, HidSendMove, HidSendLeave, HidSendJiggle, HidWakeHost,
                HidSendAccepted, HidSendRefused, HidRetry, AfterSend, Entering
  <2>2. \/ Doing' # "ENTER"
        \/ hidPc' \in {"recv", "send", "wait", "top", "leave"}
    BY <1>4 DEF HidStep, Executing, HidClaimMove, HidMove, HidWake, HidLeaveMouse,
                HidJiggleAside, HidSendMove, HidSendLeave, HidSendJiggle, HidWakeHost,
                HidSendAccepted, HidSendRefused, HidRetry, AfterSend, DoingInv, Doing
  <2>3. ~Entering'
    BY <2>2 DEF Entering
  <2> QED
    BY <1>1, <2>1, <2>3 DEF InHand
<1> QED
  BY <1>2, <1>3, <1>4

LEMMA HidPipe ==
  ASSUME TypeOK, DoingInv, HidStep
  PROVE  /\ UNCHANGED <<server, dedup, netPc, mounted>>
         /\ \/ Executing /\ Pipe # <<>> /\ Head(Pipe) = cmd /\ Pipe' = Tail(Pipe)
            \/ ~Executing /\ Pipe' = Pipe
<1>1. UNCHANGED <<server, dedup, netPc, netCmd, mounted>>
  BY HidFrame
<1>2. CASE Executing
  BY <1>1, <1>2, ExecutingYields, PipeYields
<1>3. CASE HidReceive
  <2>1. ~Executing
    BY <1>3 DEF HidReceive, Executing, HidDrop, HidKey, HidMouse, HidSendEnter, HidLeave,
                HidJiggle, HidSession, Executes
  <2> QED
    BY <1>1, <1>3, <2>1, PipeReceives
<1>4. CASE ~Executing /\ ~HidReceive
  BY <1>1, <1>4, OthersKeepHand, PipeKept
<1> QED
  BY <1>2, <1>3, <1>4

-----------------------------------------------------------------------------
(* What the host has of the keyboard, or will have when it took the report *)
(* the HID task insists on, or the one in the endpoint.                    *)

Sending == hidPc \in {"wakeup", "send", "wait"}

Latest ==
    IF Sending /\ report.kind = "kb" THEN report
    ELSE IF endpoint # NoReport /\ endpoint.kind = "kb" THEN endpoint
    ELSE host

ShownKeys == Latest.keys
ShownMods == Latest.mods

(* One try at a mouse report does not touch the keyboard. *)
LEMMA SendOnceShows ==
  ASSUME SendAbsMouseOnce, ~Sending, ~Sending', host' = host
  PROVE  Latest' = Latest
<1>1. CASE endpoint' = endpoint
  BY <1>1 DEF Latest
<1>2. CASE endpoint' # endpoint
  <2>1. endpoint = NoReport /\ endpoint'.kind = "mouse"
    BY <1>2 DEF SendAbsMouseOnce, Accepts, MouseReport
  <2> QED
    BY <2>1 DEF Latest
<1> QED
  BY <1>1, <1>2

(* Only the start of a keyboard report changes what is shown. *)
LEMMA HidShows ==
  ASSUME TypeOK, HidStep
  PROVE  \/ /\ HidKey
            /\ ShownKeys' = KbReport(keys', cmd.mask).keys
            /\ ShownMods' = KbReport(keys', cmd.mask).mods
         \/ HidLeave /\ ShownKeys' = {} /\ ShownMods' = {}
         \/ HidSendEnter /\ ShownKeys' = {}
         \/ ShownKeys' = ShownKeys /\ ShownMods' = ShownMods
<1> USE DEF ShownKeys, ShownMods
<1>1. CASE \/ HidClaimMove \/ HidMove \/ HidReceive \/ HidWake \/ HidDrop \/ HidSession
           \/ HidMouse \/ HidEnter \/ HidLeaveMouse \/ HidJiggle \/ HidJiggleAside
           \/ HidStoreX \/ HidStoreY \/ HidLoadX
  <2>1. endpoint' = endpoint /\ ~Sending /\ ~Sending'
    BY <1>1 DEF HidClaimMove, HidMove, HidReceive, HidWake, HidDrop, HidSession, HidMouse,
                HidEnter, HidLeaveMouse, HidJiggle, HidJiggleAside, HidStoreX, HidStoreY,
                HidLoadX, Executes, Sending
  <2>2. host' = host
    BY HidFrame
  <2> QED
    BY <2>1, <2>2 DEF Latest
<1>2. CASE HidKey
  <2>1. Sending' /\ report' = KbReport(keys', cmd.mask) /\ report'.kind = "kb"
    BY <1>2 DEF HidKey, StartSending, Sending, KbReport
  <2> QED
    BY <1>2, <2>1 DEF Latest
<1>3. CASE HidLeave
  <2>1. Sending' /\ report' = [kind |-> "kb", keys |-> {}, mods |-> {}]
    BY <1>3 DEF HidLeave, StartSending, Sending
  <2> QED
    BY <1>3, <2>1 DEF Latest
<1>4. CASE HidLoadY
  <2>1. UNCHANGED <<endpoint, host>> /\ ~Sending /\ (Sending' => report'.kind = "mouse")
    BY <1>4 DEF HidLoadY, StartSending, Sending, MouseReport
  <2> QED
    BY <2>1 DEF Latest
<1>5. CASE HidSendEnter
  <2>1. CASE cmd.mask = {} /\ ~cmd.lock
    <3>1. ~Sending /\ ~Sending' /\ host' = host /\ SendAbsMouseOnce
      BY <1>5, <2>1 DEF HidSendEnter, Sending
    <3> QED
      BY <3>1, SendOnceShows
  <2>2. CASE ~(cmd.mask = {} /\ ~cmd.lock)
    <3>1. Sending' /\ report' = [kind |-> "kb", keys |-> {}, mods |-> cmd.mask]
      BY <1>5, <2>2 DEF HidSendEnter, StartSending, Sending
    <3> QED
      BY <1>5, <3>1 DEF Latest
  <2> QED
    BY <2>1, <2>2
<1>6. CASE HidSendMove \/ HidSendLeave \/ HidSendJiggle
  <2>1. ~Sending /\ ~Sending' /\ host' = host /\ SendAbsMouseOnce
    BY <1>6 DEF HidSendMove, HidSendLeave, HidSendJiggle, Sending
  <2> QED
    BY <2>1, SendOnceShows
<1>7. CASE HidWakeHost \/ HidRetry
  <2>1. Sending /\ Sending' /\ UNCHANGED <<report, endpoint, host>>
    BY <1>7 DEF HidWakeHost, HidRetry, Sending
  <2> QED
    BY <2>1 DEF Latest
<1>8. CASE HidSendAccepted
  <2>1. /\ Sending /\ ~Sending' /\ endpoint = NoReport /\ endpoint' = report /\ host' = host
        /\ report # NoReport
    BY <1>8, ActuatorAssumption DEF HidSendAccepted, Sending, AfterSend, Accepts, TypeOK
  <2> QED
    BY <2>1 DEF Latest
<1>9. CASE HidSendRefused
  <2>1. /\ Sending /\ UNCHANGED <<endpoint, host>>
        /\ \/ Sending' /\ report' = report
           \/ ~Sending' /\ report.kind # "kb"
    BY <1>9 DEF HidSendRefused, Sending, AfterSend, Important
  <2> QED
    BY <2>1 DEF Latest
<1> QED
  BY <1>1, <1>2, <1>3, <1>4, <1>5, <1>6, <1>7, <1>8, <1>9 DEF HidStep

(* The bus does not change it either, unless the cable is pulled. *)
LEMMA UsbShows ==
  ASSUME TypeOK, "unplug" \notin Faults, UsbTaskStep
  PROVE  /\ ShownKeys' = ShownKeys /\ ShownMods' = ShownMods
         /\ mounted => mounted'
<1>1. UNCHANGED <<hidPc, report>>
  BY UsbFrame
<1>2. CASE Complete
  <2>1. endpoint # NoReport /\ endpoint' = NoReport /\ host' = HostTakes(host, endpoint)
    BY <1>2 DEF Complete
  <2>2. host \in [keys : SUBSET Keys, mods : Masks, buttons : SUBSET HidButtons,
                  wheel : Int, pos : Point \cup {NoPos}]
    BY DEF TypeOK
  <2>3. IF endpoint.kind = "kb" THEN host'.keys = endpoint.keys /\ host'.mods = endpoint.mods
                                ELSE host'.keys = host.keys /\ host'.mods = host.mods
    BY <2>1, <2>2 DEF HostTakes
  <2> QED
    BY <1>1, <1>2, <2>1, <2>3 DEF Latest, Sending, ShownKeys, ShownMods, Complete
<1>3. CASE ~Complete
  <2>1. UNCHANGED <<endpoint, host>> /\ (mounted => mounted')
    BY <1>3 DEF UsbTaskStep, UsbStep, Unplug, Plug, CompleteCb, Suspend, SuspendCb,
                SuspendCheck, Resume, ResumeCb
  <2> QED
    BY <1>1, <2>1 DEF Latest, Sending, ShownKeys, ShownMods
<1> QED
  BY <1>2, <1>3

-----------------------------------------------------------------------------
(* What the tracker shows the host.                                        *)

(* In a consistent tracker the report and the search speak of the same     *)
(* keys.                                                                   *)
LEMMA ReportedIsUsed ==
  ASSUME NEW t, WellFormed(t)
  PROVE  /\ Reported(t) = {t.slot[i] : i \in Used(t)}
         /\ Reported(t) \subseteq Keys
         /\ \A k : Holds(t, k) <=> k \in Reported(t)
<1>1. Used(t) \subseteq Slot
  BY KeySlotsAssumption DEF WellFormed, KeyTracker, Used, Slot
<1>2. Reported(t) = {t.slot[i] : i \in Used(t)}
  BY <1>1, KeySlotsAssumption DEF WellFormed, Reported
<1>3. Reported(t) \subseteq Keys
  BY <1>2 DEF WellFormed
<1> QED
  BY <1>2, <1>3 DEF Holds

(* Distinct slots: as many keys are reported as the tracker counts. *)
LEMMA ReportedCount ==
  ASSUME NEW t, WellFormed(t)
  PROVE  IsFiniteSet(Reported(t)) /\ Cardinality(Reported(t)) = t.count
<1>1. t.count \in Nat /\ Used(t) = 1..t.count
  BY KeySlotsAssumption DEF WellFormed, KeyTracker, Used
<1> DEFINE f == [i \in 1..t.count |-> t.slot[i]]
<1>2. f \in Bijection(1..t.count, Reported(t))
  <2>1. Reported(t) = {t.slot[i] : i \in 1..t.count}
    BY <1>1, ReportedIsUsed
  <2>2. \A i, j \in 1..t.count : f[i] = f[j] => i = j
    BY <1>1 DEF WellFormed
  <2> QED
    BY <2>1, <2>2, Fun_IsBij
<1>3. IsFiniteSet(1..t.count) /\ Cardinality(1..t.count) = t.count
  BY <1>1, FS_Interval
<1> QED
  BY <1>1, <1>2, <1>3, FS_Bijection DEF ExistsBijection

(* A press adds its key, unless six keys are down. *)
LEMMA PressReports ==
  ASSUME NEW t, WellFormed(t), NEW k \in Keys
  PROVE  /\ Reported(Press(t, k)) \subseteq Reported(t) \cup {k}
         /\ k \notin Reported(t) /\ Cardinality(Reported(t)) < MaxKeys =>
              Reported(Press(t, k)) = Reported(t) \cup {k}
<1>1. CASE t.count < MaxKeys /\ ~Holds(t, k)
  <2> DEFINE n == t.count + 1
             u == [count |-> n, slot |-> [t.slot EXCEPT ![n] = k]]
  <2>1. /\ t.count \in 0..MaxKeys /\ t.slot \in [Slot -> Keys \cup {NoKey}]
        /\ n \in Slot
    BY <1>1, KeySlotsAssumption DEF WellFormed, KeyTracker, Slot
  <2>2. Press(t, k) = u /\ WellFormed(u)
    BY <1>1, PressWellFormed DEF Press
  <2>3. Used(u) = Used(t) \cup {n} /\ n \notin Used(t) /\ Used(t) \subseteq Slot
    BY <2>1, KeySlotsAssumption DEF Used, Slot
  <2>4. /\ u.slot[n] = k
        /\ \A i \in Slot \ {n} : u.slot[i] = t.slot[i]
    BY <2>1
  <2>5. /\ Reported(u) = {u.slot[i] : i \in Used(u)}
        /\ Reported(t) = {t.slot[i] : i \in Used(t)}
    BY <2>2, ReportedIsUsed
  <2> HIDE DEF u, n
  <2>6. {u.slot[i] : i \in Used(u)} = {t.slot[i] : i \in Used(t)} \cup {k}
    BY <2>3, <2>4
  <2> QED
    BY <2>2, <2>5, <2>6
<1>2. CASE Holds(t, k)
  BY <1>2, ReportedIsUsed DEF Press
<1>3. CASE ~(t.count < MaxKeys)
  BY <1>3, ReportedCount DEF Press
<1> QED
  BY <1>1, <1>2, <1>3

(* A release takes its key out; one that finds nothing clears everything.  *)
LEMMA ReleaseReports ==
  ASSUME NEW t, WellFormed(t), NEW k
  PROVE  Reported(Release(t, k)) = IF k \in Reported(t) THEN Reported(t) \ {k} ELSE {}
<1>1. CASE Holds(t, k)
  <2> DEFINE i == FirstSlotOf(t, k)
             n == t.count
             u == RemoveAt(t, i)
  <2>1. i \in Used(t) /\ t.slot[i] = k
    BY <1>1, FirstSlotFound
  <2>2. /\ n \in 1..MaxKeys /\ i \in 1..n /\ i \in Slot /\ n \in Slot /\ n \in Used(t)
        /\ t.slot \in [Slot -> Keys \cup {NoKey}]
    BY <2>1, KeySlotsAssumption DEF WellFormed, KeyTracker, Used, Slot
  <2>3. /\ u.count = n - 1
        /\ u.slot = [[t.slot EXCEPT ![i] = t.slot[n]] EXCEPT ![n] = NoKey]
        /\ Release(t, k) = u /\ WellFormed(u)
    BY <1>1, ReleaseWellFormed DEF Release, RemoveAt
  <2>4. Used(u) = Used(t) \ {n} /\ Used(t) \subseteq Slot
    BY <2>2, <2>3, KeySlotsAssumption DEF Used, Slot
  <2>5. /\ i # n => u.slot[i] = t.slot[n]
        /\ \A j \in Slot \ {i, n} : u.slot[j] = t.slot[j]
    BY <2>2, <2>3
  <2>6. \A j \in Used(t) : t.slot[j] = k => j = i
    BY <2>1 DEF WellFormed
  <2>7. /\ Reported(u) = {u.slot[j] : j \in Used(u)}
        /\ Reported(t) = {t.slot[j] : j \in Used(t)}
    BY <2>3, ReportedIsUsed
  <2> HIDE DEF u, n, i
  <2>8. {u.slot[j] : j \in Used(u)} \subseteq {t.slot[j] : j \in Used(t)} \ {k}
    BY <2>1, <2>2, <2>4, <2>5, <2>6
  <2>9. {t.slot[j] : j \in Used(t)} \ {k} \subseteq {u.slot[j] : j \in Used(u)}
    <3> SUFFICES ASSUME NEW j \in Used(t), t.slot[j] # k
                 PROVE  \E l \in Used(u) : u.slot[l] = t.slot[j]
      OBVIOUS
    <3>1. CASE j = n
      BY <2>1, <2>2, <2>4, <2>5, <3>1
    <3>2. CASE j # n
      BY <2>1, <2>2, <2>4, <2>5, <3>2
    <3> QED
      BY <3>1, <3>2
  <2> QED
    BY <1>1, <2>3, <2>7, <2>8, <2>9, ReportedIsUsed
<1>2. CASE ~Holds(t, k)
  BY <1>2, ClearedWellFormed, ReportedIsUsed DEF Release
<1> QED
  BY <1>1, <1>2

-----------------------------------------------------------------------------
(* No key sticks.  What has to hold at all times, with commands on their   *)
(* way, is that every key that is down at the host's end, or will be, and  *)
(* that the server no longer holds, has its release behind it in the       *)
(* pipeline.                                                               *)

Releases(c, k) == c.type = "LEAVE" \/ (c.type = "KEY_UP" /\ c.key = k)
Released(p, k, i) == \E j \in (i + 1)..Len(p) : Releases(p[j], k)
LeftAfter(p, i) == \E j \in (i + 1)..Len(p) : p[j].type = "LEAVE"

KeysBounded(p, held, down) ==
    \A k \in Keys \ down :
        /\ k \in held => Released(p, k, 0)
        /\ \A i \in 1..Len(p) : p[i].type = "KEY_DOWN" /\ p[i].key = k => Released(p, k, i)

ModsBounded(p, mods) ==
    /\ mods # {} => LeftAfter(p, 0)
    /\ \A i \in 1..Len(p) : p[i].type \in {"KEY_DOWN", "KEY_UP", "ENTER"} => LeftAfter(p, i)

(* A release the server sends is never taken for a repeat: the key of the  *)
(* last release is up until it is pressed again.                           *)
DedupInv == \A c \in Commands : dedup.kb = c /\ c.type = "KEY_UP" => c.key \notin server.keys

StuckInv ==
    /\ Smooth
    /\ KeysBounded(Pipe, Reported(keys), server.keys)
    /\ ~server.entered => ModsBounded(Pipe, ShownMods)
    /\ ShownKeys \subseteq Reported(keys)
    /\ DedupInv

(* The pipeline grows at its end ... *)
LEMMA KeysBoundedAppend ==
  ASSUME NEW p \in Seq(Command), NEW c \in Command, NEW held, NEW down, NEW down2,
         KeysBounded(p, held, down),
         \A k \in Keys \ down2 : k \notin down \/ Releases(c, k),
         c.type = "KEY_DOWN" => c.key \in down2
  PROVE  KeysBounded(Append(p, c), held, down2)
<1> DEFINE q == Append(p, c)
<1>1. /\ Len(q) = Len(p) + 1 /\ Len(p) \in Nat
      /\ \A i \in 1..Len(p) : q[i] = p[i]
      /\ q[Len(p) + 1] = c
  BY AppendProperties
<1> HIDE DEF q
<1>2. ASSUME NEW k \in Keys \ down2, NEW i \in 0..Len(p), k \notin down => Released(p, k, i)
      PROVE  Released(q, k, i)
  <2>1. CASE Releases(c, k)
    BY <1>1, <2>1 DEF Released
  <2>2. CASE k \notin down
    <3>1. PICK j \in (i + 1)..Len(p) : Releases(p[j], k)
      BY <1>2, <2>2 DEF Released
    <3> QED
      BY <1>1, <3>1 DEF Released
  <2> QED
    BY <2>1, <2>2
<1>3. ASSUME NEW k \in Keys \ down2
      PROVE  /\ k \in held => Released(q, k, 0)
             /\ \A i \in 1..Len(q) : q[i].type = "KEY_DOWN" /\ q[i].key = k => Released(q, k, i)
  <2>1. k \in held => Released(q, k, 0)
    BY <1>1, <1>2 DEF KeysBounded
  <2>2. ASSUME NEW i \in 1..Len(q), q[i].type = "KEY_DOWN", q[i].key = k
        PROVE  Released(q, k, i)
    <3>1. i \in 1..Len(p)
      BY <1>1, <2>2
    <3>2. p[i].type = "KEY_DOWN" /\ p[i].key = k
      BY <1>1, <2>2, <3>1
    <3> QED
      BY <1>2, <3>1, <3>2 DEF KeysBounded
  <2> QED
    BY <2>1, <2>2
<1> QED
  BY <1>3 DEF KeysBounded, q

LEMMA LeftAppend ==
  ASSUME NEW p \in Seq(Command), NEW c \in Command, NEW i \in 0..Len(p),
         LeftAfter(p, i) \/ c.type = "LEAVE"
  PROVE  LeftAfter(Append(p, c), i)
<1> DEFINE q == Append(p, c)
<1>1. /\ Len(q) = Len(p) + 1 /\ Len(p) \in Nat
      /\ \A j \in 1..Len(p) : q[j] = p[j]
      /\ q[Len(p) + 1] = c
  BY AppendProperties
<1> HIDE DEF q
<1>2. CASE c.type = "LEAVE"
  BY <1>1, <1>2 DEF LeftAfter, q
<1>3. CASE LeftAfter(p, i)
  <2>1. PICK j \in (i + 1)..Len(p) : p[j].type = "LEAVE"
    BY <1>3 DEF LeftAfter
  <2> QED
    BY <1>1, <2>1 DEF LeftAfter, q
<1> QED
  BY <1>2, <1>3

LEMMA ModsBoundedAppend ==
  ASSUME NEW p \in Seq(Command), NEW c \in Command, NEW mods,
         \/ c.type = "LEAVE"
         \/ ModsBounded(p, mods) /\ c.type \notin {"KEY_DOWN", "KEY_UP", "ENTER"}
  PROVE  ModsBounded(Append(p, c), mods)
<1> DEFINE q == Append(p, c)
<1>1. /\ Len(q) = Len(p) + 1 /\ Len(p) \in Nat
      /\ \A j \in 1..Len(p) : q[j] = p[j]
      /\ q[Len(p) + 1] = c
  BY AppendProperties
<1>2. mods # {} => LeftAfter(q, 0)
  BY <1>1, LeftAppend DEF ModsBounded
<1>3. ASSUME NEW i \in 1..Len(q), q[i].type \in {"KEY_DOWN", "KEY_UP", "ENTER"}
      PROVE  LeftAfter(q, i)
  <2>1. i \in 1..Len(p) /\ q[i] = p[i]
    BY <1>1, <1>3
  <2> QED
    BY <1>1, <1>3, <2>1, LeftAppend DEF ModsBounded
<1> QED
  BY <1>2, <1>3 DEF ModsBounded

(* ... and shrinks at its head. *)
LEMMA TailElements ==
  ASSUME NEW p \in Seq(Command), p # <<>>
  PROVE  /\ Tail(p) \in Seq(Command) /\ Len(Tail(p)) = Len(p) - 1
         /\ Len(p) \in Nat \ {0} /\ p[1] = Head(p) /\ Head(p) \in Command
         /\ \A i \in 1..Len(Tail(p)) : Tail(p)[i] = p[i + 1] /\ i + 1 \in 1..Len(p)
BY HeadTailProperties, EmptySeq, LenProperties

LEMMA KeysBoundedTail ==
  ASSUME NEW p \in Seq(Command), p # <<>>, NEW held, NEW held2, NEW down,
         KeysBounded(p, held, down),
         \A k \in held2 : \/ k \in held /\ ~Releases(Head(p), k)
                          \/ Head(p).type = "KEY_DOWN" /\ Head(p).key = k
  PROVE  KeysBounded(Tail(p), held2, down)
<1> DEFINE q == Tail(p)
<1>1. /\ q \in Seq(Command) /\ Len(q) = Len(p) - 1
      /\ Len(p) \in Nat \ {0} /\ p[1] = Head(p)
      /\ \A i \in 1..Len(q) : q[i] = p[i + 1] /\ i + 1 \in 1..Len(p)
  BY TailElements
<1> HIDE DEF q
<1>2. ASSUME NEW k, NEW i \in 0..Len(q), Released(p, k, i + 1)
      PROVE  Released(q, k, i)
  <2>1. PICK j \in (i + 2)..Len(p) : Releases(p[j], k)
    BY <1>2 DEF Released
  <2>2. j - 1 \in (i + 1)..Len(q) /\ q[j - 1] = p[j]
    BY <1>1, <2>1
  <2> QED
    BY <2>1, <2>2 DEF Released
<1>3. ASSUME NEW k \in Keys \ down
      PROVE  /\ k \in held2 => Released(q, k, 0)
             /\ \A i \in 1..Len(q) : q[i].type = "KEY_DOWN" /\ q[i].key = k => Released(q, k, i)
  <2>1. ASSUME k \in held2 PROVE Released(q, k, 0)
    <3>1. CASE k \in held /\ ~Releases(Head(p), k)
      <4>1. PICK j \in 1..Len(p) : Releases(p[j], k)
        BY <1>3, <3>1 DEF KeysBounded, Released
      <4>2. j # 1
        BY <1>1, <3>1, <4>1
      <4>3. Released(p, k, 1)
        BY <1>1, <4>1, <4>2 DEF Released
      <4>4. Released(p, k, 0 + 1) /\ 0 \in 0..Len(q)
        BY <1>1, <4>3
      <4> QED
        BY <1>2, <4>4
    <3>2. CASE Head(p).type = "KEY_DOWN" /\ Head(p).key = k
      <4>1. Released(p, k, 1)
        BY <1>1, <3>2 DEF KeysBounded
      <4> QED
        BY <1>1, <1>2, <4>1
    <3> QED
      BY <2>1, <3>1, <3>2
  <2>2. ASSUME NEW i \in 1..Len(q), q[i].type = "KEY_DOWN", q[i].key = k
        PROVE  Released(q, k, i)
    <3>1. Released(p, k, i + 1)
      BY <1>1, <2>2 DEF KeysBounded
    <3> QED
      BY <1>1, <1>2, <3>1
  <2> QED
    BY <2>1, <2>2
<1> QED
  BY <1>3 DEF KeysBounded, q

LEMMA ModsBoundedTail ==
  ASSUME NEW p \in Seq(Command), p # <<>>, NEW mods, NEW mods2, ModsBounded(p, mods),
         \/ mods2 = {}
         \/ Head(p).type \in {"KEY_DOWN", "KEY_UP", "ENTER"}
         \/ mods2 = mods /\ Head(p).type # "LEAVE"
  PROVE  ModsBounded(Tail(p), mods2)
<1> DEFINE q == Tail(p)
<1>1. /\ q \in Seq(Command) /\ Len(q) = Len(p) - 1
      /\ Len(p) \in Nat \ {0} /\ p[1] = Head(p)
      /\ \A i \in 1..Len(q) : q[i] = p[i + 1] /\ i + 1 \in 1..Len(p)
  BY TailElements
<1> HIDE DEF q
<1>2. ASSUME NEW i \in 0..Len(q), LeftAfter(p, i + 1)
      PROVE  LeftAfter(q, i)
  <2>1. PICK j \in (i + 2)..Len(p) : p[j].type = "LEAVE"
    BY <1>2 DEF LeftAfter
  <2>2. j - 1 \in (i + 1)..Len(q) /\ q[j - 1] = p[j]
    BY <1>1, <2>1
  <2> QED
    BY <2>1, <2>2 DEF LeftAfter
<1>3. ASSUME mods2 # {} PROVE LeftAfter(q, 0)
  <2>1. LeftAfter(p, 1)
    <3>1. CASE Head(p).type \in {"KEY_DOWN", "KEY_UP", "ENTER"}
      BY <1>1, <3>1 DEF ModsBounded
    <3>2. CASE mods2 = mods /\ Head(p).type # "LEAVE"
      <4>1. PICK j \in 1..Len(p) : p[j].type = "LEAVE"
        BY <1>3, <3>2 DEF ModsBounded, LeftAfter
      <4> QED
        BY <1>1, <3>2, <4>1 DEF LeftAfter
    <3> QED
      BY <1>3, <3>1, <3>2
  <2> QED
    BY <1>1, <1>2, <2>1
<1>4. ASSUME NEW i \in 1..Len(q), q[i].type \in {"KEY_DOWN", "KEY_UP", "ENTER"}
      PROVE  LeftAfter(q, i)
  BY <1>1, <1>2, <1>4 DEF ModsBounded
<1> QED
  BY <1>3, <1>4 DEF ModsBounded, q

(* What the server does to what it holds. *)
SentTypes == {"KEY_DOWN", "KEY_UP", "MOUSE_DOWN", "MOUSE_UP", "MOUSE_WHEEL", "ENTER",
              "LEAVE", "JIGGLE", "CONNECTED", "SET_SCREEN_SIZE", "SET_SCALING"}

LEMMA ServerKeys ==
  ASSUME TypeOK, NEW c \in Command, ServerSends(c)
  PROVE  /\ c.type \in SentTypes
         /\ c.type = "KEY_DOWN" => ServerAfter(c).keys = server.keys \cup {c.key}
         /\ c.type = "KEY_UP" => ServerAfter(c).keys = server.keys \ {c.key}
         /\ c.type = "LEAVE" => ServerAfter(c).keys = {}
         /\ c.type \notin {"KEY_DOWN", "KEY_UP", "LEAVE"} => ServerAfter(c).keys = server.keys
         /\ c.type \in {"KEY_DOWN", "KEY_UP"} => server.entered /\ ServerAfter(c).entered
         /\ c.type = "ENTER" => ServerAfter(c).entered
         /\ c.type \notin {"ENTER", "LEAVE"} => ServerAfter(c).entered = server.entered
<1>1. c.type \in SentTypes
  BY DEF ServerSends, SentTypes
<1>2. server \in [online : BOOLEAN, entered : BOOLEAN, keys : SUBSET Keys,
                  buttons : SUBSET Buttons, wheel : Int, exact : BOOLEAN]
  BY DEF TypeOK
<1>3. CASE c.type \in {"KEY_DOWN", "KEY_UP"}
  BY <1>1, <1>2, <1>3 DEF ServerAfter, ServerSends
<1>4. CASE c.type \in {"MOUSE_DOWN", "MOUSE_UP", "MOUSE_WHEEL"}
  BY <1>1, <1>2, <1>4 DEF ServerAfter
<1>5. CASE c.type \in {"ENTER", "LEAVE", "CONNECTED"}
  BY <1>1, <1>2, <1>5 DEF ServerAfter
<1>6. CASE c.type \notin {"KEY_DOWN", "KEY_UP", "MOUSE_DOWN", "MOUSE_UP", "MOUSE_WHEEL",
                          "ENTER", "LEAVE", "CONNECTED"}
  BY <1>1, <1>2, <1>6 DEF ServerAfter
<1> QED
  BY <1>1, <1>3, <1>4, <1>5, <1>6

(* A device nobody disturbs stays so. *)
LEMMA SmoothNet ==
  ASSUME TypeOK, Undisturbed, Smooth, NetStep
  PROVE  Smooth'
<1>1. mounted' = mounted
  BY NetFrame
<1>2. netPc' \notin {"dump", "flush"}
  <2>1. ASSUME NEW c \in Commands, NetQueue(c) \/ NetDropRepeat(c)
        PROVE  netPc' \notin {"dump", "flush"}
    BY <2>1 DEF NetQueue, NetDropRepeat, Enqueue, Smooth
  <2>2. ASSUME NEW m \in Moves, NetMoveX(m) PROVE netPc' \notin {"dump", "flush"}
    BY <2>2 DEF NetMoveX
  <2>3. CASE NetGive \/ NetUnblock \/ NetMoveY \/ NetMoveCas
    BY <2>3 DEF NetGive, NetUnblock, NetMoveY, NetMoveCas
  <2>4. ~(NetTimeout \/ NetDump \/ NetDisconnect \/ NetFlush)
    BY DEF Smooth, Undisturbed, NetTimeout, NetDump, NetDisconnect, NetFlush
  <2> QED
    BY <2>1, <2>2, <2>3, <2>4 DEF NetStep
<1>3. \A i \in 1..Len(Pipe') : Pipe'[i].type # "DISCONNECTED"
  <2>1. CASE Pipe' = Pipe
    BY <2>1 DEF Smooth
  <2>2. ASSUME NEW c \in Commands, NetQueue(c), Pipe' = Append(Pipe, c)
        PROVE  \A i \in 1..Len(Pipe') : Pipe'[i].type # "DISCONNECTED"
    <3>1. c.type # "DISCONNECTED"
      <4>1. ServerSends(c) /\ c \in Command
        BY <2>2, ActuatorAssumption DEF NetQueue
      <4> QED
        BY <4>1, ServerKeys DEF SentTypes
    <3>2. Pipe \in Seq(Command)
      BY PipeType
    <3>3. /\ Len(Append(Pipe, c)) = Len(Pipe) + 1 /\ Len(Pipe) \in Nat
          /\ \A i \in 1..Len(Pipe) : Append(Pipe, c)[i] = Pipe[i]
          /\ Append(Pipe, c)[Len(Pipe) + 1] = c
      BY <3>2, AppendProperties, ActuatorAssumption
    <3> QED
      BY <2>2, <3>1, <3>3 DEF Smooth
  <2> QED
    BY <2>1, <2>2, NetPipe
<1> QED
  BY <1>1, <1>2, <1>3 DEF Smooth

LEMMA SmoothHid ==
  ASSUME TypeOK, DoingInv, Smooth, HidStep
  PROVE  Smooth'
<1>1. UNCHANGED <<netPc, mounted>>
  BY HidPipe
<1>2. Pipe \in Seq(Command)
  BY PipeType
<1>3. CASE Pipe' = Pipe
  BY <1>1, <1>3 DEF Smooth
<1>4. CASE Pipe # <<>> /\ Pipe' = Tail(Pipe)
  <2>1. \A i \in 1..Len(Pipe') : Pipe'[i] = Pipe[i + 1] /\ i + 1 \in 1..Len(Pipe)
    BY <1>2, <1>4, TailElements
  <2> QED
    BY <1>1, <2>1 DEF Smooth
<1> QED
  BY <1>3, <1>4, HidPipe

LEMMA SmoothUsb ==
  ASSUME TypeOK, Undisturbed, Smooth, UsbTaskStep
  PROVE  Smooth' /\ Pipe' = Pipe /\ UNCHANGED <<keys, server, dedup>>
<1>1. UNCHANGED <<netVars, sharedVars, hidVars>>
  BY UsbFrame
<1>2. Pipe' = Pipe
  BY <1>1 DEF Pipe, InHand, Entering, Doing, Held
<1>3. mounted'
  BY UsbShows DEF Undisturbed, Smooth
<1> QED
  BY <1>1, <1>2, <1>3 DEF Smooth

(* What the invariant speaks of. *)
LEMMA StuckKept ==
  ASSUME StuckInv, Smooth', Pipe' = Pipe, keys' = keys, server' = server, dedup' = dedup,
         ShownKeys' = ShownKeys, ShownMods' = ShownMods
  PROVE  StuckInv'
<1>1. DedupInv'
  BY DEF StuckInv, DedupInv
<1> QED
  BY <1>1 DEF StuckInv

(* The network task: a command goes into the pipeline, or is a repeat. *)
LEMMA StuckNet ==
  ASSUME TypeInv, Undisturbed, StuckInv, NetStep
  PROVE  StuckInv'
<1>1. TypeOK /\ Smooth /\ Pipe \in Seq(Command) /\ Smooth'
  BY PipeType, SmoothNet DEF TypeInv, StuckInv
<1>2. UNCHANGED <<keys, ShownKeys, ShownMods>>
  <2>1. UNCHANGED <<hidPc, report, endpoint, host, keys>>
    BY NetFrame
  <2> QED
    BY <2>1 DEF ShownKeys, ShownMods, Latest, Sending
<1>3. CASE Pipe' = Pipe /\ UNCHANGED <<server, dedup>>
  BY <1>1, <1>2, <1>3 DEF StuckInv, DedupInv
<1>4. ASSUME NEW c \in Commands, NetQueue(c), Pipe' = Append(Pipe, c)
      PROVE  StuckInv'
  <2>1. /\ c \in Command /\ ServerSends(c) /\ server' = ServerAfter(c)
        /\ dedup' = IF DedupSlot(c) = "none" THEN dedup ELSE [dedup EXCEPT ![DedupSlot(c)] = c]
    BY <1>4, ActuatorAssumption DEF NetQueue
  <2>2. KeysBounded(Pipe, Reported(keys), server.keys)'
    <3>1. \A k \in Keys \ server'.keys : k \notin server.keys \/ Releases(c, k)
      BY <1>1, <2>1, ServerKeys DEF Releases
    <3>2. c.type = "KEY_DOWN" => c.key \in server'.keys
      BY <1>1, <2>1, ServerKeys
    <3>3. KeysBounded(Append(Pipe, c), Reported(keys), server'.keys)
      BY <1>1, <2>1, <3>1, <3>2, KeysBoundedAppend DEF StuckInv
    <3> QED
      BY <1>2, <1>4, <3>3
  <2>3. ASSUME ~server'.entered PROVE ModsBounded(Pipe, ShownMods)'
    <3>1. \/ c.type = "LEAVE"
          \/ ~server.entered /\ c.type \notin {"KEY_DOWN", "KEY_UP", "ENTER"}
      BY <1>1, <2>1, <2>3, ServerKeys
    <3>2. ModsBounded(Append(Pipe, c), ShownMods)
      BY <1>1, <2>1, <3>1, ModsBoundedAppend DEF StuckInv
    <3> QED
      BY <1>2, <1>4, <3>2
  <2>4. DedupInv'
    <3> SUFFICES ASSUME NEW d \in Commands, dedup'.kb = d, d.type = "KEY_UP"
                 PROVE  d.key \notin server'.keys
      BY DEF DedupInv
    <3>1. dedup \in [DedupKinds -> Command \cup {NoCmd}]
      BY <1>1 DEF TypeOK
    <3>2. CASE c.type \in {"KEY_DOWN", "KEY_UP"}
      <4>1. dedup'.kb = c
        BY <2>1, <3>1, <3>2 DEF DedupSlot, DedupKinds
      <4> QED
        BY <1>1, <2>1, <4>1, ServerKeys
    <3>3. CASE c.type \notin {"KEY_DOWN", "KEY_UP"}
      <4>1. dedup'.kb = dedup.kb
        BY <2>1, <3>1, <3>3 DEF DedupSlot, DedupKinds
      <4>2. d.key \notin server.keys
        BY <4>1 DEF StuckInv, DedupInv
      <4> QED
        BY <1>1, <2>1, <3>3, <4>2, ServerKeys
    <3> QED
      BY <3>2, <3>3
  <2>5. (ShownKeys \subseteq Reported(keys))'
    BY <1>2 DEF StuckInv
  <2> QED
    BY <1>1, <2>2, <2>3, <2>4, <2>5 DEF StuckInv
<1>5. ASSUME NEW c \in Commands, NetDropRepeat(c), Pipe' = Pipe
      PROVE  StuckInv'
  <2>1. /\ c \in Command /\ ServerSends(c) /\ Repeats(c) /\ dedup' = dedup
        /\ server' = IF c.type = "MOUSE_WHEEL" THEN server
                     ELSE [ServerAfter(c) EXCEPT !.exact = FALSE]
    BY <1>5, ActuatorAssumption DEF NetDropRepeat
  <2>2. c.type \in {"KEY_DOWN", "MOUSE_DOWN", "MOUSE_UP", "MOUSE_WHEEL"}
    <3>1. c.type \in {"KEY_DOWN", "KEY_UP", "MOUSE_DOWN", "MOUSE_UP", "MOUSE_WHEEL"}
      BY <2>1 DEF Repeats, DedupSlot
    <3>2. c.type # "KEY_UP"
      BY <2>1 DEF Repeats, DedupSlot, StuckInv, DedupInv, ServerSends
    <3> QED
      BY <3>1, <3>2
  <2>3. /\ server'.entered = server.entered
        /\ server'.keys = IF c.type = "KEY_DOWN" THEN server.keys \cup {c.key} ELSE server.keys
    <3>1. ServerAfter(c) \in [online : BOOLEAN, entered : BOOLEAN, keys : SUBSET Keys,
                              buttons : SUBSET Buttons, wheel : Int, exact : BOOLEAN]
      BY <1>1, <2>1, ServerAfterType
    <3>2. /\ ServerAfter(c).entered = server.entered
          /\ ServerAfter(c).keys = IF c.type = "KEY_DOWN" THEN server.keys \cup {c.key}
                                   ELSE server.keys
      BY <1>1, <2>1, <2>2, ServerKeys
    <3> QED
      BY <2>1, <3>1, <3>2
  <2>4. KeysBounded(Pipe, Reported(keys), server.keys)'
    BY <1>2, <1>5, <2>3 DEF StuckInv, KeysBounded
  <2>5. DedupInv'
    <3> SUFFICES ASSUME NEW d \in Commands, dedup'.kb = d, d.type = "KEY_UP"
                 PROVE  d.key \notin server'.keys
      BY DEF DedupInv
    <3>1. d.key \notin server.keys
      BY <2>1 DEF StuckInv, DedupInv
    <3>2. c.type # "KEY_DOWN"
      BY <2>1 DEF Repeats, DedupSlot
    <3> QED
      BY <2>3, <3>1, <3>2
  <2>6. (~server.entered => ModsBounded(Pipe, ShownMods))' /\ (ShownKeys \subseteq Reported(keys))'
    BY <1>2, <1>5, <2>3 DEF StuckInv
  <2> QED
    BY <1>1, <2>4, <2>5, <2>6 DEF StuckInv
<1> QED
  BY <1>1, <1>3, <1>4, <1>5, NetPipe

(* The HID task: it executes the command at the head of the pipeline. *)
LEMMA HidKeys ==
  ASSUME TypeInv, HidStep
  PROVE  \/ HidKey /\ cmd.type = "KEY_DOWN" /\ keys' = Press(keys, cmd.key)
         \/ HidKey /\ cmd.type = "KEY_UP" /\ keys' = Release(keys, cmd.key)
         \/ HidLeave /\ keys' = Cleared
         \/ HidSession /\ cmd.type = "DISCONNECTED" /\ keys' = Cleared
         \/ ~HidKey /\ ~HidLeave /\ keys' = keys
<1>1. CASE HidKey
  BY <1>1 DEF HidKey, Executes
<1>2. CASE HidLeave
  BY <1>2 DEF HidLeave
<1>3. CASE HidSession
  BY <1>3 DEF HidSession, HidKey, HidLeave, Executes
<1>4. CASE ~HidKey /\ ~HidLeave /\ ~HidSession
  BY <1>4 DEF HidStep, HidClaimMove, HidMove, HidReceive, HidWake, HidDrop, HidMouse, HidEnter,
              HidLeaveMouse, HidJiggle, HidJiggleAside, HidStoreX, HidStoreY, HidLoadX, HidLoadY,
              HidSendMove, HidSendEnter, HidSendLeave, HidSendJiggle, HidWakeHost,
              HidSendAccepted, HidSendRefused, HidRetry
<1> QED
  BY <1>1, <1>2, <1>3, <1>4

LEMMA StuckHid ==
  ASSUME TypeInv, DoingInv, Undisturbed, StuckInv, HidStep
  PROVE  StuckInv'
<1>1. TypeOK /\ Smooth /\ Pipe \in Seq(Command) /\ Smooth' /\ WellFormed(keys)
  BY PipeType, SmoothHid DEF TypeInv, StuckInv, TrackerWellFormed
<1>2. UNCHANGED <<server, dedup>>
  BY <1>1, HidPipe
<1>3. DedupInv'
  BY <1>2 DEF StuckInv, DedupInv
<1>4. CASE ~Executing /\ Pipe' = Pipe
  <2>1. ~HidKey /\ ~HidLeave /\ ~HidSendEnter /\ ~HidSession
    BY <1>4 DEF Executing
  <2>2. UNCHANGED <<keys, ShownKeys, ShownMods>>
    BY <1>1, <2>1, HidKeys, HidShows
  <2> QED
    BY <1>1, <1>2, <1>3, <1>4, <2>2 DEF StuckInv
<1>5. CASE Executing /\ Pipe # <<>> /\ Head(Pipe) = cmd /\ Pipe' = Tail(Pipe)
  <2>1. cmd \in Command /\ cmd.type # "DISCONNECTED" /\ ~HidDrop
    <3>1. cmd = Pipe[1] /\ 1 \in 1..Len(Pipe) /\ cmd \in Command
      BY <1>1, <1>5, TailElements
    <3> QED
      BY <1>1, <3>1 DEF Smooth, HidDrop
  <2>2. \/ HidKey /\ cmd.type = "KEY_DOWN" /\ keys' = Press(keys, cmd.key)
        \/ HidKey /\ cmd.type = "KEY_UP" /\ keys' = Release(keys, cmd.key)
        \/ HidLeave /\ cmd.type = "LEAVE" /\ keys' = Cleared
        \/ ~HidKey /\ ~HidLeave /\ keys' = keys /\ cmd.type \notin {"KEY_DOWN", "KEY_UP", "LEAVE"}
    <3>1. HidLeave => cmd.type = "LEAVE"
      BY DEF HidLeave, Executes
    <3>2. ~HidKey /\ ~HidLeave => cmd.type \notin {"KEY_DOWN", "KEY_UP", "LEAVE"}
      BY <1>5, <2>1 DEF Executing, HidMouse, HidSendEnter, HidJiggle, HidSession, Executes, Doing
    <3> QED
      BY <2>1, <3>1, <3>2, HidKeys
  <2>3. KeysBounded(Pipe, Reported(keys), server.keys)'
    <3>1. \A k \in Reported(keys') :
            \/ k \in Reported(keys) /\ ~Releases(cmd, k)
            \/ cmd.type = "KEY_DOWN" /\ cmd.key = k
      <4>1. CASE cmd.type = "KEY_DOWN" /\ keys' = Press(keys, cmd.key)
        <5>1. cmd.key \in Keys
          BY <2>1, <4>1, CommandFields
        <5> QED
          BY <1>1, <4>1, <5>1, PressReports DEF Releases
      <4>2. CASE cmd.type = "KEY_UP" /\ keys' = Release(keys, cmd.key)
        BY <1>1, <4>2, ReleaseReports DEF Releases
      <4>3. CASE keys' = Cleared
        BY <4>3, ClearedWellFormed
      <4>4. CASE keys' = keys /\ cmd.type \notin {"KEY_DOWN", "KEY_UP", "LEAVE"}
        BY <4>4 DEF Releases
      <4> QED
        BY <2>2, <4>1, <4>2, <4>3, <4>4
    <3>2. KeysBounded(Tail(Pipe), Reported(keys'), server.keys)
      BY <1>1, <1>5, <3>1, KeysBoundedTail DEF StuckInv
    <3> QED
      BY <1>2, <1>5, <3>2
  <2>4. (~server.entered => ModsBounded(Pipe, ShownMods))'
    <3>1. \/ ShownMods' = {}
          \/ cmd.type \in {"KEY_DOWN", "KEY_UP", "ENTER"}
          \/ ShownMods' = ShownMods /\ cmd.type # "LEAVE"
      <4>1. HidKey => cmd.type \in {"KEY_DOWN", "KEY_UP"}
        BY DEF HidKey, Executes
      <4>2. HidSendEnter => cmd.type = "ENTER"
        BY DEF HidSendEnter, Doing
      <4>3. HidLeave => ShownMods' = {}
        BY DEF HidLeave, ShownMods, Latest, StartSending, Sending
      <4> QED
        BY <1>1, <2>2, <4>1, <4>2, <4>3, HidShows
    <3>2. ASSUME ~server.entered PROVE ModsBounded(Tail(Pipe), ShownMods')
      BY <1>1, <1>5, <3>1, <3>2, ModsBoundedTail DEF StuckInv
    <3> QED
      BY <1>2, <1>5, <3>2
  <2>5. (ShownKeys \subseteq Reported(keys))'
    <3>1. CASE ShownKeys' = {}
      BY <3>1
    <3>2. CASE HidKey /\ ShownKeys' = KbReport(keys', cmd.mask).keys
      BY <3>2 DEF KbReport
    <3>3. CASE ~HidKey /\ ~HidLeave /\ ShownKeys' = ShownKeys
      BY <2>2, <3>3 DEF StuckInv
    <3>4. HidLeave => ShownKeys' = {}
      BY DEF HidLeave, ShownKeys, Latest, StartSending, Sending
    <3>5. HidKey => ShownKeys' = KbReport(keys', cmd.mask).keys
      BY DEF HidKey, ShownKeys, Latest, StartSending, Sending, KbReport
    <3> QED
      BY <1>1, <3>1, <3>2, <3>3, <3>4, <3>5, HidShows
  <2> QED
    BY <1>1, <1>3, <2>3, <2>4, <2>5 DEF StuckInv
<1> QED
  BY <1>1, <1>4, <1>5, HidPipe

(* When everything has been handled the host holds no key the server does  *)
(* not hold, and no modifier after the pointer has left (the order of the  *)
(* calls, the queue and the reports; the seventh key, the release of an    *)
(* unknown key and the dropped repeat leave no key behind).                *)
THEOREM NoKeySticks == Spec => []NoStuckKey
<1>1. Undisturbed /\ Init => StuckInv
  <2> SUFFICES ASSUME Undisturbed, Init PROVE StuckInv
    OBVIOUS
  <2>1. Pipe = <<>>
    BY DEF Init, Pipe, InHand, Entering, Held
  <2>2. mounted /\ netPc = "idle" /\ Reported(keys) = {} /\ ShownKeys = {} /\ ShownMods = {}
    BY ClearedWellFormed DEF Undisturbed, Init, UsbInit, HostReleased, ShownKeys, ShownMods,
                             Latest, Sending
  <2>3. DedupInv
    BY DEF Init, DedupInv, Offline
  <2> QED
    BY <2>1, <2>2, <2>3 DEF StuckInv, Smooth, KeysBounded, ModsBounded
<1>2. TypeInv /\ DoingInv /\ (Undisturbed => StuckInv) /\ [Next]_vars =>
        (Undisturbed => StuckInv)'
  <2> SUFFICES ASSUME TypeInv, DoingInv, Undisturbed, StuckInv, [Next]_vars PROVE StuckInv'
    BY DEF Undisturbed
  <2>1. CASE NetStep
    BY <2>1, StuckNet
  <2>2. CASE HidStep
    BY <2>2, StuckHid
  <2>3. CASE UsbTaskStep
    <3>1. TypeOK /\ Smooth /\ "unplug" \notin Faults
      BY DEF TypeInv, StuckInv, Undisturbed
    <3>2. Smooth' /\ Pipe' = Pipe /\ keys' = keys /\ server' = server /\ dedup' = dedup
      BY <2>3, <3>1, SmoothUsb
    <3>3. ShownKeys' = ShownKeys /\ ShownMods' = ShownMods
      BY <2>3, <3>1, UsbShows
    <3> QED
      BY <3>2, <3>3, StuckKept
  <2>4. CASE UNCHANGED vars
    <3>1. Pipe' = Pipe /\ ShownKeys' = ShownKeys /\ ShownMods' = ShownMods
      BY <2>4 DEF Pipe, InHand, Entering, Doing, Held, ShownKeys, ShownMods, Latest, Sending
    <3>2. Smooth'
      BY <2>4, <3>1 DEF StuckInv, Smooth
    <3> QED
      BY <2>4, <3>1, <3>2, StuckKept
  <2> QED
    BY <2>1, <2>2, <2>3, <2>4 DEF Next
<1>3. TypeInv /\ (Undisturbed => StuckInv) => NoStuckKey
  <2> SUFFICES ASSUME TypeInv, Undisturbed, StuckInv, Quiet
               PROVE  /\ host.keys \subseteq server.keys
                      /\ ~server.entered => host.mods = {}
    BY DEF NoStuckKey
  <2>1. Pipe = <<>> /\ host.keys = ShownKeys /\ host.mods = ShownMods
    BY DEF Quiet, Pipe, InHand, Entering, Held, ShownKeys, ShownMods, Latest, Sending
  <2>2. Reported(keys) \subseteq Keys
    BY ReportedIsUsed DEF TypeInv, TrackerWellFormed
  <2>3. ASSUME NEW k \in Keys \ server.keys PROVE k \notin Reported(keys)
    BY <2>1, <2>3 DEF StuckInv, KeysBounded, Released
  <2>4. ~server.entered => ShownMods = {}
    BY <2>1 DEF StuckInv, ModsBounded, LeftAfter
  <2> QED
    BY <2>1, <2>2, <2>3, <2>4 DEF StuckInv
<1> QED
  BY <1>1, <1>2, <1>3, TypesAreKept, DoingIsKept, PTL DEF Spec

-----------------------------------------------------------------------------
(* Host and server agree.  With commands on their way, what the server     *)
(* holds is what the device holds after it has replayed the pipeline; if   *)
(* the device was asked for more than it tracks in the meantime, a LEAVE   *)
(* is on its way and the replay counts from there.  A replay is a function *)
(* from the places of the pipeline to what is held at them.                *)

Holdings == [keys : SUBSET Keys, ids : SUBSET Buttons]
Nothing == [keys |-> {}, ids |-> {}]
ServerHolds == [keys |-> server.keys, ids |-> server.buttons]

KeysAfter(K, c) ==
    CASE c.type = "KEY_DOWN" -> K \cup {c.key}
      [] c.type = "KEY_UP"   -> K \ {c.key}
      [] c.type = "LEAVE"    -> {}
      [] OTHER -> K

IdsAfter(B, c) ==
    CASE c.type = "MOUSE_DOWN" -> B \cup {c.id}
      [] c.type = "MOUSE_UP"   -> B \ {c.id}
      [] c.type = "LEAVE"      -> {}
      [] OTHER -> B

After(h, c) == [keys |-> KeysAfter(h.keys, c), ids |-> IdsAfter(h.ids, c)]

(* The command asks for no more than the device tracks. *)
Fits(h, c) ==
    /\ c.type = "KEY_DOWN" => c.key \notin h.keys /\ Cardinality(h.keys) < MaxKeys
    /\ c.type = "KEY_UP" => c.key \in h.keys
    /\ c.type = "ENTER" => h.keys = {}

Replays(p, m, f, last) ==
    /\ \A i \in (m + 1)..Len(p) : f[i] = After(f[i - 1], p[i]) /\ Fits(f[i - 1], p[i])
    /\ m > 0 => p[m].type = "LEAVE" /\ f[m] = Nothing
    /\ f[Len(p)] = last

(* The HID task is busy with a LEAVE, from its keyboard report to its      *)
(* mouse report; with a command whose mouse report it insists on.          *)
Leaving == Doing = "LEAVE" /\ hidPc # "exec"
Mousing == Doing \in MouseTypes /\ hidPc # "exec"

(* The buttons the host has, or will have when the HID task is through     *)
(* with the command it executes.                                           *)
EndButtons == IF Leaving THEN {} ELSE buttons
Bits(ids) == UNION {HidBit(id) : id \in ids}

(* The device, up to the command it executes, holds h and shows it.  Where *)
(* no mouse report is insisted on, the last one that was accepted had the  *)
(* buttons right, but for a LEAVE, whose mouse report gets one try, until  *)
(* a report after it is accepted.                                          *)
Shows(h) ==
    /\ h.keys = Reported(keys)
    /\ ShownKeys = Reported(keys) \ (ModifierKeys \cup UnmappedKeys)
    /\ EndButtons = Bits(h.ids)
    /\ \/ Mousing
       \/ lastSent.buttons = EndButtons
       \/ (Leaving \/ leaveLost) /\ h.ids = {}

(* The mouse half of a LEAVE lets go of the buttons before it loads the    *)
(* position.                                                               *)
LeftButtons == Leaving /\ hidPc \in {"load_x", "load_y", "once"} => buttons = {}

AgreeInv ==
    /\ Smooth
    /\ ~server.entered => server.keys = {}
    /\ LeftButtons
    /\ server.exact =>
         \E m \in 0..Len(Pipe), f \in [0..Len(Pipe) -> Holdings] :
            Replays(Pipe, m, f, ServerHolds) /\ (m = 0 => Shows(f[0]))

LEMMA AfterType ==
  ASSUME NEW h \in Holdings, NEW c \in Command
  PROVE  After(h, c) \in Holdings
  <1>1. KeysAfter(h.keys, c) \in SUBSET Keys
    BY CommandFields DEF Holdings, KeysAfter
  <1>2. IdsAfter(h.ids, c) \in SUBSET Buttons
    BY CommandFields DEF Holdings, IdsAfter
  <1> QED
    BY <1>1, <1>2 DEF After, Holdings

(* One more command at the end of the pipeline, one step more in the       *)
(* replay ...                                                              *)
LEMMA ReplaysAppend ==
  ASSUME NEW p \in Seq(Command), NEW c \in Command, NEW m \in 0..Len(p),
         NEW f \in [0..Len(p) -> Holdings], NEW last, Replays(p, m, f, last), Fits(last, c)
  PROVE  \E g \in [0..Len(Append(p, c)) -> Holdings] :
            Replays(Append(p, c), m, g, After(last, c)) /\ g[0] = f[0]
<1> DEFINE q == Append(p, c)
           n == Len(p)
           g == [i \in 0..Len(q) |-> IF i \in 0..n THEN f[i] ELSE After(last, c)]
<1>1. /\ Len(q) = n + 1 /\ n \in Nat
      /\ \A i \in 1..n : q[i] = p[i]
      /\ q[n + 1] = c
  BY AppendProperties
<1>2. f[n] = last /\ last \in Holdings
  BY <1>1 DEF Replays
<1>3. g \in [0..Len(q) -> Holdings]
  BY <1>1, <1>2, AfterType
<1>4. /\ \A i \in 0..n : g[i] = f[i]
      /\ g[n + 1] = After(last, c)
  BY <1>1
<1> HIDE DEF g, q
<1>5. ASSUME NEW i \in (m + 1)..Len(q)
      PROVE  g[i] = After(g[i - 1], q[i]) /\ Fits(g[i - 1], q[i])
  <2>1. CASE i \in (m + 1)..n
    <3>1. i \in 1..n /\ i \in 0..n /\ i - 1 \in 0..n
      BY <1>1, <2>1
    <3> QED
      BY <1>1, <1>4, <2>1, <3>1 DEF Replays
  <2>2. CASE i = n + 1
    <3>1. i - 1 = n /\ n \in 0..n
      BY <1>1, <2>2
    <3> QED
      BY <1>1, <1>2, <1>4, <2>2, <3>1
  <2> QED
    BY <1>1, <2>1, <2>2
<1>6. m > 0 => q[m].type = "LEAVE" /\ g[m] = Nothing
  BY <1>1, <1>4 DEF Replays
<1>7. g[Len(q)] = After(last, c) /\ g[0] = f[0]
  BY <1>1, <1>4
<1> QED
  BY <1>3, <1>5, <1>6, <1>7 DEF Replays, q

(* ... and a LEAVE starts a new one. *)
LEMMA ReplaysLeave ==
  ASSUME NEW p \in Seq(Command), NEW c \in Command, c.type = "LEAVE"
  PROVE  \E g \in [0..Len(Append(p, c)) -> Holdings] :
            Replays(Append(p, c), Len(Append(p, c)), g, Nothing)
<1> DEFINE q == Append(p, c)
           g == [i \in 0..Len(q) |-> Nothing]
<1>1. Len(q) \in Nat \ {0} /\ q[Len(q)] = c
  BY AppendProperties
<1>2. g \in [0..Len(q) -> Holdings] /\ g[Len(q)] = Nothing
  BY <1>1 DEF Nothing, Holdings
<1> HIDE DEF g, q
<1>3. Replays(q, Len(q), g, Nothing)
  BY <1>1, <1>2 DEF Replays
<1> QED
  BY <1>2, <1>3 DEF q

(* The head is executed: the replay goes on from what it left. *)
LEMMA ReplaysTail ==
  ASSUME NEW p \in Seq(Command), p # <<>>, NEW m \in 0..Len(p),
         NEW f \in [0..Len(p) -> Holdings], NEW last, Replays(p, m, f, last)
  PROVE  \E k \in 0..Len(Tail(p)), g \in [0..Len(Tail(p)) -> Holdings] :
            /\ Replays(Tail(p), k, g, last)
            /\ k = 0 =>
                 \/ m = 0 /\ g[0] = After(f[0], Head(p)) /\ Fits(f[0], Head(p))
                 \/ m = 1 /\ g[0] = Nothing /\ Head(p).type = "LEAVE"
<1> DEFINE q == Tail(p)
           k == IF m = 0 THEN 0 ELSE m - 1
           g == [i \in 0..Len(q) |-> f[i + 1]]
<1>1. /\ q \in Seq(Command) /\ Len(q) = Len(p) - 1
      /\ Len(p) \in Nat \ {0} /\ p[1] = Head(p)
      /\ \A i \in 1..Len(q) : q[i] = p[i + 1] /\ i + 1 \in 1..Len(p)
  BY TailElements
<1> HIDE DEF q
<1>2. /\ g \in [0..Len(q) -> Holdings] /\ k \in 0..Len(q)
      /\ \A i \in 0..Len(q) : g[i] = f[i + 1]
  BY <1>1
<1>k. k = IF m = 0 THEN 0 ELSE m - 1
  OBVIOUS
<1> HIDE DEF g, k
<1>3. ASSUME NEW i \in (k + 1)..Len(q)
      PROVE  g[i] = After(g[i - 1], q[i]) /\ Fits(g[i - 1], q[i])
  <2>1. i + 1 \in (m + 1)..Len(p) /\ i \in 1..Len(q) /\ i \in 0..Len(q) /\ i - 1 \in 0..Len(q)
    BY <1>1, <1>2, <1>k
  <2>2. f[i + 1] = After(f[(i + 1) - 1], p[i + 1]) /\ Fits(f[(i + 1) - 1], p[i + 1])
    BY <2>1 DEF Replays
  <2>3. (i + 1) - 1 = i /\ (i - 1) + 1 = i
    BY <2>1
  <2>4. g[i] = f[i + 1] /\ g[i - 1] = f[(i - 1) + 1] /\ q[i] = p[i + 1]
    BY <1>1, <1>2, <2>1
  <2> QED
    BY <2>2, <2>3, <2>4
<1>4. ASSUME k > 0 PROVE q[k].type = "LEAVE" /\ g[k] = Nothing
  <2>1. m = k + 1 /\ k \in 1..Len(q) /\ m > 0
    BY <1>2, <1>4, <1>k
  <2>2. q[k] = p[m] /\ g[k] = f[m]
    BY <1>1, <1>2, <2>1
  <2> QED
    BY <2>1, <2>2 DEF Replays
<1>5. g[Len(q)] = last
  <2>1. Len(q) \in 0..Len(q) /\ Len(q) + 1 = Len(p)
    BY <1>1
  <2> QED
    BY <1>2, <2>1 DEF Replays
<1>6. ASSUME k = 0
      PROVE  \/ m = 0 /\ g[0] = After(f[0], Head(p)) /\ Fits(f[0], Head(p))
             \/ m = 1 /\ g[0] = Nothing /\ Head(p).type = "LEAVE"
  <2>1. g[0] = f[1] /\ (m = 0 \/ m = 1)
    BY <1>1, <1>2, <1>6, <1>k
  <2>2. CASE m = 0
    <3>1. 1 \in (m + 1)..Len(p) /\ 1 - 1 = 0
      BY <1>1, <2>2
    <3>2. f[1] = After(f[1 - 1], p[1]) /\ Fits(f[1 - 1], p[1])
      BY <3>1 DEF Replays
    <3> QED
      BY <1>1, <2>1, <2>2, <3>1, <3>2
  <2>3. CASE m = 1
    BY <1>1, <2>1, <2>3 DEF Replays
  <2> QED
    BY <2>1, <2>2, <2>3
<1>7. Replays(q, k, g, last)
  BY <1>3, <1>4, <1>5 DEF Replays
<1> QED
  BY <1>2, <1>6, <1>7 DEF q

(* One try at a mouse report has the buttons of the device, or leaves      *)
(* last_sent_buttons alone; a LEAVE's that does is remembered as lost if   *)
(* the host holds buttons.                                                 *)
LEMMA SendOnceButtons ==
  ASSUME SendAbsMouseOnce
  PROVE  \/ lastSent'.buttons = buttons
         \/ /\ lastSent' = lastSent /\ (leaveLost => leaveLost')
            /\ Doing = "LEAVE" /\ lastSent.buttons # {} => leaveLost'
<1>1. CASE ~Redundant /\ Accepts
  BY <1>1 DEF SendAbsMouseOnce
<1>2. CASE ~(~Redundant /\ Accepts)
  <2>1. /\ lastSent' = lastSent
        /\ leaveLost' = (leaveLost \/ (Doing = "LEAVE" /\ lastSent.buttons # {}))
    BY <1>2 DEF SendAbsMouseOnce
  <2>2. leaveLost => leaveLost'
    BY <2>1
  <2>3. Doing = "LEAVE" /\ lastSent.buttons # {} => leaveLost'
    BY <2>1
  <2> QED
    BY <2>1, <2>2, <2>3
<1> QED
  BY <1>1, <1>2

(* No two buttons of the server are the same button of the host. *)
LEMMA BitsAfter ==
  ASSUME NEW ids, NEW id
  PROVE  /\ Bits(ids \cup {id}) = Bits(ids) \cup HidBit(id)
         /\ Bits(ids \ {id}) = Bits(ids) \ HidBit(id)
         /\ Bits({}) = {}
<1>1. ASSUME NEW i, NEW j, NEW x \in HidBit(i), x \in HidBit(j) PROVE i = j
  BY <1>1 DEF HidBit
<1>2. \A s, x : x \in Bits(s) <=> \E i \in s : x \in HidBit(i)
  BY DEF Bits
<1> HIDE DEF Bits
<1>3. Bits(ids \cup {id}) = Bits(ids) \cup HidBit(id)
  BY <1>2
<1>4. Bits(ids \ {id}) = Bits(ids) \ HidBit(id)
  BY <1>1, <1>2
<1> QED
  BY <1>2, <1>3, <1>4

(* Between two commands the device keeps what it holds and shows. *)
LEMMA ShowsKept ==
  ASSUME TypeInv, DoingInv, HidStep, ~Executing, LeftButtons, NEW h, Shows(h)
  PROVE  Shows(h)'
<1>1. ~HidKey /\ ~HidLeave /\ ~HidSendEnter /\ ~HidSession
  BY DEF Executing
<1>2. UNCHANGED <<keys, ShownKeys>>
  BY <1>1, HidKeys, HidShows DEF TypeInv
<1>3. CASE HidClaimMove \/ HidMove \/ HidReceive \/ HidWake
  <2>1. /\ hidPc \in {"top", "move", "recv", "asleep"} /\ UNCHANGED <<buttons, lastSent, leaveLost>>
        /\ \/ hidPc' = "exec"
           \/ cmd' = cmd
    BY <1>3 DEF HidClaimMove, HidMove, HidReceive, HidWake
  <2>2. Doing = "MOVE" /\ (Doing' = "MOVE" \/ hidPc' = "exec")
    BY <2>1 DEF DoingInv, Doing
  <2>3. ~Leaving /\ ~Leaving' /\ ~Mousing /\ ~Mousing'
    BY <2>2 DEF Leaving, Mousing, MouseTypes
  <2> QED
    BY <1>2, <2>1, <2>3 DEF Shows, EndButtons
<1>4. CASE HidEnter
  <2>1. /\ hidPc = "exec" /\ cmd.type = "ENTER" /\ UNCHANGED <<cmd, buttons, lastSent, leaveLost>>
    BY <1>4 DEF HidEnter, Executes
  <2>2. Doing = "ENTER" /\ Doing' = "ENTER"
    BY <2>1, DoingCommand DEF TypeInv, Doing
  <2>3. ~Leaving /\ ~Leaving' /\ ~Mousing /\ ~Mousing'
    BY <2>2 DEF Leaving, Mousing, MouseTypes
  <2> QED
    BY <1>2, <2>1, <2>3 DEF Shows, EndButtons
<1>5. CASE \/ HidJiggleAside \/ HidStoreX \/ HidStoreY \/ HidLoadX \/ HidLoadY
           \/ HidWakeHost \/ HidRetry
  <2>1. /\ hidPc # "exec" /\ hidPc' # "exec" /\ UNCHANGED <<cmd, buttons, lastSent, leaveLost>>
    BY <1>5 DEF HidJiggleAside, HidStoreX, HidStoreY, HidLoadX, HidLoadY, HidWakeHost, HidRetry,
                StartSending
  <2>2. (Leaving' <=> Leaving) /\ (Mousing' <=> Mousing)
    BY <2>1 DEF Leaving, Mousing, Doing
  <2> QED
    BY <1>2, <2>1, <2>2 DEF Shows, EndButtons
<1>6. CASE HidLeaveMouse
  <2>1. /\ hidPc = "leave" /\ hidPc' = "load_x" /\ UNCHANGED <<cmd, lastSent, leaveLost>>
    BY <1>6 DEF HidLeaveMouse
  <2>2. Doing = "LEAVE" /\ Doing' = "LEAVE"
    BY <2>1 DEF DoingInv, Doing
  <2>3. Leaving /\ Leaving' /\ ~Mousing
    BY <2>1, <2>2 DEF Leaving, Mousing, MouseTypes
  <2> QED
    BY <1>2, <2>1, <2>3 DEF Shows, EndButtons
<1>7. CASE HidSendMove \/ HidSendJiggle
  <2>1. /\ hidPc = "once" /\ hidPc' # "exec" /\ buttons' = buttons /\ SendAbsMouseOnce
        /\ Doing \in {"MOVE", "JIGGLE"}
        /\ cmd' = cmd \/ cmd' = NoCmd
    BY <1>7 DEF HidSendMove, HidSendJiggle
  <2>2. ~Leaving /\ ~Leaving' /\ ~Mousing /\ ~Mousing'
    BY <2>1 DEF Leaving, Mousing, MouseTypes, Doing
  <2>3. lastSent'.buttons = buttons \/ (lastSent' = lastSent /\ (leaveLost => leaveLost'))
    BY <2>1, SendOnceButtons
  <2> QED
    BY <1>2, <2>1, <2>2, <2>3 DEF Shows, EndButtons
<1>8. CASE HidSendLeave
  <2>1. /\ hidPc = "once" /\ buttons' = buttons /\ SendAbsMouseOnce
        /\ Doing = "LEAVE" /\ cmd' = NoCmd
    BY <1>8 DEF HidSendLeave
  <2>2. Leaving /\ ~Leaving' /\ ~Mousing /\ buttons = {}
    BY <2>1 DEF Leaving, Mousing, MouseTypes, Doing, LeftButtons
  <2>3. \/ lastSent'.buttons = {}
        \/ lastSent' = lastSent /\ (lastSent.buttons # {} => leaveLost')
    BY <2>1, <2>2, SendOnceButtons
  <2> QED
    BY <1>2, <2>1, <2>2, <2>3 DEF Shows, EndButtons
<1>9. CASE HidSendAccepted \/ HidSendRefused
  <2>1. /\ hidPc = "send" /\ buttons' = buttons
        /\ \/ AfterSend
           \/ hidPc' = "wait" /\ UNCHANGED <<cmd, lastSent, leaveLost>>
    BY <1>9 DEF HidSendAccepted, HidSendRefused
  <2>2. Leaving' <=> Leaving
    BY <2>1, DoingCommand DEF AfterSend, Leaving, Doing, TypeInv
  <2>3. EndButtons' = EndButtons
    BY <2>1, <2>2 DEF EndButtons
  <2>4. CASE AfterSend /\ report.kind = "mouse"
    <3>1. EndButtons = buttons
      BY <2>1, <2>4 DEF EndButtons, Leaving, DoingInv, MouseTypes
    <3>2. CASE HidSendAccepted
      <4>1. lastSent'.buttons = buttons
        BY <2>4, <3>2 DEF HidSendAccepted
      <4> QED
        BY <1>2, <2>3, <3>1, <4>1 DEF Shows
    <3>3. CASE HidSendRefused
      <4>1. hidPc' # "wait"
        BY <2>4 DEF AfterSend
      <4>2. lastSent' = lastSent /\ lastSent.buttons = buttons
        BY <3>3, <4>1 DEF HidSendRefused, Important
      <4> QED
        BY <1>2, <2>3, <3>1, <4>2 DEF Shows
    <3> QED
      BY <1>9, <3>2, <3>3
  <2>5. CASE AfterSend /\ report.kind # "mouse"
    <3>1. UNCHANGED <<lastSent, leaveLost>>
      BY <1>9, <2>5 DEF HidSendAccepted, HidSendRefused
    <3>2. ~Mousing
      BY <2>1, <2>5 DEF Mousing, DoingInv, MouseTypes
    <3> QED
      BY <1>2, <2>2, <2>3, <3>1, <3>2 DEF Shows
  <2>6. CASE hidPc' = "wait" /\ UNCHANGED <<cmd, lastSent, leaveLost>>
    <3>1. Mousing' <=> Mousing
      BY <2>1, <2>6 DEF Mousing, Doing
    <3> QED
      BY <1>2, <2>2, <2>3, <2>6, <3>1 DEF Shows
  <2> QED
    BY <2>1, <2>4, <2>5, <2>6
<1> QED
  BY <1>3, <1>4, <1>5, <1>6, <1>7, <1>8, <1>9 DEF HidStep, Executing

(* The mouse half of a LEAVE finds no button pressed again. *)
LEMMA LeftButtonsHid ==
  ASSUME TypeInv, DoingInv, LeftButtons, HidStep
  PROVE  LeftButtons'
<1>1. CASE HidLeaveMouse
  BY <1>1 DEF HidLeaveMouse, LeftButtons
<1>2. CASE HidLoadX \/ HidLoadY
  <2>1. UNCHANGED <<cmd, buttons>> /\ hidPc \in {"load_x", "load_y"}
    BY <1>2 DEF HidLoadX, HidLoadY
  <2> QED
    BY <2>1 DEF LeftButtons, Leaving, Doing
<1>3. CASE HidMove \/ HidMouse \/ HidStoreY
  <2>1. /\ cmd' = cmd
        /\ \/ hidPc = "move"
           \/ hidPc = "exec" /\ cmd.type # "LEAVE"
           \/ hidPc = "store_y"
    BY <1>3 DEF HidMove, HidMouse, HidStoreY, Executes
  <2>2. Doing # "LEAVE" /\ Doing' = Doing
    BY <2>1, DoingCommand DEF DoingInv, Doing, TypeInv
  <2> QED
    BY <2>2 DEF LeftButtons, Leaving
<1>4. CASE ~HidLeaveMouse /\ ~(HidLoadX \/ HidLoadY) /\ ~(HidMove \/ HidMouse \/ HidStoreY)
  <2>1. hidPc' \notin {"load_x", "load_y", "once"}
    BY <1>4 DEF HidStep, HidClaimMove, HidReceive, HidWake, HidDrop, HidKey, HidEnter, HidLeave,
                HidJiggle, HidJiggleAside, HidSession, HidStoreX, HidSendMove, HidSendEnter,
                HidSendLeave, HidSendJiggle, HidWakeHost, HidSendAccepted, HidSendRefused,
                HidRetry, AfterSend, StartSending
  <2> QED
    BY <2>1 DEF LeftButtons
<1> QED
  BY <1>1, <1>2, <1>3, <1>4

(* A command the device can track leaves it holding, and showing, what the *)
(* command says.                                                           *)
LEMMA ShowsExecuted ==
  ASSUME TypeInv, mounted, cmd.type # "DISCONNECTED", HidStep, Executing,
         NEW h \in Holdings, Shows(h), Fits(h, cmd), NEW after, after = After(h, cmd)
  PROVE  Shows(after)'
<1>1. /\ TypeOK /\ WellFormed(keys) /\ cmd \in Command /\ cmd # NoCmd /\ Doing = cmd.type
      /\ ~HidDrop /\ ~Leaving /\ ~Mousing /\ EndButtons = buttons
      /\ h.keys = Reported(keys) /\ buttons = Bits(h.ids)
      /\ lastSent.buttons = buttons \/ (leaveLost /\ h.ids = {})
  <2>1. TypeOK /\ WellFormed(keys) /\ cmd \in Command /\ ~HidDrop
    BY ExecutingYields DEF TypeInv, TrackerWellFormed, HidDrop
  <2>2. cmd # NoCmd /\ Doing = cmd.type
    BY <2>1, ActuatorAssumption DEF Doing
  <2>3. hidPc = "exec" \/ Doing = "ENTER"
    BY DEF Executing, HidDrop, HidKey, HidMouse, HidSendEnter, HidLeave, HidJiggle, HidSession,
           Executes
  <2>4. ~Leaving /\ ~Mousing
    BY <2>3 DEF Leaving, Mousing, MouseTypes
  <2> QED
    BY <2>1, <2>2, <2>4 DEF EndButtons, Shows
<1>2. CASE HidKey
  <2>1. /\ cmd.type \in {"KEY_DOWN", "KEY_UP"} /\ UNCHANGED <<cmd, buttons, lastSent, leaveLost>>
    BY <1>2 DEF HidKey, Executes
  <2>2. EndButtons' = buttons
    BY <1>1, <2>1 DEF EndButtons, Leaving, Doing
  <2>3. Reported(keys') = KeysAfter(h.keys, cmd)
    <3>1. CASE cmd.type = "KEY_DOWN"
      <4>1. keys' = Press(keys, cmd.key) /\ cmd.key \in Keys
        BY <1>1, <1>2, <3>1, CommandFields DEF HidKey
      <4>2. Reported(keys') = Reported(keys) \cup {cmd.key}
        BY <1>1, <3>1, <4>1, PressReports DEF Fits
      <4> QED
        BY <1>1, <3>1, <4>2 DEF KeysAfter
    <3>2. CASE cmd.type = "KEY_UP"
      <4>1. keys' = Release(keys, cmd.key)
        BY <1>2, <3>2 DEF HidKey
      <4>2. Reported(keys') = Reported(keys) \ {cmd.key}
        BY <1>1, <3>2, <4>1, ReleaseReports DEF Fits
      <4> QED
        BY <1>1, <3>2, <4>2 DEF KeysAfter
    <3> QED
      BY <2>1, <3>1, <3>2
  <2>4. ShownKeys' = Reported(keys') \ (ModifierKeys \cup UnmappedKeys)
    BY <1>2 DEF HidKey, ShownKeys, Latest, StartSending, Sending, KbReport
  <2>5. after = [keys |-> Reported(keys'), ids |-> h.ids]
    BY <2>1, <2>3 DEF After, IdsAfter
  <2>6. lastSent'.buttons = EndButtons' \/ (leaveLost' /\ h.ids = {})
    BY <1>1, <2>1, <2>2
  <2> QED
    BY <1>1, <2>1, <2>2, <2>4, <2>5, <2>6 DEF Shows
<1>3. CASE HidLeave
  <2>1. cmd.type = "LEAVE" /\ Leaving' /\ Reported(keys') = {} /\ ShownKeys' = {}
    BY <1>1, <1>3, ClearedWellFormed DEF HidLeave, Executes, StartSending, Leaving, Doing, Sending,
                                         ShownKeys, Latest
  <2>2. after.keys = {} /\ after.ids = {} /\ EndButtons' = {}
    BY <2>1 DEF After, KeysAfter, IdsAfter, EndButtons
  <2>3. EndButtons' = Bits(after.ids)
    BY <2>2, BitsAfter
  <2> QED
    BY <2>1, <2>2, <2>3 DEF Shows
<1>4. CASE HidMouse
  <2>1. /\ cmd.type \in MouseTypes /\ hidPc' = "load_x" /\ cmd' = cmd /\ keys' = keys
        /\ buttons' = CASE cmd.type = "MOUSE_DOWN" -> buttons \cup HidBit(cmd.id)
                        [] cmd.type = "MOUSE_UP" -> buttons \ HidBit(cmd.id)
                        [] OTHER -> buttons
    BY <1>4 DEF HidMouse, Executes, MouseTypes
  <2>2. EndButtons' = buttons' /\ Mousing'
    BY <1>1, <2>1 DEF EndButtons, Leaving, Mousing, Doing, MouseTypes
  <2>3. buttons' = Bits(IdsAfter(h.ids, cmd))
    BY <1>1, <2>1, BitsAfter DEF IdsAfter, MouseTypes
  <2>4. after.keys = h.keys /\ after.ids = IdsAfter(h.ids, cmd)
    BY <2>1 DEF After, KeysAfter, MouseTypes
  <2>5. ShownKeys' = ShownKeys
    <3>1. ~HidKey /\ ~HidLeave /\ ~HidSendEnter
      BY <1>1, <2>1 DEF HidKey, HidLeave, HidSendEnter, Executes, MouseTypes
    <3> QED
      BY <1>1, <3>1, HidShows
  <2> QED
    BY <2>1, <2>2, <2>3, <2>4, <2>5 DEF Shows
<1>5. CASE HidSendEnter
  <2>1. /\ cmd.type = "ENTER" /\ UNCHANGED <<keys, buttons>> /\ SendAbsMouseOnce
        /\ cmd' = cmd \/ cmd' = NoCmd
    BY <1>1, <1>5 DEF HidSendEnter
  <2>2. lastSent'.buttons = buttons \/ (lastSent' = lastSent /\ (leaveLost => leaveLost'))
    BY <2>1, SendOnceButtons
  <2>3. after = h /\ h.keys = {}
    BY <2>1 DEF After, KeysAfter, IdsAfter, Fits, Holdings
  <2>4. ShownKeys' = {}
    <3>1. ShownKeys = {}
      BY <2>3 DEF Shows
    <3>2. ~HidKey /\ ~HidLeave
      BY <2>1 DEF HidKey, HidLeave, Executes
    <3> QED
      BY <1>1, <3>1, <3>2, HidShows
  <2>5. EndButtons' = buttons
    BY <1>1, <2>1 DEF EndButtons, Leaving, Doing
  <2>6. lastSent'.buttons = buttons \/ (leaveLost' /\ h.ids = {})
    BY <1>1, <2>2
  <2> QED
    BY <1>1, <2>1, <2>3, <2>4, <2>5, <2>6 DEF Shows
<1>6. CASE HidJiggle \/ HidSession
  <2>1. /\ cmd.type \in {"JIGGLE", "CONNECTED", "SET_SCREEN_SIZE", "SET_SCALING"}
        /\ UNCHANGED <<keys, buttons, lastSent, leaveLost>>
        /\ cmd' = cmd \/ cmd' = NoCmd
    BY <1>6 DEF HidJiggle, HidSession, Executes
  <2>2. after = h
    BY <2>1 DEF After, KeysAfter, IdsAfter, Holdings
  <2>3. ShownKeys' = ShownKeys
    <3>1. ~HidKey /\ ~HidLeave /\ ~HidSendEnter
      BY <1>1, <2>1 DEF HidKey, HidLeave, HidSendEnter, Executes
    <3> QED
      BY <1>1, <3>1, HidShows
  <2>4. EndButtons' = buttons
    BY <1>1, <2>1 DEF EndButtons, Leaving, Doing
  <2> QED
    BY <1>1, <2>1, <2>2, <2>3, <2>4 DEF Shows
<1> QED
  BY <1>1, <1>2, <1>3, <1>4, <1>5, <1>6 DEF Executing

(* A LEAVE leaves it holding nothing whatever went wrong before. *)
LEMMA ShowsNothing ==
  ASSUME TypeInv, mounted, HidStep, Executing, cmd.type = "LEAVE"
  PROVE  Shows(Nothing)'
<1>1. HidLeave /\ Doing = "LEAVE"
  <2>1. cmd \in Command /\ cmd # NoCmd
    BY ExecutingYields, ActuatorAssumption DEF TypeInv
  <2> QED
    BY <2>1 DEF Executing, HidDrop, HidKey, HidMouse, HidSendEnter, HidJiggle, HidSession, Executes,
                Doing
<1>2. Leaving' /\ Reported(keys') = {} /\ ShownKeys' = {}
  BY <1>1, ClearedWellFormed DEF HidLeave, StartSending, Leaving, Doing, Sending, ShownKeys, Latest
<1> QED
  BY <1>2, BitsAfter DEF Shows, Nothing, EndButtons

(* What the server holds after a command is what a replay makes of it. *)
LEMMA ServerReplays ==
  ASSUME TypeOK, NEW c \in Command, ServerSends(c), ~server.entered => server.keys = {}
  PROVE  /\ ServerAfter(c).keys = After(ServerHolds, c).keys
         /\ ServerAfter(c).buttons = After(ServerHolds, c).ids
         /\ c.type # "LEAVE" /\ ServerAfter(c).exact => server.exact /\ Fits(ServerHolds, c)
<1>1. c.type \in SentTypes
  BY ServerKeys
<1>2. server \in [online : BOOLEAN, entered : BOOLEAN, keys : SUBSET Keys,
                  buttons : SUBSET Buttons, wheel : Int, exact : BOOLEAN]
  BY DEF TypeOK
<1> USE DEF After, KeysAfter, IdsAfter, Fits, ServerHolds, SentTypes
<1>3. CASE c.type \in {"KEY_DOWN", "KEY_UP"}
  BY <1>1, <1>2, <1>3 DEF ServerAfter, ServerSends
<1>4. CASE c.type \in {"MOUSE_DOWN", "MOUSE_UP", "MOUSE_WHEEL"}
  BY <1>1, <1>2, <1>4 DEF ServerAfter
<1>5. CASE c.type \in {"ENTER", "LEAVE", "CONNECTED"}
  BY <1>1, <1>2, <1>5 DEF ServerAfter, ServerSends
<1>6. CASE c.type \notin {"KEY_DOWN", "KEY_UP", "MOUSE_DOWN", "MOUSE_UP", "MOUSE_WHEEL",
                          "ENTER", "LEAVE", "CONNECTED"}
  BY <1>1, <1>2, <1>6 DEF ServerAfter
<1> QED
  BY <1>1, <1>3, <1>4, <1>5, <1>6

LEMMA AgreeNet ==
  ASSUME TypeInv, Undisturbed, AgreeInv, NetStep
  PROVE  AgreeInv'
<1>1. TypeOK /\ Smooth /\ Pipe \in Seq(Command) /\ Smooth'
  BY PipeType, SmoothNet DEF TypeInv, AgreeInv
<1>2. /\ UNCHANGED <<hidPc, cmd, keys, buttons, lastSent, report, leaveLost>>
      /\ ShownKeys' = ShownKeys
  BY NetFrame DEF ShownKeys, Latest, Sending
<1>3. /\ \A h : Shows(h) => Shows(h)'
      /\ LeftButtons'
  BY <1>2 DEF Shows, EndButtons, Leaving, Mousing, Doing, LeftButtons, AgreeInv
<1>4. CASE Pipe' = Pipe /\ UNCHANGED <<server, dedup>>
  <2>1. ServerHolds' = ServerHolds
    BY <1>4 DEF ServerHolds
  <2>2. ASSUME server'.exact
        PROVE  \E m \in 0..Len(Pipe'), f \in [0..Len(Pipe') -> Holdings] :
                  Replays(Pipe', m, f, ServerHolds') /\ (m = 0 => Shows(f[0])')
    <3>1. PICK m \in 0..Len(Pipe), f \in [0..Len(Pipe) -> Holdings] :
            Replays(Pipe, m, f, ServerHolds) /\ (m = 0 => Shows(f[0]))
      BY <1>4, <2>2 DEF AgreeInv
    <3> QED
      BY <1>3, <1>4, <2>1, <3>1
  <2> QED
    BY <1>1, <1>3, <1>4, <2>2 DEF AgreeInv
<1>5. ASSUME NEW c \in Commands, NetQueue(c), Pipe' = Append(Pipe, c)
      PROVE  AgreeInv'
  <2>1. c \in Command /\ ServerSends(c) /\ server' = ServerAfter(c)
    BY <1>5, ActuatorAssumption DEF NetQueue
  <2>2. ServerHolds' = After(ServerHolds, c)
    BY <1>1, <2>1, ServerReplays DEF ServerHolds, After, AgreeInv
  <2>3. ~server'.entered => server'.keys = {}
    BY <1>1, <2>1, ServerKeys DEF AgreeInv
  <2>4. ASSUME server'.exact
        PROVE  \E m \in 0..Len(Pipe'), f \in [0..Len(Pipe') -> Holdings] :
                  Replays(Pipe', m, f, ServerHolds') /\ (m = 0 => Shows(f[0])')
    <3>1. CASE c.type = "LEAVE"
      <4>1. ServerHolds' = Nothing
        BY <2>2, <3>1 DEF After, KeysAfter, IdsAfter, Nothing
      <4>2. PICK g \in [0..Len(Pipe') -> Holdings] : Replays(Pipe', Len(Pipe'), g, Nothing)
        BY <1>1, <1>5, <2>1, <3>1, ReplaysLeave
      <4>3. Len(Pipe') \in Nat \ {0}
        BY <1>1, <1>5, <2>1, AppendProperties
      <4> QED
        BY <4>1, <4>2, <4>3
    <3>2. CASE c.type # "LEAVE"
      <4>1. server.exact /\ Fits(ServerHolds, c)
        BY <1>1, <2>1, <2>4, <3>2, ServerReplays DEF AgreeInv
      <4>2. PICK m \in 0..Len(Pipe), f \in [0..Len(Pipe) -> Holdings] :
              Replays(Pipe, m, f, ServerHolds) /\ (m = 0 => Shows(f[0]))
        BY <4>1 DEF AgreeInv
      <4>3. PICK g \in [0..Len(Pipe') -> Holdings] :
              Replays(Pipe', m, g, ServerHolds') /\ g[0] = f[0]
        BY <1>1, <1>5, <2>1, <2>2, <4>1, <4>2, ReplaysAppend
      <4>4. m \in 0..Len(Pipe')
        BY <1>1, <1>5, <2>1, AppendProperties
      <4>5. m = 0 => Shows(f[0])'
        BY <1>3, <4>2
      <4> QED
        BY <4>3, <4>4, <4>5
    <3> QED
      BY <3>1, <3>2
  <2> QED
    BY <1>1, <1>3, <2>3, <2>4 DEF AgreeInv
<1>6. ASSUME NEW c \in Commands, NetDropRepeat(c), Pipe' = Pipe
      PROVE  AgreeInv'
  <2>1. /\ c \in Command /\ ServerSends(c)
        /\ server' = IF c.type = "MOUSE_WHEEL" THEN server
                     ELSE [ServerAfter(c) EXCEPT !.exact = FALSE]
    BY <1>6, ActuatorAssumption DEF NetDropRepeat
  <2>2. CASE c.type = "MOUSE_WHEEL"
    <3>1. server' = server /\ ServerHolds' = ServerHolds
      BY <2>1, <2>2 DEF ServerHolds
    <3>2. ASSUME server'.exact
          PROVE  \E m \in 0..Len(Pipe'), f \in [0..Len(Pipe') -> Holdings] :
                    Replays(Pipe', m, f, ServerHolds') /\ (m = 0 => Shows(f[0])')
      <4>1. PICK m \in 0..Len(Pipe), f \in [0..Len(Pipe) -> Holdings] :
              Replays(Pipe, m, f, ServerHolds) /\ (m = 0 => Shows(f[0]))
        BY <3>1, <3>2 DEF AgreeInv
      <4> QED
        BY <1>3, <1>6, <3>1, <4>1
    <3> QED
      BY <1>1, <1>3, <3>1, <3>2 DEF AgreeInv
  <2>3. CASE c.type # "MOUSE_WHEEL"
    <3>1. ServerAfter(c) \in [online : BOOLEAN, entered : BOOLEAN, keys : SUBSET Keys,
                              buttons : SUBSET Buttons, wheel : Int, exact : BOOLEAN]
      BY <1>1, <2>1, ServerAfterType
    <3>2. /\ ~server'.exact /\ server'.entered = ServerAfter(c).entered
          /\ server'.keys = ServerAfter(c).keys
      BY <2>1, <2>3, <3>1
    <3>3. ~server'.entered => server'.keys = {}
      BY <1>1, <2>1, <3>2, ServerKeys DEF AgreeInv
    <3> QED
      BY <1>1, <1>3, <3>2, <3>3 DEF AgreeInv
  <2> QED
    BY <2>2, <2>3
<1> QED
  BY <1>1, <1>4, <1>5, <1>6, NetPipe

LEMMA AgreeHid ==
  ASSUME TypeInv, DoingInv, Undisturbed, AgreeInv, HidStep
  PROVE  AgreeInv'
<1>1. TypeOK /\ Smooth /\ Pipe \in Seq(Command) /\ Smooth' /\ mounted
  BY PipeType, SmoothHid DEF TypeInv, AgreeInv, Smooth
<1>2. server' = server /\ ServerHolds' = ServerHolds
  BY <1>1, HidPipe DEF ServerHolds
<1>3. LeftButtons'
  BY LeftButtonsHid DEF AgreeInv
<1>4. CASE ~Executing /\ Pipe' = Pipe
  <2>1. ASSUME server'.exact
        PROVE  \E m \in 0..Len(Pipe'), f \in [0..Len(Pipe') -> Holdings] :
                  Replays(Pipe', m, f, ServerHolds') /\ (m = 0 => Shows(f[0])')
    <3>1. PICK m \in 0..Len(Pipe), f \in [0..Len(Pipe) -> Holdings] :
            Replays(Pipe, m, f, ServerHolds) /\ (m = 0 => Shows(f[0]))
      BY <1>2, <2>1 DEF AgreeInv
    <3>2. m = 0 => Shows(f[0])'
      BY <1>4, <3>1, ShowsKept DEF AgreeInv
    <3> QED
      BY <1>2, <1>4, <3>1, <3>2
  <2> QED
    BY <1>1, <1>2, <1>3, <2>1 DEF AgreeInv
<1>5. CASE Executing /\ Pipe # <<>> /\ Head(Pipe) = cmd /\ Pipe' = Tail(Pipe)
  <2>1. cmd.type # "DISCONNECTED"
    <3>1. cmd = Pipe[1] /\ 1 \in 1..Len(Pipe)
      BY <1>1, <1>5, TailElements
    <3> QED
      BY <1>1, <3>1 DEF Smooth
  <2>2. ASSUME server'.exact
        PROVE  \E m \in 0..Len(Pipe'), f \in [0..Len(Pipe') -> Holdings] :
                  Replays(Pipe', m, f, ServerHolds') /\ (m = 0 => Shows(f[0])')
    <3>1. PICK m \in 0..Len(Pipe), f \in [0..Len(Pipe) -> Holdings] :
            Replays(Pipe, m, f, ServerHolds) /\ (m = 0 => Shows(f[0]))
      BY <1>2, <2>2 DEF AgreeInv
    <3>2. PICK k \in 0..Len(Pipe'), g \in [0..Len(Pipe') -> Holdings] :
            /\ Replays(Pipe', k, g, ServerHolds)
            /\ k = 0 =>
                 \/ m = 0 /\ g[0] = After(f[0], cmd) /\ Fits(f[0], cmd)
                 \/ m = 1 /\ g[0] = Nothing /\ cmd.type = "LEAVE"
      BY <1>1, <1>5, <3>1, ReplaysTail
    <3>3. CASE k = 0 /\ m = 0
      <4>1. f[0] \in Holdings
        <5>1. 0 \in 0..Len(Pipe)
          BY <3>1, <3>3
        <5> QED
          BY <3>1, <5>1
      <4>2. Shows(f[0]) /\ g[0] = After(f[0], cmd) /\ Fits(f[0], cmd)
        BY <3>1, <3>2, <3>3
      <4>3. Shows(g[0])'
        BY <1>1, <1>5, <2>1, <4>1, <4>2, ShowsExecuted
      <4> QED
        BY <1>2, <3>2, <4>3
    <3>4. CASE k = 0 /\ m # 0
      <4>1. g[0] = Nothing /\ cmd.type = "LEAVE"
        BY <3>2, <3>4
      <4>2. Shows(Nothing)'
        BY <1>1, <1>5, <4>1, ShowsNothing
      <4>3. Shows(g[0])'
        BY <4>1, <4>2 DEF Shows
      <4> QED
        BY <1>2, <3>2, <4>3
    <3>5. CASE k # 0
      BY <1>2, <3>2, <3>5
    <3> QED
      BY <3>3, <3>4, <3>5
  <2> QED
    BY <1>1, <1>2, <1>3, <2>2 DEF AgreeInv
<1> QED
  BY <1>1, <1>4, <1>5, HidPipe

LEMMA AgreeKept ==
  ASSUME AgreeInv, Smooth', Pipe' = Pipe, server' = server, ShownKeys' = ShownKeys,
         UNCHANGED <<hidPc, cmd, keys, buttons, lastSent, leaveLost>>
  PROVE  AgreeInv'
<1>1. \A h : Shows(h) => Shows(h)'
  BY DEF Shows, EndButtons, Leaving, Mousing, Doing
<1>2. LeftButtons'
  BY DEF LeftButtons, Leaving, Doing, AgreeInv
<1>3. ASSUME server'.exact
      PROVE  \E m \in 0..Len(Pipe'), f \in [0..Len(Pipe') -> Holdings] :
                Replays(Pipe', m, f, ServerHolds') /\ (m = 0 => Shows(f[0])')
  <2>1. PICK m \in 0..Len(Pipe), f \in [0..Len(Pipe) -> Holdings] :
          Replays(Pipe, m, f, ServerHolds) /\ (m = 0 => Shows(f[0]))
    BY <1>3 DEF AgreeInv
  <2>2. ServerHolds' = ServerHolds
    BY DEF ServerHolds
  <2> QED
    BY <1>1, <2>1, <2>2
<1> QED
  BY <1>2, <1>3 DEF AgreeInv

(* When everything has been handled the host holds exactly the keys and    *)
(* the mapped buttons the server holds, as long as the server asked for no *)
(* more than the device tracks: no order of calls, reports, completions    *)
(* and wake-ups loses, swaps or doubles one.  The one exception are the    *)
(* buttons a LEAVE failed to release, until the next mouse report gets     *)
(* through (its mouse report, tusb_actuator.c, gets one try).              *)
THEOREM HostAndServerAgree == Spec => []HostAgrees
<1>1. Undisturbed /\ Init => AgreeInv
  <2> SUFFICES ASSUME Undisturbed, Init PROVE AgreeInv
    OBVIOUS
  <2>1. Pipe = <<>> /\ Len(Pipe) = 0
    BY DEF Init, Pipe, InHand, Entering, Held
  <2>2. /\ mounted /\ netPc = "idle" /\ Reported(keys) = {} /\ ShownKeys = {}
        /\ ServerHolds = Nothing /\ hidPc = "top" /\ Doing = "MOVE" /\ buttons = {}
        /\ lastSent.buttons = {} /\ server.keys = {}
    BY ClearedWellFormed DEF Undisturbed, Init, UsbInit, HostReleased, ShownKeys, Latest, Sending,
                             Offline, ServerHolds, Nothing, Doing
  <2>3. Shows(Nothing) /\ LeftButtons
    BY <2>2, BitsAfter DEF Shows, Nothing, EndButtons, Leaving, LeftButtons
  <2>4. Smooth
    BY <2>1, <2>2 DEF Smooth
  <2> DEFINE f == [i \in 0..Len(Pipe) |-> Nothing]
  <2>5. f \in [0..Len(Pipe) -> Holdings] /\ 0 \in 0..Len(Pipe) /\ f[0] = Nothing
    BY <2>1 DEF Nothing, Holdings
  <2>6. Replays(Pipe, 0, f, ServerHolds)
    BY <2>1, <2>2, <2>5 DEF Replays
  <2> HIDE DEF f
  <2>7. Shows(f[0])
    BY <2>3, <2>5
  <2> QED
    BY <2>2, <2>3, <2>4, <2>5, <2>6, <2>7 DEF AgreeInv
<1>2. TypeInv /\ DoingInv /\ (Undisturbed => AgreeInv) /\ [Next]_vars =>
        (Undisturbed => AgreeInv)'
  <2> SUFFICES ASSUME TypeInv, DoingInv, Undisturbed, AgreeInv, [Next]_vars PROVE AgreeInv'
    BY DEF Undisturbed
  <2>1. CASE NetStep
    BY <2>1, AgreeNet
  <2>2. CASE HidStep
    BY <2>2, AgreeHid
  <2>3. CASE UsbTaskStep
    <3>1. TypeOK /\ Smooth /\ "unplug" \notin Faults
      BY DEF TypeInv, AgreeInv, Undisturbed
    <3>2. Smooth' /\ Pipe' = Pipe /\ server' = server
      BY <2>3, <3>1, SmoothUsb
    <3>3. ShownKeys' = ShownKeys /\ UNCHANGED <<hidPc, cmd, keys, buttons, lastSent, leaveLost>>
      BY <2>3, <3>1, UsbShows, UsbFrame
    <3> QED
      BY <3>2, <3>3, AgreeKept
  <2>4. CASE UNCHANGED vars
    <3>1. Pipe' = Pipe /\ ShownKeys' = ShownKeys
      BY <2>4 DEF Pipe, InHand, Entering, Doing, Held, ShownKeys, Latest, Sending
    <3>2. Smooth'
      BY <2>4, <3>1 DEF AgreeInv, Smooth
    <3> QED
      BY <2>4, <3>1, <3>2, AgreeKept
  <2> QED
    BY <2>1, <2>2, <2>3, <2>4 DEF Next
<1>3. TypeInv /\ DoingInv /\ LastSentFaithful /\ (Undisturbed => AgreeInv) => HostAgrees
  <2> SUFFICES ASSUME DoingInv, LastSentFaithful, Undisturbed, AgreeInv, Quiet, server.exact
               PROVE  /\ host.keys = server.keys \ (ModifierKeys \cup UnmappedKeys)
                      /\ \/ host.buttons = UNION {HidBit(id) : id \in server.buttons}
                         \/ leaveLost /\ server.buttons = {}
    BY DEF HostAgrees
  <2>1. /\ Pipe = <<>> /\ Len(Pipe) = 0 /\ host.keys = ShownKeys
        /\ EndButtons = buttons /\ ~Leaving /\ ~Mousing
    <3>1. Doing = "MOVE"
      BY DEF Quiet, DoingInv
    <3> QED
      BY <3>1 DEF Quiet, Pipe, InHand, Entering, Held, ShownKeys, Latest, Sending, EndButtons,
                  Leaving, Mousing, MouseTypes
  <2>2. host.buttons = lastSent.buttons
    BY DEF LastSentFaithful, Undisturbed, Quiet
  <2>3. Shows(ServerHolds)
    <3>1. PICK m \in 0..Len(Pipe), f \in [0..Len(Pipe) -> Holdings] :
            Replays(Pipe, m, f, ServerHolds) /\ (m = 0 => Shows(f[0]))
      BY DEF AgreeInv
    <3>2. m = 0 /\ f[0] = ServerHolds
      BY <2>1, <3>1 DEF Replays
    <3>3. Shows(f[0])
      BY <3>1, <3>2
    <3> QED
      BY <3>2, <3>3
  <2>4. ShownKeys = server.keys \ (ModifierKeys \cup UnmappedKeys)
    BY <2>3 DEF Shows, ServerHolds
  <2>5. /\ buttons = Bits(server.buttons)
        /\ lastSent.buttons = buttons \/ (leaveLost /\ server.buttons = {})
    BY <2>1, <2>3 DEF Shows, ServerHolds
  <2> QED
    BY <2>1, <2>2, <2>4, <2>5 DEF Bits
<1> QED
  BY <1>1, <1>2, <1>3, TypesAreKept, DoingIsKept, LastSentIsFaithful, PTL DEF Spec

-----------------------------------------------------------------------------
(* Nothing is scrolled twice, whatever disturbs the device.  The wheel     *)
(* steps on their way have to fit between what the host has scrolled (or   *)
(* will have, with the report in flight and the step that waits in         *)
(* mouse_wheel) and what the server asked for.  That they do is said by a  *)
(* function which gives, for every place of the queue, what the host will  *)
(* have scrolled at most when the queue is served up to there: a sum, of   *)
(* which only its bounds are needed.                                       *)

Step(c) == IF c.type = "MOUSE_WHEEL" THEN Damped(c.dy) ELSE 0

Backlog(q, low, high) ==
    \E f \in [0..Len(q) -> Int] :
        /\ low <= f[0] /\ f[Len(q)] <= high
        /\ \A i \in 1..Len(q) : 0 <= Step(q[i]) /\ f[i - 1] + Step(q[i]) <= f[i]
        /\ \A i, j \in 0..Len(q) : i <= j => f[i] <= f[j]

Scrolled == host.wheel + InFlight + wheel
HandStep == IF hidPc = "exec" THEN Step(cmd) ELSE 0
HeldStep == IF netPc = "full" THEN Step(netCmd) ELSE 0

(* The steps beyond the queue. *)
WheelHand ==
    /\ 0 <= wheel /\ 0 <= InFlight /\ 0 <= HandStep
    /\ Sending /\ report.kind = "mouse" => report.wheel = wheel

WheelInv ==
    /\ WheelHand
    /\ 0 <= HeldStep
    /\ Backlog(queue, Scrolled + HandStep, server.wheel - HeldStep)

LEMMA StepType ==
  ASSUME NEW c \in Command
  PROVE  Step(c) \in Int
  BY CommandFields, DampedType DEF Step

LEMMA BacklogWiden ==
  ASSUME NEW q \in Seq(Command), NEW low \in Int, NEW high \in Int, Backlog(q, low, high),
         NEW low2 \in Int, NEW high2 \in Int, low2 <= low, high <= high2
  PROVE  Backlog(q, low2, high2)
<1>1. PICK f \in [0..Len(q) -> Int] :
        /\ low <= f[0] /\ f[Len(q)] <= high
        /\ \A i \in 1..Len(q) : 0 <= Step(q[i]) /\ f[i - 1] + Step(q[i]) <= f[i]
        /\ \A i, j \in 0..Len(q) : i <= j => f[i] <= f[j]
  BY DEF Backlog
<1>2. Len(q) \in 0..Len(q) /\ 0 \in 0..Len(q)
  BY LenProperties
<1>3. low2 <= f[0] /\ f[Len(q)] <= high2
  BY <1>1, <1>2
<1> QED
  BY <1>1, <1>3 DEF Backlog

LEMMA BacklogAppend ==
  ASSUME NEW q \in Seq(Command), NEW low \in Int, NEW high \in Int, Backlog(q, low, high),
         NEW c \in Command, 0 <= Step(c)
  PROVE  Backlog(Append(q, c), low, high + Step(c))
<1>1. PICK f \in [0..Len(q) -> Int] :
        /\ low <= f[0] /\ f[Len(q)] <= high
        /\ \A i \in 1..Len(q) : 0 <= Step(q[i]) /\ f[i - 1] + Step(q[i]) <= f[i]
        /\ \A i, j \in 0..Len(q) : i <= j => f[i] <= f[j]
  BY DEF Backlog
<1> DEFINE r == Append(q, c)
           n == Len(q)
           s == Step(c)
           g == [i \in 0..Len(r) |-> IF i \in 0..n THEN f[i] ELSE f[n] + s]
<1>2. /\ Len(r) = n + 1 /\ n \in Nat
      /\ \A i \in 1..n : r[i] = q[i]
      /\ r[n + 1] = c
  BY AppendProperties
<1>3. s \in Int /\ f[n] \in Int /\ f[0] \in Int /\ n \in 0..n
  BY <1>2, StepType
<1>4. g \in [0..Len(r) -> Int]
  BY <1>2, <1>3
<1>5. /\ \A i \in 0..n : g[i] = f[i]
      /\ g[n + 1] = f[n] + s
  BY <1>2
<1> HIDE DEF g, r
<1>6. low <= g[0] /\ g[Len(r)] <= high + s
  BY <1>1, <1>2, <1>3, <1>5
<1>7. ASSUME NEW i \in 1..Len(r)
      PROVE  0 <= Step(r[i]) /\ g[i - 1] + Step(r[i]) <= g[i]
  <2>1. CASE i \in 1..n
    <3>1. i \in 0..n /\ i - 1 \in 0..n
      BY <1>2, <2>1
    <3> QED
      BY <1>1, <1>2, <1>5, <2>1, <3>1
  <2>2. CASE i = n + 1
    <3>1. i - 1 = n
      BY <1>2, <2>2
    <3>2. g[i - 1] = f[n] /\ g[i] = f[n] + s /\ Step(r[i]) = s
      BY <1>2, <1>3, <1>5, <2>2, <3>1
    <3> QED
      BY <1>3, <3>2
  <2> QED
    BY <1>2, <2>1, <2>2
<1>8. ASSUME NEW i \in 0..Len(r), NEW j \in 0..Len(r), i <= j
      PROVE  g[i] <= g[j]
  <2>1. CASE j \in 0..n
    <3>1. i \in 0..n
      BY <1>2, <1>8, <2>1
    <3> QED
      BY <1>1, <1>5, <1>8, <2>1, <3>1
  <2>2. CASE j = n + 1 /\ i \in 0..n
    <3>1. f[i] <= f[n] /\ f[i] \in Int
      BY <1>1, <1>2, <1>3, <2>2
    <3> QED
      BY <1>3, <1>5, <2>2, <3>1
  <2>3. CASE j = n + 1 /\ i = n + 1
    BY <1>3, <1>5, <2>3
  <2> QED
    BY <1>2, <2>1, <2>2, <2>3
<1> QED
  BY <1>4, <1>6, <1>7, <1>8 DEF Backlog, r

LEMMA BacklogTail ==
  ASSUME NEW q \in Seq(Command), q # <<>>, NEW low \in Int, NEW high \in Int,
         Backlog(q, low, high)
  PROVE  0 <= Step(Head(q)) /\ Backlog(Tail(q), low + Step(Head(q)), high)
<1>1. PICK f \in [0..Len(q) -> Int] :
        /\ low <= f[0] /\ f[Len(q)] <= high
        /\ \A i \in 1..Len(q) : 0 <= Step(q[i]) /\ f[i - 1] + Step(q[i]) <= f[i]
        /\ \A i, j \in 0..Len(q) : i <= j => f[i] <= f[j]
  BY DEF Backlog
<1> DEFINE r == Tail(q)
           g == [i \in 0..Len(r) |-> f[i + 1]]
<1>2. /\ r \in Seq(Command) /\ Len(r) = Len(q) - 1
      /\ Len(q) \in Nat \ {0} /\ q[1] = Head(q) /\ Head(q) \in Command
      /\ \A i \in 1..Len(r) : r[i] = q[i + 1] /\ i + 1 \in 1..Len(q)
  BY TailElements
<1> HIDE DEF r
<1>3. /\ g \in [0..Len(r) -> Int]
      /\ \A i \in 0..Len(r) : g[i] = f[i + 1] /\ i + 1 \in 1..Len(q) /\ i + 1 \in 0..Len(q)
  BY <1>2
<1> HIDE DEF g
<1>4. 0 <= Step(Head(q)) /\ low + Step(Head(q)) <= g[0]
  <2>1. 1 \in 1..Len(q) /\ 1 - 1 = 0 /\ 0 \in 0..Len(q) /\ 1 \in 0..Len(q) /\ 0 \in 0..Len(r)
    BY <1>2
  <2>2. 0 <= Step(q[1]) /\ f[1 - 1] + Step(q[1]) <= f[1]
    BY <1>1, <2>1
  <2>3. f[0] \in Int /\ f[1] \in Int /\ Step(Head(q)) \in Int /\ g[0] = f[1]
    BY <1>2, <1>3, <2>1, StepType
  <2> QED
    BY <1>1, <1>2, <2>1, <2>2, <2>3
<1>5. g[Len(r)] <= high
  <2>1. Len(r) \in 0..Len(r) /\ Len(r) + 1 = Len(q)
    BY <1>2
  <2> QED
    BY <1>1, <1>3, <2>1
<1>6. ASSUME NEW i \in 1..Len(r)
      PROVE  0 <= Step(r[i]) /\ g[i - 1] + Step(r[i]) <= g[i]
  <2>1. i \in 0..Len(r) /\ i - 1 \in 0..Len(r) /\ i + 1 \in 1..Len(q)
        /\ (i + 1) - 1 = i /\ (i - 1) + 1 = i
    BY <1>2
  <2>2. 0 <= Step(q[i + 1]) /\ f[(i + 1) - 1] + Step(q[i + 1]) <= f[i + 1]
    BY <1>1, <2>1
  <2>3. r[i] = q[i + 1] /\ g[i] = f[i + 1] /\ g[i - 1] = f[i]
    BY <1>2, <1>3, <2>1
  <2> QED
    BY <2>1, <2>2, <2>3
<1>7. ASSUME NEW i \in 0..Len(r), NEW j \in 0..Len(r), i <= j
      PROVE  g[i] <= g[j]
  BY <1>1, <1>2, <1>3, <1>7
<1> QED
  BY <1>3, <1>4, <1>5, <1>6, <1>7 DEF Backlog, r

LEMMA BacklogEmpty ==
  ASSUME NEW low \in Int, NEW high \in Int, low <= high
  PROVE  Backlog(<<>>, low, high)
<1> DEFINE f == [i \in 0..0 |-> low]
<1>1. f \in [0..0 -> Int] /\ f[0] = low
  OBVIOUS
<1> HIDE DEF f
<1> QED
  BY <1>1 DEF Backlog

(* The bounds of a backlog are in order. *)
LEMMA BacklogOrder ==
  ASSUME NEW q \in Seq(Command), NEW low \in Int, NEW high \in Int, Backlog(q, low, high)
  PROVE  low <= high
<1>1. PICK f \in [0..Len(q) -> Int] :
        /\ low <= f[0] /\ f[Len(q)] <= high
        /\ \A i, j \in 0..Len(q) : i <= j => f[i] <= f[j]
  BY DEF Backlog
<1>2. Len(q) \in 0..Len(q) /\ 0 \in 0..Len(q) /\ 0 <= Len(q)
  BY LenProperties
<1>3. f[0] <= f[Len(q)] /\ f[0] \in Int /\ f[Len(q)] \in Int
  BY <1>1, <1>2
<1> QED
  BY <1>1, <1>3

LEMMA WheelTypes ==
  ASSUME TypeOK
  PROVE  /\ Scrolled \in Int /\ InFlight \in Int /\ HandStep \in Int /\ HeldStep \in Int
         /\ wheel \in Int /\ host.wheel \in Int /\ server.wheel \in Int
         /\ Scrolled = host.wheel + InFlight + wheel
         /\ queue \in Seq(Command)
<1>1. wheel \in Int /\ host.wheel \in Int /\ server.wheel \in Int /\ queue \in Seq(Command)
  BY DEF TypeOK, WheelSteps
<1>2. InFlight \in Int
  BY DEF TypeOK, InFlight, Report, MouseReports, KeyReports, WheelSteps
<1>3. HandStep \in Int
  BY StepType DEF TypeOK, HandStep
<1>4. HeldStep \in Int
  BY StepType DEF TypeOK, HeldStep
<1> QED
  BY <1>1, <1>2, <1>3, <1>4 DEF Scrolled

(* One try at a mouse report moves the wheel steps, or forgets them. *)
LEMMA SendOnceScrolls ==
  ASSUME TypeOK, 0 <= wheel, 0 <= InFlight, SendAbsMouseOnce
  PROVE  /\ wheel' \in Int /\ InFlight' \in Int /\ 0 <= wheel' /\ 0 <= InFlight'
         /\ InFlight' + wheel' <= InFlight + wheel
<1>1. wheel \in Int /\ InFlight \in Int
  BY WheelTypes
<1>2. CASE endpoint' = endpoint /\ wheel' = wheel
  <2>1. InFlight' = InFlight
    BY <1>2 DEF InFlight
  <2> QED
    BY <1>1, <1>2, <2>1
<1>3. CASE Accepts /\ endpoint' = MouseReport(seen) /\ wheel' = 0
  <2>1. InFlight = 0 /\ (InFlight' = wheel \/ InFlight' = 0)
    BY <1>3 DEF Accepts, InFlight, MouseReport
  <2> QED
    BY <1>1, <1>3, <2>1
<1> QED
  BY <1>2, <1>3 DEF SendAbsMouseOnce

(* The HID task and the host move the steps on, or drop them. *)
LEMMA WheelHidSent ==
  ASSUME TypeOK, WheelHand, hidPc' # "exec", host' = host,
         wheel' \in Int, InFlight' \in Int, 0 <= wheel', 0 <= InFlight',
         InFlight' + wheel' <= InFlight + wheel + HandStep,
         (Sending /\ report.kind = "mouse" => report.wheel = wheel)'
  PROVE  WheelHand' /\ Scrolled' + HandStep' <= Scrolled + HandStep
<1>1. /\ wheel \in Int /\ InFlight \in Int /\ HandStep \in Int /\ host.wheel \in Int
      /\ Scrolled = host.wheel + InFlight + wheel
  BY WheelTypes
<1>2. HandStep' = 0
  BY DEF HandStep
<1>3. Scrolled' = host.wheel + InFlight' + wheel'
  BY DEF Scrolled
<1>4. WheelHand'
  BY <1>2 DEF WheelHand
<1>5. \A a, b, c, d, e, h \in Int :
        a + b <= c + d + e => (h + a + b) + 0 <= (h + c + d) + e
  OBVIOUS
<1> QED
  BY <1>1, <1>2, <1>3, <1>4, <1>5

LEMMA WheelHid ==
  ASSUME TypeOK, WheelHand, HidStep, ~HidReceive
  PROVE  WheelHand' /\ Scrolled' + HandStep' <= Scrolled + HandStep
<1>1. /\ wheel \in Int /\ InFlight \in Int /\ HandStep \in Int /\ host.wheel \in Int
      /\ 0 <= wheel /\ 0 <= InFlight /\ 0 <= HandStep
  BY WheelTypes DEF WheelHand
<1>2. hidPc' # "exec" /\ host' = host
  <2>1. hidPc' # "exec"
    BY DEF HidStep, HidClaimMove, HidMove, HidWake, HidDrop, HidKey, HidMouse, HidEnter, HidLeave,
           HidLeaveMouse, HidJiggle, HidJiggleAside, HidSession, HidStoreX, HidStoreY, HidLoadX,
           HidLoadY, HidSendMove, HidSendEnter, HidSendLeave, HidSendJiggle, HidWakeHost,
           HidSendAccepted, HidSendRefused, HidRetry, AfterSend, StartSending
  <2> QED
    BY <2>1, HidFrame
<1>3. CASE \/ HidClaimMove \/ HidMove \/ HidWake \/ HidDrop \/ HidKey \/ HidEnter \/ HidLeave
           \/ HidJiggle \/ HidJiggleAside \/ HidStoreX \/ HidStoreY \/ HidLoadX \/ HidLoadY
           \/ HidWakeHost \/ HidRetry \/ HidSendRefused
  <2>1. wheel' = wheel /\ endpoint' = endpoint
    BY <1>3 DEF HidClaimMove, HidMove, HidWake, HidDrop, HidKey, HidEnter, HidLeave, HidJiggle,
                HidJiggleAside, HidStoreX, HidStoreY, HidLoadX, HidLoadY, HidWakeHost, HidRetry,
                HidSendRefused
  <2>2. \/ ~Sending'
        \/ report'.kind = "kb"
        \/ report'.wheel = wheel
        \/ Sending /\ report' = report
    BY <1>3 DEF HidClaimMove, HidMove, HidWake, HidDrop, HidKey, HidEnter, HidLeave, HidJiggle,
                HidJiggleAside, HidStoreX, HidStoreY, HidLoadX, HidLoadY, HidWakeHost, HidRetry,
                HidSendRefused, AfterSend, StartSending, Sending, KbReport, MouseReport
  <2>3. InFlight' = InFlight
    BY <2>1 DEF InFlight
  <2> QED
    BY <1>1, <1>2, <2>1, <2>2, <2>3, WheelHidSent DEF WheelHand
<1>4. CASE HidSession \/ HidLeaveMouse
  <2>1. (wheel' = wheel \/ wheel' = 0) /\ endpoint' = endpoint /\ ~Sending'
    BY <1>4 DEF HidSession, HidLeaveMouse, Sending
  <2>2. InFlight' = InFlight
    BY <2>1 DEF InFlight
  <2> QED
    BY <1>1, <1>2, <2>1, <2>2, WheelHidSent
<1>5. CASE HidMouse
  <2>1. /\ hidPc = "exec" /\ ~Sending' /\ endpoint' = endpoint
        /\ wheel' = IF cmd.type = "MOUSE_WHEEL" THEN Damped(cmd.dy) ELSE wheel
    BY <1>5 DEF HidMouse, Executes, Sending
  <2>2. InFlight' = InFlight
    BY <2>1 DEF InFlight
  <2>3. wheel' = IF cmd.type = "MOUSE_WHEEL" THEN HandStep ELSE wheel
    BY <2>1 DEF HandStep, Step
  <2> QED
    BY <1>1, <1>2, <2>1, <2>2, <2>3, WheelHidSent
<1>6. CASE HidSendMove \/ HidSendEnter \/ HidSendLeave \/ HidSendJiggle
  <2>1. SendAbsMouseOnce /\ (~Sending' \/ report'.kind = "kb")
    BY <1>6 DEF HidSendMove, HidSendEnter, HidSendLeave, HidSendJiggle, StartSending, Sending
  <2>2. /\ wheel' \in Int /\ InFlight' \in Int /\ 0 <= wheel' /\ 0 <= InFlight'
        /\ InFlight' + wheel' <= InFlight + wheel
    BY <1>1, <2>1, SendOnceScrolls
  <2>3. \A a, b, c, d, e \in Int : a + b <= c + d /\ 0 <= e => a + b <= c + d + e
    OBVIOUS
  <2>4. InFlight' + wheel' <= InFlight + wheel + HandStep
    BY <1>1, <2>2, <2>3
  <2> QED
    BY <1>2, <2>1, <2>2, <2>4, WheelHidSent
<1>7. CASE HidSendAccepted
  <2>1. /\ Sending /\ ~Sending' /\ endpoint = NoReport /\ endpoint' = report
        /\ wheel' = IF report.kind = "mouse" THEN 0 ELSE wheel
    BY <1>7 DEF HidSendAccepted, AfterSend, Accepts, Sending
  <2>2. /\ InFlight = 0
        /\ InFlight' = IF report.kind = "mouse" THEN wheel ELSE 0
    <3>1. report # NoReport
      BY <2>1, ActuatorAssumption DEF TypeOK, Sending
    <3> QED
      BY <2>1, <3>1 DEF InFlight, WheelHand
  <2> QED
    BY <1>1, <1>2, <2>1, <2>2, WheelHidSent
<1> QED
  BY <1>3, <1>4, <1>5, <1>6, <1>7 DEF HidStep

LEMMA WheelUsb ==
  ASSUME TypeOK, WheelHand, UsbTaskStep
  PROVE  WheelHand' /\ Scrolled' + HandStep' <= Scrolled + HandStep
<1>1. UNCHANGED <<wheel, hidPc, cmd, report>>
  BY UsbFrame
<1>2. /\ wheel \in Int /\ InFlight \in Int /\ HandStep \in Int /\ host.wheel \in Int
      /\ 0 <= wheel /\ 0 <= InFlight /\ 0 <= HandStep
      /\ Scrolled = host.wheel + InFlight + wheel
  BY WheelTypes DEF WheelHand
<1>3. HandStep' = HandStep /\ (Sending /\ report.kind = "mouse" => report.wheel = wheel)'
  BY <1>1 DEF HandStep, Sending, WheelHand
<1>4. Scrolled' = host'.wheel + InFlight' + wheel
  BY <1>1 DEF Scrolled
<1>5. CASE Complete
  <2>1. InFlight' = 0 /\ host'.wheel = host.wheel + InFlight
    <3>1. endpoint \in Report /\ endpoint' = NoReport /\ host' = HostTakes(host, endpoint)
      BY <1>5 DEF Complete, TypeOK
    <3>2. endpoint.kind \in {"kb", "mouse"}
      BY <3>1 DEF Report, KeyReports, MouseReports
    <3>3. host'.wheel = IF endpoint.kind = "mouse" THEN host.wheel + endpoint.wheel
                        ELSE host.wheel
      BY <3>1, <3>2 DEF HostTakes, TypeOK
    <3> QED
      BY <1>2, <1>5, <3>1, <3>3 DEF Complete, InFlight
  <2> QED
    BY <1>1, <1>2, <1>3, <1>4, <2>1 DEF WheelHand
<1>6. CASE Unplug
  <2>1. InFlight' = 0 /\ host'.wheel = host.wheel
    BY <1>6 DEF Unplug, InFlight, TypeOK
  <2> QED
    BY <1>1, <1>2, <1>3, <1>4, <2>1 DEF WheelHand
<1>7. CASE ~Complete /\ ~Unplug
  <2>1. UNCHANGED <<endpoint, host>>
    BY <1>7 DEF UsbTaskStep, UsbStep, Plug, CompleteCb, Suspend, SuspendCb, SuspendCheck, Resume,
                ResumeCb
  <2>2. InFlight' = InFlight
    BY <2>1 DEF InFlight
  <2> QED
    BY <1>1, <1>2, <1>3, <1>4, <2>1, <2>2 DEF WheelHand
<1> QED
  BY <1>5, <1>6, <1>7

WheelTyped == Scrolled \in Int /\ HandStep \in Int

(* The network task moves the steps it queues from the server's side to    *)
(* the device's, and a flush or a dump drops some.                         *)
LEMMA WheelEnqueue ==
  ASSUME TypeOK, WheelInv, HeldStep = 0, NEW c \in Command, 0 <= Step(c), Enqueue(c),
         UNCHANGED <<wheel, endpoint, host, hidPc, cmd, report>>,
         server'.wheel = server.wheel + Step(c)
  PROVE  WheelInv'
<1>1. UNCHANGED <<Scrolled, HandStep>> /\ WheelHand'
  BY DEF Scrolled, HandStep, InFlight, WheelInv, WheelHand, Sending
<1>2. /\ Scrolled + HandStep \in Int /\ server.wheel \in Int /\ Step(c) \in Int
      /\ queue \in Seq(Command)
      /\ Backlog(queue, Scrolled + HandStep, server.wheel)
  BY WheelTypes, StepType DEF WheelInv
<1>3. CASE Len(queue) < QueueDepth
  <2>1. queue' = Append(queue, c) /\ HeldStep' = 0
    BY <1>3 DEF Enqueue, HeldStep
  <2>2. Backlog(queue', Scrolled + HandStep, server.wheel + Step(c))
    BY <1>2, <2>1, BacklogAppend
  <2>3. server'.wheel - HeldStep' = server.wheel + Step(c)
    BY <1>2, <2>1
  <2> QED
    BY <1>1, <2>1, <2>2, <2>3 DEF WheelInv
<1>4. CASE ~(Len(queue) < QueueDepth)
  <2>1. queue' = queue /\ HeldStep' = Step(c)
    BY <1>4 DEF Enqueue, HeldStep
  <2>2. server'.wheel - HeldStep' = server.wheel
    BY <1>2, <2>1
  <2> QED
    BY <1>1, <1>2, <2>1, <2>2 DEF WheelInv
<1> QED
  BY <1>3, <1>4

LEMMA WheelShorter ==
  ASSUME TypeOK, WheelInv, queue # <<>>, queue' = Tail(queue), server' = server,
         HeldStep' = HeldStep, UNCHANGED <<wheel, endpoint, host, hidPc, cmd, report>>
  PROVE  WheelInv'
<1>1. UNCHANGED <<Scrolled, HandStep>> /\ WheelHand'
  BY DEF Scrolled, HandStep, InFlight, WheelInv, WheelHand, Sending
<1> DEFINE low == Scrolled + HandStep
           high == server.wheel - HeldStep
           s == Step(Head(queue))
<1>2. low \in Int /\ high \in Int /\ queue \in Seq(Command) /\ s \in Int
      /\ Tail(queue) \in Seq(Command)
  BY WheelTypes, StepType, TailElements
<1>3. 0 <= s /\ Backlog(Tail(queue), low + s, high)
  BY <1>2, BacklogTail DEF WheelInv
<1>4. low + s \in Int /\ low <= low + s /\ high <= high
  BY <1>2, <1>3
<1> HIDE DEF low, high, s
<1>5. Backlog(Tail(queue), low, high)
  BY <1>2, <1>3, <1>4, BacklogWiden
<1> QED
  BY <1>1, <1>5 DEF WheelInv, low, high

LEMMA WheelNet ==
  ASSUME TypeOK, ScrollsOneWay, WheelInv, NetStep
  PROVE  WheelInv'
<1>1. UNCHANGED <<wheel, endpoint, host, hidPc, cmd, report>>
  BY NetFrame
<1>2. UNCHANGED <<Scrolled, HandStep>> /\ WheelHand'
  BY <1>1 DEF Scrolled, HandStep, InFlight, WheelInv, WheelHand, Sending
<1>3. /\ Scrolled + HandStep \in Int /\ server.wheel \in Int /\ HeldStep \in Int
      /\ server.wheel - HeldStep \in Int /\ queue \in Seq(Command)
  BY WheelTypes
<1>4. ASSUME NEW c \in Commands, NetQueue(c) PROVE WheelInv'
  <2>1. /\ c \in Command /\ netPc = "idle" /\ ServerSends(c) /\ server' = ServerAfter(c)
        /\ Enqueue(c)
    BY <1>4, ActuatorAssumption DEF NetQueue
  <2>2. 0 <= Step(c)
    BY <2>1 DEF ScrollsOneWay, Step, Damped
  <2>3. server'.wheel = server.wheel + Step(c)
    <3>1. server \in [online : BOOLEAN, entered : BOOLEAN, keys : SUBSET Keys,
                      buttons : SUBSET Buttons, wheel : Int, exact : BOOLEAN]
      BY DEF TypeOK
    <3>2. CASE c.type = "MOUSE_WHEEL"
      BY <2>1, <3>1, <3>2 DEF ServerAfter, Step
    <3>3. CASE c.type # "MOUSE_WHEEL"
      <4>1. server'.wheel = server.wheel /\ Step(c) = 0
        BY <2>1, <3>1, <3>3 DEF ServerAfter, Step
      <4> QED
        BY <1>3, <4>1
    <3> QED
      BY <3>2, <3>3
  <2>4. HeldStep = 0
    BY <2>1 DEF HeldStep
  <2> QED
    BY <1>1, <2>1, <2>2, <2>3, <2>4, WheelEnqueue
<1>5. ASSUME queue' = queue, server'.wheel = server.wheel, HeldStep' = HeldStep \/ HeldStep' = 0
      PROVE  WheelInv'
  <2>1. CASE HeldStep' = HeldStep
    BY <1>2, <1>5, <2>1 DEF WheelInv
  <2>2. CASE HeldStep' = 0
    <3>1. server.wheel - HeldStep <= server.wheel - 0 /\ server.wheel - 0 \in Int
      BY <1>3 DEF WheelInv
    <3>2. Backlog(queue, Scrolled + HandStep, server.wheel - 0)
      BY <1>3, <3>1, BacklogWiden DEF WheelInv
    <3> QED
      BY <1>2, <1>5, <2>2, <3>2 DEF WheelInv
  <2> QED
    BY <1>5, <2>1, <2>2
<1>6. ASSUME NEW c \in Commands, NetDropRepeat(c) PROVE WheelInv'
  <2>1. /\ c \in Command /\ Repeats(c) /\ UNCHANGED <<netPc, netCmd, queue>>
        /\ server' = IF c.type = "MOUSE_WHEEL" THEN server
                     ELSE [ServerAfter(c) EXCEPT !.exact = FALSE]
    BY <1>6, ActuatorAssumption DEF NetDropRepeat
  <2>2. c.type \in {"KEY_DOWN", "KEY_UP", "MOUSE_DOWN", "MOUSE_UP", "MOUSE_WHEEL"}
    BY <2>1 DEF Repeats, DedupSlot
  <2>3. server'.wheel = server.wheel
    BY <2>1, <2>2 DEF ServerAfter, TypeOK
  <2>4. HeldStep' = HeldStep
    BY <2>1 DEF HeldStep
  <2> QED
    BY <1>5, <2>1, <2>3, <2>4
<1>7. ASSUME NEW m \in Moves, NetMoveX(m) PROVE WheelInv'
  <2>1. UNCHANGED <<queue, server>> /\ HeldStep' = HeldStep
    BY <1>7 DEF NetMoveX, HeldStep
  <2> QED
    BY <1>5, <2>1
<1>8. CASE NetGive \/ NetTimeout \/ NetMoveY \/ NetMoveCas \/ NetDisconnect
  <2>1. /\ queue' = queue /\ server'.wheel = server.wheel
        /\ HeldStep' = HeldStep \/ HeldStep' = 0
    BY <1>8 DEF NetGive, NetTimeout, NetMoveY, NetMoveCas, NetDisconnect, HeldStep, SessionOver,
                Offline
  <2> QED
    BY <1>5, <2>1
<1>9. CASE NetUnblock
  <2>1. /\ queue' = Append(queue, netCmd) /\ server' = server /\ HeldStep' = 0
        /\ HeldStep = Step(netCmd) /\ netCmd \in Command
    BY <1>9 DEF NetUnblock, HeldStep, TypeOK
  <2>2. Backlog(queue', Scrolled + HandStep, (server.wheel - HeldStep) + HeldStep)
    BY <1>3, <2>1, BacklogAppend DEF WheelInv
  <2>3. (server.wheel - HeldStep) + HeldStep = server'.wheel - HeldStep'
    BY <1>3, <2>1
  <2> QED
    BY <1>2, <2>1, <2>2, <2>3 DEF WheelInv
<1>10. CASE NetDump
  <2>1. CASE queue # <<>>
    <3>1. queue' = Tail(queue) /\ server' = server /\ HeldStep' = HeldStep
      BY <1>10, <2>1 DEF NetDump, HeldStep
    <3> QED
      BY <1>1, <2>1, <3>1, WheelShorter
  <2>2. CASE queue = <<>>
    <3>1. /\ queue' = queue /\ server'.wheel = server.wheel
          /\ HeldStep' = 0
      BY <1>10, <2>2 DEF NetDump, HeldStep, SessionOver, Offline
    <3> QED
      BY <1>5, <3>1
  <2> QED
    BY <2>1, <2>2
<1>11. CASE NetFlush
  <2>1. CASE queue # <<>>
    <3>1. queue' = Tail(queue) /\ server' = server /\ HeldStep' = HeldStep
      BY <1>11, <2>1 DEF NetFlush, HeldStep
    <3> QED
      BY <1>1, <2>1, <3>1, WheelShorter
  <2>2. CASE queue = <<>>
    <3> DEFINE d == [type |-> "DISCONNECTED"]
    <3>1. Enqueue(d) /\ server' = server /\ netPc = "flush"
      BY <1>11, <2>2 DEF NetFlush
    <3>2. d \in Command /\ Step(d) = 0 /\ HeldStep = 0
      BY <3>1 DEF Command, Step, HeldStep
    <3>3. server'.wheel = server.wheel + Step(d) /\ 0 <= Step(d)
      BY <1>3, <3>1, <3>2
    <3> QED
      BY <1>1, <3>1, <3>2, <3>3, WheelEnqueue
  <2> QED
    BY <2>1, <2>2
<1> QED
  BY <1>4, <1>6, <1>7, <1>8, <1>9, <1>10, <1>11 DEF NetStep

(* The command the HID task receives brings its step along. *)
LEMMA WheelReceive ==
  ASSUME TypeOK, WheelInv, HidReceive
  PROVE  WheelInv'
<1>1. /\ UNCHANGED <<wheel, endpoint, host, server>> /\ ~Sending'
      /\ HandStep = 0 /\ UNCHANGED <<InFlight, Scrolled, HeldStep>>
  BY DEF HidReceive, HandStep, InFlight, Scrolled, HeldStep, Sending
<1>2. Scrolled \in Int /\ server.wheel - HeldStep \in Int /\ queue \in Seq(Command)
  BY WheelTypes
<1>3. CASE queue # <<>>
  <2>1. queue' = Tail(queue) /\ HandStep' = Step(Head(queue))
    BY <1>3 DEF HidReceive, HandStep
  <2>2. Scrolled + HandStep = Scrolled
    BY <1>1, <1>2
  <2>3. /\ 0 <= Step(Head(queue))
        /\ Backlog(Tail(queue), Scrolled + Step(Head(queue)), server.wheel - HeldStep)
    BY <1>2, <1>3, <2>2, BacklogTail DEF WheelInv
  <2>4. WheelHand'
    BY <1>1, <2>1, <2>3 DEF WheelInv, WheelHand
  <2> QED
    BY <1>1, <2>1, <2>3, <2>4 DEF WheelInv
<1>4. CASE queue = <<>>
  <2>1. queue' = queue /\ HandStep' = 0
    BY <1>4 DEF HidReceive, HandStep
  <2>2. WheelHand'
    BY <1>1, <2>1 DEF WheelInv, WheelHand
  <2> QED
    BY <1>1, <2>1, <2>2 DEF WheelInv
<1> QED
  BY <1>3, <1>4

(* The host never scrolls further than the server asked, although a        *)
(* refused wheel step stays in mouse_wheel and rides on a later report     *)
(* (send_abs_mouse_once, send_abs_mouse_retry), whatever the cable, the    *)
(* bus and the network do.                                                 *)
THEOREM NothingIsScrolledTwice == Spec => []NoDoubleScroll
<1>0. TypeOK => WheelTyped
  BY WheelTypes DEF WheelTyped
<1>1. Init => WheelInv
  <2> SUFFICES ASSUME Init PROVE WheelInv
    OBVIOUS
  <2>1. /\ queue = <<>> /\ wheel = 0 /\ InFlight = 0 /\ host.wheel = 0 /\ server.wheel = 0
        /\ HandStep = 0 /\ HeldStep = 0 /\ ~Sending
    BY DEF Init, UsbInit, HostReleased, InFlight, Offline, HandStep, HeldStep, Sending
  <2>2. Scrolled + HandStep = 0 /\ server.wheel - HeldStep = 0
    BY <2>1 DEF Scrolled
  <2>3. Backlog(<<>>, 0, 0)
    BY BacklogEmpty
  <2> QED
    BY <2>1, <2>2, <2>3 DEF WheelInv, WheelHand
<1>2. TypeOK /\ WheelTyped' /\ (ScrollsOneWay => WheelInv) /\ [Next]_vars =>
        (ScrollsOneWay => WheelInv)'
  <2> SUFFICES ASSUME TypeOK, WheelTyped', ScrollsOneWay, WheelInv, [Next]_vars PROVE WheelInv'
    BY DEF ScrollsOneWay
  <2>1. CASE NetStep
    BY <2>1, WheelNet
  <2>2. CASE HidReceive
    BY <2>2, WheelReceive
  <2>3. CASE (HidStep /\ ~HidReceive) \/ UsbTaskStep
    <3>1. WheelHand' /\ Scrolled' + HandStep' <= Scrolled + HandStep
      BY <2>3, WheelHid, WheelUsb DEF WheelInv
    <3>2. UNCHANGED <<queue, server, netPc, netCmd>>
      <4>1. CASE UsbTaskStep
        BY <4>1, UsbFrame
      <4>2. CASE HidStep /\ ~HidReceive
        BY <4>2, HidFrame
      <4> QED
        BY <2>3, <4>1, <4>2
    <3>3. HeldStep' = HeldStep
      BY <3>2 DEF HeldStep
    <3>4. /\ Scrolled + HandStep \in Int /\ server.wheel - HeldStep \in Int
          /\ queue \in Seq(Command)
      BY WheelTypes
    <3>5. Scrolled' + HandStep' \in Int
      BY DEF WheelTyped
    <3>6. Backlog(queue, Scrolled' + HandStep', server.wheel - HeldStep)
      BY <3>1, <3>4, <3>5, BacklogWiden DEF WheelInv
    <3> QED
      BY <3>1, <3>2, <3>3, <3>6 DEF WheelInv
  <2>4. CASE UNCHANGED vars
    <3>1. UNCHANGED <<queue, server, Scrolled, HandStep, HeldStep>> /\ WheelHand'
      BY <2>4 DEF Scrolled, HandStep, HeldStep, InFlight, WheelHand, Sending, WheelInv
    <3> QED
      BY <3>1 DEF WheelInv
  <2> QED
    BY <2>1, <2>2, <2>3, <2>4 DEF Next
<1>3. TypeOK /\ (ScrollsOneWay => WheelInv) => NoDoubleScroll
  <2> SUFFICES ASSUME TypeOK, ScrollsOneWay, WheelInv
               PROVE  host.wheel + InFlight + wheel <= server.wheel
    BY DEF NoDoubleScroll
  <2>1. /\ Scrolled \in Int /\ HandStep \in Int /\ HeldStep \in Int /\ server.wheel \in Int
        /\ queue \in Seq(Command) /\ 0 <= HandStep /\ 0 <= HeldStep
    BY WheelTypes DEF WheelInv, WheelHand
  <2>2. Scrolled + HandStep \in Int /\ server.wheel - HeldStep \in Int
    BY <2>1
  <2>3. Scrolled + HandStep <= server.wheel - HeldStep
    BY <2>1, <2>2, BacklogOrder DEF WheelInv
  <2>4. Scrolled <= server.wheel
    BY <2>1, <2>3
  <2> QED
    BY <2>4 DEF Scrolled
<1> QED
  BY <1>0, <1>1, <1>2, <1>3, TypesAreRespected, PTL DEF Spec
=============================================================================
